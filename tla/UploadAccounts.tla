---------------------------- MODULE UploadAccounts ----------------------------
(***************************************************************************)
(* The books of uploads agree with what happened, for every number of      *)
(* uploads, nodes and parts and every capacity: an item is all of its file *)
(* and nothing but committed parts, ingress is metered for what is         *)
(* committed, a node never promises more than it has, what it holds is     *)
(* reserved on it, and what was aborted is on its way out.                 *)
(*                                                                         *)
(* The reason on the side of a node is the order of its frames: the        *)
(* init_session of a session is the first of its frames, the round of      *)
(* commit_finalize finds all chunks there, and a delete_object follows it. *)
(* For the same reason nothing fails without a cause from outside: the     *)
(* chunks travel in front of the commit_check that asks for them.  What a  *)
(* client is told rests on all of this.                                    *)
(***************************************************************************)
EXTENDS UploadProofs, CounterTheorems, SequenceTheorems, WellFoundedInduction,
        NaturalsInduction

-----------------------------------------------------------------------------
(* Numbers and totals *)

LEMMA LeastNat ==
    ASSUME NEW T \in SUBSET Nat, T # {}
    PROVE  \E x \in T : \A y \in T : x <= y
<1> DEFINE R == {r \in Nat \X Nat : r[1] < r[2]}
<1>1. IsWellFoundedOn(R, Nat)
  <2>1. SUFFICES ASSUME NEW f \in [Nat -> Nat], \A n \in Nat : <<f[n+1], f[n]>> \in R
                 PROVE  FALSE
    BY DEF IsWellFoundedOn
  <2>2. IsWellFoundedOn(OpToRel(<, Nat), Nat) BY NatLessThanWellFounded
  <2>3. \A n \in Nat : f[n+1] < f[n] BY <2>1
  <2>4. \A n \in Nat : <<f[n+1], f[n]>> \in OpToRel(<, Nat) BY <2>3 DEF OpToRel
  <2> QED BY <2>1, <2>2, <2>4 DEF IsWellFoundedOn
<1>2. PICK x \in T : \A y \in T : <<y, x>> \notin R BY <1>1, WFMin
<1>3. ASSUME NEW y \in T PROVE x <= y
  <2>1. x \in Nat /\ y \in Nat OBVIOUS
  <2>2. y < x => <<y, x>> \in R BY <2>1
  <2>3. ~(y < x) BY <1>2, <2>2
  <2> QED BY <2>1, <2>3
<1> QED BY <1>3

(* What counts nothing may be left out. *)
LEMMA TotalExtended ==
    ASSUME NEW S, NEW T \in SUBSET S, NEW f \in [S -> Nat], NEW g \in [T -> Nat],
           \A x \in T : g[x] = f[x], \A x \in S \ T : f[x] = 0
    PROVE  TotalOf(f) = TotalOf(g)
<1>1. ASSUME NEW w \in Units(f) PROVE w \in Units(g)
  <2>1. w[1] \in S /\ w[2] \in 1 .. f[w[1]] /\ w = <<w[1], w[2]>> BY UnitsOf
  <2>2. f[w[1]] \in Nat BY <2>1
  <2>3. w[1] \in T BY <2>1, <2>2
  <2>4. w[2] \in 1 .. g[w[1]] /\ w[2] \in Nat BY <2>1, <2>2, <2>3
  <2>5. <<w[1], w[2]>> \in Units(g) BY <2>3, <2>4, UnitsOf
  <2> QED BY <2>1, <2>5
<1>2. ASSUME NEW w \in Units(g) PROVE w \in Units(f)
  <2>1. w[1] \in T /\ w[2] \in 1 .. g[w[1]] /\ w = <<w[1], w[2]>> BY UnitsOf
  <2>2. g[w[1]] \in Nat /\ w[1] \in S BY <2>1
  <2>3. w[2] \in 1 .. f[w[1]] /\ w[2] \in Nat BY <2>1, <2>2
  <2>4. <<w[1], w[2]>> \in Units(f) BY <2>2, <2>3, UnitsOf
  <2> QED BY <2>1, <2>4
<1>3. Units(f) = Units(g)
  <2>1. Units(f) \subseteq Units(g) BY <1>1
  <2>2. Units(g) \subseteq Units(f) BY <1>2
  <2> QED BY <2>1, <2>2
<1> QED BY <1>3 DEF TotalOf

(* Counters that go to different counters, none of them larger *)
LEMMA TotalReindexed ==
    ASSUME NEW S, NEW T, IsFiniteSet(T), NEW f \in [S -> Nat], NEW g \in [T -> Nat],
           NEW h \in [S -> T], \A x, y \in S : h[x] = h[y] => x = y,
           \A x \in S : f[x] <= g[h[x]]
    PROVE  TotalOf(f) <= TotalOf(g)
<1> DEFINE m == [w \in Units(f) |-> <<h[w[1]], w[2]>>]
<1>1. ASSUME NEW w \in Units(f)
      PROVE  /\ w[1] \in S /\ w = <<w[1], w[2]>> /\ m[w] \in Units(g)
  <2>1. w[1] \in S /\ w[2] \in 1 .. f[w[1]] /\ w = <<w[1], w[2]>> BY UnitsOf
  <2>2. h[w[1]] \in T /\ f[w[1]] \in Nat /\ g[h[w[1]]] \in Nat BY <2>1
  <2>3. w[2] \in 1 .. g[h[w[1]]] /\ w[2] \in Nat BY <2>1, <2>2
  <2>4. <<h[w[1]], w[2]>> \in Units(g) BY <2>2, <2>3, UnitsOf
  <2> QED BY <2>1, <2>4
<1>2. m \in Injection(Units(f), Units(g))
  <2>1. m \in [Units(f) -> Units(g)] BY <1>1
  <2>2. ASSUME NEW v \in Units(f), NEW w \in Units(f), m[v] = m[w] PROVE v = w
    <3>1. h[v[1]] = h[w[1]] /\ v[2] = w[2] BY <2>2
    <3>2. v[1] = w[1] BY <1>1, <3>1
    <3> QED BY <1>1, <3>1, <3>2
  <2> QED BY <2>1, <2>2 DEF Injection, IsInjective
<1>3. IsFiniteSet(Units(g)) BY TotalType
<1> QED BY <1>2, <1>3, FS_Injection DEF TotalOf

(* The counters 1 to k of a list of counters *)
LEMMA TotalPrefix ==
    ASSUME NEW w, NEW L \in Nat, \A i \in 1 .. L : w[i] \in Nat
    PROVE  /\ TotalOf([i \in 1 .. 0 |-> w[i]]) = 0
           /\ \A k \in 0 .. L : TotalOf([i \in 1 .. k |-> w[i]]) \in Nat
           /\ \A k \in 1 .. L : TotalOf([i \in 1 .. k |-> w[i]])
                                = TotalOf([i \in 1 .. k - 1 |-> w[i]]) + w[k]
<1>1. TotalOf([i \in 1 .. 0 |-> w[i]]) = 0
  <2>1. \A i \in 1 .. 0 : FALSE OBVIOUS
  <2>2. [i \in 1 .. 0 |-> w[i]] \in [1 .. 0 -> Nat] BY <2>1
  <2> QED BY <2>1, <2>2, TotalZero
<1>2. ASSUME NEW k \in 0 .. L PROVE TotalOf([i \in 1 .. k |-> w[i]]) \in Nat
  <2>1. IsFiniteSet(1 .. k) BY FS_Interval
  <2>2. [i \in 1 .. k |-> w[i]] \in [1 .. k -> Nat] OBVIOUS
  <2> QED BY <2>1, <2>2, TotalType
<1>3. ASSUME NEW k \in 1 .. L
      PROVE  TotalOf([i \in 1 .. k |-> w[i]]) = TotalOf([i \in 1 .. k - 1 |-> w[i]]) + w[k]
  <2> DEFINE g == [i \in 1 .. k |-> w[i]]
             f == [i \in 1 .. k |-> IF i = k THEN 0 ELSE w[i]]
             e == [i \in 1 .. k - 1 |-> w[i]]
  <2>1. IsFiniteSet(1 .. k) /\ k \in 1 .. k BY FS_Interval
  <2>2. f \in [1 .. k -> Nat] /\ g \in [1 .. k -> Nat] /\ e \in [1 .. k - 1 -> Nat] OBVIOUS
  <2>3. \A y \in (1 .. k) \ {k} : g[y] = f[y] OBVIOUS
  <2>4. f[k] = 0 /\ g[k] = w[k] BY <2>1
  <2>5. 1 .. k - 1 \in SUBSET (1 .. k) OBVIOUS
  <2>6. \A x \in 1 .. k - 1 : e[x] = f[x] OBVIOUS
  <2>7. \A x \in (1 .. k) \ (1 .. k - 1) : f[x] = 0 OBVIOUS
  <2> HIDE DEF f, g, e
  <2>8. TotalOf(f) = TotalOf(e)
    <3>1. PICK S : S = 1 .. k OBVIOUS
    <3>2. PICK T : T = 1 .. k - 1 OBVIOUS
    <3>3. /\ T \in SUBSET S /\ f \in [S -> Nat] /\ e \in [T -> Nat]
          /\ \A x \in T : e[x] = f[x]
          /\ \A y \in S \ T : f[y] = 0
      BY <2>2, <2>5, <2>6, <2>7, <3>1, <3>2
    <3> QED BY <3>3, TotalExtended
  <2>9. TotalOf(g) = TotalOf(f) - f[k] + g[k] BY <2>1, <2>2, <2>3, TotalChange
  <2>10. TotalOf(f) \in Nat /\ w[k] \in Nat BY <2>1, <2>2, TotalType
  <2>11. TotalOf(g) = TotalOf(e) + w[k] BY <2>4, <2>8, <2>9, <2>10
  <2> QED BY <2>11 DEF g, e
<1> QED BY <1>1, <1>2, <1>3

(* The parts of a plan *)
PlanType(plan) ==
    /\ Len(plan) \in Nat
    /\ \A i \in 1 .. Len(plan) : plan[i].size \in Nat /\ plan[i].nodes \in SUBSET Nodes

LEMMA PlacedOf ==
    ASSUME NEW plan, PlanType(plan)
    PROVE  /\ Placed(plan, 0) = 0
           /\ \A k \in 0 .. Len(plan) : Placed(plan, k) \in Nat
           /\ \A k \in 1 .. Len(plan) : Placed(plan, k) = Placed(plan, k - 1) + plan[k].size
<1> DEFINE w == [i \in 1 .. Len(plan) |-> plan[i].size]
<1>1. Len(plan) \in Nat /\ \A i \in 1 .. Len(plan) : w[i] \in Nat BY DEF PlanType
<1>2. \A k \in 0 .. Len(plan) : Placed(plan, k) = TotalOf([i \in 1 .. k |-> w[i]])
  <2>1. ASSUME NEW k \in 0 .. Len(plan)
        PROVE  [i \in 1 .. k |-> plan[i].size] = [i \in 1 .. k |-> w[i]]
    <3>1. \A i \in 1 .. k : i \in 1 .. Len(plan) BY <1>1
    <3> QED BY <3>1
  <2> QED BY <2>1 DEF Placed
<1>3. \A k \in 1 .. Len(plan) : w[k] = plan[k].size OBVIOUS
<1> HIDE DEF w
<1>4. /\ TotalOf([i \in 1 .. 0 |-> w[i]]) = 0
      /\ \A k \in 0 .. Len(plan) : TotalOf([i \in 1 .. k |-> w[i]]) \in Nat
      /\ \A k \in 1 .. Len(plan) : TotalOf([i \in 1 .. k |-> w[i]])
                                   = TotalOf([i \in 1 .. k - 1 |-> w[i]]) + w[k]
  BY <1>1, TotalPrefix
<1>5. /\ 0 \in 0 .. Len(plan)
      /\ \A k \in 1 .. Len(plan) : k \in 0 .. Len(plan) /\ k - 1 \in 0 .. Len(plan)
  BY <1>1
<1>6. Placed(plan, 0) = 0 BY <1>2, <1>4, <1>5
<1>7. \A k \in 0 .. Len(plan) : Placed(plan, k) \in Nat BY <1>2, <1>4
<1>8. \A k \in 1 .. Len(plan) : Placed(plan, k) = Placed(plan, k - 1) + plan[k].size
  BY <1>2, <1>3, <1>4, <1>5
<1> QED BY <1>6, <1>7, <1>8

LEMMA PlacedGrows ==
    ASSUME NEW plan, PlanType(plan), NEW c \in 0 .. Len(plan)
    PROVE  Placed(plan, c) <= Placed(plan, Len(plan))
<1>1. PICK L : L = Len(plan) OBVIOUS
<1>2. PICK p : p = [k \in 0 .. L |-> Placed(plan, k)] OBVIOUS
<1>3. /\ L \in Nat /\ c \in 0 .. L
      /\ \A k \in 0 .. L : p[k] = Placed(plan, k) /\ p[k] \in Nat
      /\ \A k \in 1 .. L : p[k - 1] <= p[k]
  <2>1. L \in Nat /\ c \in 0 .. L BY <1>1 DEF PlanType
  <2>2. \A k \in 0 .. L : p[k] = Placed(plan, k) /\ p[k] \in Nat
    BY <1>1, <1>2, PlacedOf
  <2>3. ASSUME NEW k \in 1 .. L PROVE p[k - 1] <= p[k]
    <3>1. k \in 0 .. L /\ k - 1 \in 0 .. L /\ plan[k].size \in Nat
      BY <1>1, <2>1 DEF PlanType
    <3>2. Placed(plan, k) = Placed(plan, k - 1) + plan[k].size BY <1>1, PlacedOf
    <3> QED BY <2>2, <3>1, <3>2
  <2> QED BY <2>1, <2>2, <2>3
<1> DEFINE U == {e \in 0 .. L : e >= c /\ ~(p[c] <= p[e])}
<1>4. U = {}
  <2> SUFFICES ASSUME U # {} PROVE FALSE OBVIOUS
  <2>1. U \in SUBSET Nat BY <1>3
  <2>2. PICK e \in U : \A x \in U : e <= x BY <2>1, LeastNat
  <2>3. e \in 0 .. L /\ e >= c /\ ~(p[c] <= p[e]) OBVIOUS
  <2>4. e # c BY <1>3, <2>3
  <2>5. e \in 1 .. L /\ e - 1 \in 0 .. L /\ e - 1 >= c /\ ~(e <= e - 1)
    BY <1>3, <2>3, <2>4
  <2>6. p[c] <= p[e - 1] BY <2>2, <2>5
  <2>7. p[e - 1] <= p[e] /\ p[e - 1] \in Nat /\ p[e] \in Nat /\ p[c] \in Nat
    BY <1>3, <2>3, <2>5
  <2> QED BY <2>3, <2>6, <2>7
<1>5. L \in 0 .. L /\ L >= c BY <1>3
<1>6. p[c] <= p[L] BY <1>4, <1>5
<1> QED BY <1>1, <1>3, <1>5, <1>6

LEMMA OnNodeOf ==
    ASSUME NEW plan, PlanType(plan), NEW n
    PROVE  /\ OnNode(plan, 0, n) = 0
           /\ \A k \in 0 .. Len(plan) : OnNode(plan, k, n) \in Nat
           /\ \A k \in 1 .. Len(plan) :
                OnNode(plan, k, n) = OnNode(plan, k - 1, n)
                                     + (IF n \in plan[k].nodes THEN plan[k].size ELSE 0)
<1> DEFINE w == [i \in 1 .. Len(plan) |-> IF n \in plan[i].nodes THEN plan[i].size ELSE 0]
<1>1. Len(plan) \in Nat /\ \A i \in 1 .. Len(plan) : w[i] \in Nat BY DEF PlanType
<1>2. \A k \in 0 .. Len(plan) : OnNode(plan, k, n) = TotalOf([i \in 1 .. k |-> w[i]])
  <2>1. ASSUME NEW k \in 0 .. Len(plan)
        PROVE  [i \in 1 .. k |-> IF n \in plan[i].nodes THEN plan[i].size ELSE 0]
               = [i \in 1 .. k |-> w[i]]
    <3>1. \A i \in 1 .. k : i \in 1 .. Len(plan) BY <1>1
    <3> QED BY <3>1
  <2> QED BY <2>1 DEF OnNode
<1>3. \A k \in 1 .. Len(plan) : w[k] = IF n \in plan[k].nodes THEN plan[k].size ELSE 0
  OBVIOUS
<1> HIDE DEF w
<1>4. /\ TotalOf([i \in 1 .. 0 |-> w[i]]) = 0
      /\ \A k \in 0 .. Len(plan) : TotalOf([i \in 1 .. k |-> w[i]]) \in Nat
      /\ \A k \in 1 .. Len(plan) : TotalOf([i \in 1 .. k |-> w[i]])
                                   = TotalOf([i \in 1 .. k - 1 |-> w[i]]) + w[k]
  BY <1>1, TotalPrefix
<1>5. /\ 0 \in 0 .. Len(plan)
      /\ \A k \in 1 .. Len(plan) : k \in 0 .. Len(plan) /\ k - 1 \in 0 .. Len(plan)
  BY <1>1
<1>6. OnNode(plan, 0, n) = 0 BY <1>2, <1>4, <1>5
<1>7. \A k \in 0 .. Len(plan) : OnNode(plan, k, n) \in Nat BY <1>2, <1>4
<1>8. \A k \in 1 .. Len(plan) :
        OnNode(plan, k, n) = OnNode(plan, k - 1, n)
                             + (IF n \in plan[k].nodes THEN plan[k].size ELSE 0)
  BY <1>2, <1>3, <1>4, <1>5
<1> QED BY <1>6, <1>7, <1>8

LEMMA LeastOf ==
    ASSUME NEW S, S \subseteq Nat, S # {}
    PROVE  Min(S) \in S /\ \A y \in S : Min(S) <= y
<1>1. \E x \in S : \A y \in S : x <= y BY LeastNat
<1> QED BY <1>1 DEF Min

(* A plan takes no more than the room there is, on every node. *)
LEMMA PlanFitsRoom ==
    ASSUME NEW total \in Nat, NEW room \in [Nodes -> Nat], NEW plan \in Plans(total, room),
           PlanType(plan), NEW n \in Nodes
    PROVE  \A d \in 0 .. Len(plan) : OnNode(plan, d, n) <= room[n]
<1> DEFINE L == Len(plan)
           T == {d \in 0 .. L : ~(OnNode(plan, d, n) <= room[n])}
<1>1. SUFFICES ASSUME T # {} PROVE FALSE OBVIOUS
<1>2. L \in Nat /\ T \in SUBSET Nat /\ room[n] \in Nat BY DEF PlanType
<1>3. PICK d \in T : \A e \in T : d <= e BY <1>1, <1>2, LeastNat
<1>4. d \in 0 .. L /\ ~(OnNode(plan, d, n) <= room[n]) OBVIOUS
<1>5. d # 0 BY <1>2, <1>4, OnNodeOf
<1>6. d \in 1 .. L /\ d - 1 \in 0 .. L /\ d - 1 \notin T
  <2>1. d \in 1 .. L /\ d - 1 \in 0 .. L BY <1>2, <1>4, <1>5
  <2>2. ~(d <= d - 1) BY <2>1
  <2> QED BY <1>3, <2>1, <2>2
<1>7. OnNode(plan, d - 1, n) <= room[n] BY <1>6
<1> DEFINE before == OnNode(plan, d - 1, n)
<1>8. /\ before \in Nat /\ plan[d].size \in Nat
      /\ OnNode(plan, d, n) = before + (IF n \in plan[d].nodes THEN plan[d].size ELSE 0)
  BY <1>6, OnNodeOf DEF PlanType
<1>9. n \in plan[d].nodes
  <2>1. n \notin plan[d].nodes => OnNode(plan, d, n) = before BY <1>8
  <2> QED BY <1>4, <1>7, <2>1
<1>10. PICK left : left = total - Placed(plan, d - 1) OBVIOUS
<1>11. PICK free : free = [m \in Nodes |-> room[m] - OnNode(plan, d - 1, m)] OBVIOUS
<1>12. /\ plan[d].nodes \in TopNodes(free)
       /\ plan[d].size = PartSize(left, free, plan[d].nodes)
  <2>1. \A i \in DOMAIN plan :
             LET lf == total - Placed(plan, i - 1)
                 fr == [m \in Nodes |-> room[m] - OnNode(plan, i - 1, m)] IN
             /\ plan[i].nodes \in TopNodes(fr)
             /\ plan[i].size = PartSize(lf, fr, plan[i].nodes)
    BY DEF Plans
  <2>2. d \in DOMAIN plan
    <3>1. PICK k \in 1 .. total :
            plan \in [1 .. k -> [size : 1 .. total,
                                 nodes : {K \in SUBSET Nodes : Cardinality(K) = ReplicaCount}]]
      BY DEF Plans
    <3>2. Len(plan) = k BY <3>1
    <3> QED BY <1>6, <3>1, <3>2
  <2> QED BY <1>10, <1>11, <2>1, <2>2
<1>13. plan[d].size <= free[n]
  <2> DEFINE S == {left} \cup {free[m] : m \in plan[d].nodes}
  <2>1. \A m \in plan[d].nodes : m \in Nodes /\ free[m] > 0 BY <1>12 DEF TopNodes
  <2>2. \A m \in plan[d].nodes : free[m] \in Nat
    <3>1. \A m \in Nodes : OnNode(plan, d - 1, m) \in Nat BY <1>6, OnNodeOf
    <3>2. \A m \in plan[d].nodes : /\ room[m] \in Nat /\ OnNode(plan, d - 1, m) \in Nat
                                   /\ free[m] = room[m] - OnNode(plan, d - 1, m)
      BY <1>11, <2>1, <3>1
    <3> QED BY <2>1, <3>2
  <2>3. left \in Nat
    <3>1. PICK k \in 1 .. total :
            plan \in [1 .. k -> [size : 1 .. total,
                                 nodes : {K \in SUBSET Nodes : Cardinality(K) = ReplicaCount}]]
      BY DEF Plans
    <3>2. Placed(plan, L) = total BY DEF Plans
    <3>3. Placed(plan, d - 1) <= Placed(plan, L) BY <1>2, <1>6, PlacedGrows
    <3>4. Placed(plan, d - 1) \in Nat /\ Placed(plan, L) \in Nat
      <4>1. L \in 0 .. L BY <1>2
      <4> QED BY <1>6, <4>1, PlacedOf
    <3> QED BY <1>10, <3>2, <3>3, <3>4
  <2>4. S \subseteq Nat /\ S # {} /\ free[n] \in S BY <1>9, <2>2, <2>3
  <2> HIDE DEF S
  <2>5. Min(S) <= free[n] BY <2>4, LeastOf
  <2> QED BY <1>12, <2>5 DEF PartSize, S
<1>14. free[n] = room[n] - before BY <1>11
<1> QED BY <1>2, <1>4, <1>8, <1>9, <1>13, <1>14

(* What the proofs need of types beyond Typed *)
MoreTyped ==
    /\ multipart \in [Uploads -> {"none", "UPLOADING", "FINALIZED"}]
    /\ item \in [Uploads -> SUBSET Nat]
    /\ reserved \in [Nodes -> Nat]
    /\ metered \subseteq AnySession /\ known \subseteq AnySession
    /\ open \in [Nodes -> SUBSET AnySession]
    /\ tmp \in [Nodes -> SUBSET (AnySession \X Nat)]
    /\ lossy \subseteq Nodes /\ troubled \in BOOLEAN
    /\ disturbances \in 0 .. MaxDisturbances
    /\ \A u \in Uploads : client[u].chunk >= 1

-----------------------------------------------------------------------------
(* Who is being served *)
InHandler(u) == busy # Idle /\ busy.s[1] = u
Serving(u) == \/ client[u].state = "active"
              \/ client[u].state = "waiting" /\ InHandler(u)
Checking(s) == busy # Idle /\ busy.op = "commit_check_reply" /\ busy.s = s

(* Node n said that it has all of s, and nothing is finalized on it yet. *)
Vouches(n, s) ==
    \E k \in 1 .. Len(toServer[n]) :
        /\ toServer[n][k].op = "commit_check_reply" /\ toServer[n][k].s = s
        /\ toServer[n][k].ok
Vouched(n, s) ==
    /\ MayFinalize(s)
    /\ (Checking(s) /\ n \in busy.replied /\ busy.ok) \/ Vouches(n, s)

(* The DataServer only takes frames, or they are lost. *)
TookFrames ==
    \A n \in Nodes :
        \/ toServer'[n] = toServer[n] \/ toServer'[n] = <<>>
        \/ toServer[n] # <<>> /\ toServer'[n] = Tail(toServer[n])

FewerToFinalize == \A t \in AnySession : MayFinalize(t)' => MayFinalize(t)
FewerVouched == \A n \in Nodes, t \in AnySession : Vouched(n, t)' => Vouched(n, t)
FewerFinalizing == \A t \in AnySession : Finalizing(t)' => Finalizing(t)

(* The clients go on as they were, or less. *)
ClientsQuiet ==
    /\ known' \subseteq known
    /\ \A u \in Uploads :
        /\ client'[u].size = client[u].size
        /\ client'[u].state = "idle" => client'[u] = client[u]
        /\ client'[u].state = "done" => client[u].state = "done"
        /\ Serving(u)' => Serving(u) /\ client'[u].part = client[u].part
        /\ InHandler(u)' => Serving(u) \/ InHandler(u)

-----------------------------------------------------------------------------
(* The kinds of steps, as the nodes and the ledger see them *)
Still ==
    /\ UNCHANGED <<rows, reserved, open, tmp, stored, lossy, toNode>> /\ TookFrames
    /\ FewerToFinalize /\ FewerVouched /\ FewerFinalizing

Asks(s, f) ==
    /\ s \in AnySession /\ Exists(s)
    /\ f \in FrameType /\ f.s = s /\ f.op \in {"data", "commit_check"}
    /\ f.op = "data" => f.chunk \in 1 .. Row(s).size
    /\ toNode' = SentTo(Row(s).nodes, f)
    /\ UNCHANGED <<rows, reserved, open, tmp, stored, lossy, toServer>>
    /\ FewerToFinalize /\ FewerVouched /\ FewerFinalizing

BeginsRound(s) ==
    /\ s \in AnySession /\ Exists(s) /\ MayFinalize(s) /\ ~MayFinalize(s)'
    /\ \A n \in Row(s).nodes : Vouched(n, s)
    /\ toNode' = SentTo(Row(s).nodes, F("commit_finalize", s, 0, TRUE))
    /\ UNCHANGED <<rows, reserved, open, tmp, stored, lossy>> /\ TookFrames
    /\ FewerToFinalize /\ FewerVouched /\ \A t \in AnySession : Finalizing(t)' => t = s

Commits(s) ==
    /\ s \in AnySession /\ Exists(s) /\ Finalizing(s)
    /\ rows' = [rows EXCEPT ![s[1]][s[2]].status = "COMMITTED"]
    /\ UNCHANGED <<reserved, open, tmp, stored, lossy, toNode>> /\ TookFrames
    /\ FewerToFinalize /\ FewerVouched /\ busy' = Idle

Aborts(s) ==
    /\ s \in AnySession /\ Exists(s) /\ Finalizing(s)
    /\ reserved' = Released(Row(s))
    /\ \/ /\ UNCHANGED rows \/ rows' = [rows EXCEPT ![s[1]][s[2]].status = "ABORTED"]
          /\ toNode' = SentTo(Row(s).nodes, F("delete_object", s, 0, TRUE))
          /\ UNCHANGED lossy
       \/ lossy' = lossy \cup Row(s).nodes /\ UNCHANGED <<rows, toNode>>
    /\ UNCHANGED <<open, tmp, stored>> /\ TookFrames
    /\ FewerToFinalize /\ FewerVouched /\ busy' = Idle

Loses ==
    /\ UNCHANGED <<rows, reserved, tmp, stored>>
    /\ lossy' \subseteq Nodes /\ lossy \subseteq lossy'
    /\ open' \in [Nodes -> SUBSET AnySession]
    /\ \A n \in Nodes :
         /\ toNode'[n] = toNode[n] \/ (n \in lossy' /\ toNode'[n] = <<>>)
         /\ open'[n] = open[n] \/ (n \in lossy' /\ open'[n] = {})
    /\ TookFrames /\ FewerToFinalize /\ FewerVouched /\ FewerFinalizing

BookSame == UNCHANGED <<multipart, item, metered>>

QuietStep ==
    /\ BookSame /\ ClientsQuiet
    /\ \/ Still \/ Loses
       \/ \E s \in AnySession : BeginsRound(s) \/ Aborts(s) \/ \E f \in FrameType : Asks(s, f)

-----------------------------------------------------------------------------
(* Clients and waits *)

LEMMA VouchedFewer ==
    ASSUME Typed, TookFrames, FewerToFinalize,
           \A t \in AnySession, n \in Nodes :
             Checking(t)' /\ n \in busy'.replied /\ busy'.ok => Vouched(n, t)
    PROVE  FewerVouched
<1> SUFFICES ASSUME NEW n \in Nodes, NEW t \in AnySession, Vouched(n, t)'
             PROVE  Vouched(n, t)
  BY DEF FewerVouched
<1>1. MayFinalize(t) BY DEF FewerToFinalize, Vouched
<1>2. CASE Checking(t)' /\ n \in busy'.replied /\ busy'.ok BY <1>2
<1>3. CASE Vouches(n, t)'
  <2>1. toServer[n] \in Seq(FrameType) BY DEF Typed, Frames
  <2>2. Vouches(n, t)
    <3>1. CASE toServer'[n] = toServer[n] BY <1>3, <3>1 DEF Vouches
    <3>2. CASE toServer'[n] = <<>> BY <1>3, <3>2 DEF Vouches
    <3>3. CASE toServer[n] # <<>> /\ toServer'[n] = Tail(toServer[n])
      <4>1. /\ Len(Tail(toServer[n])) = Len(toServer[n]) - 1 /\ Len(toServer[n]) \in Nat
            /\ \A k \in 1 .. Len(toServer[n]) - 1 : Tail(toServer[n])[k] = toServer[n][k + 1]
        BY <2>1, <3>3
      <4>2. PICK k \in 1 .. Len(toServer[n]) - 1 :
              /\ Tail(toServer[n])[k].op = "commit_check_reply"
              /\ Tail(toServer[n])[k].s = t /\ Tail(toServer[n])[k].ok
        BY <1>3, <3>3, <4>1 DEF Vouches
      <4>3. k + 1 \in 1 .. Len(toServer[n]) BY <4>1
      <4> QED BY <4>1, <4>2, <4>3 DEF Vouches
    <3> QED BY <3>1, <3>2, <3>3 DEF TookFrames
  <2> QED BY <1>1, <2>2 DEF Vouched
<1> QED BY <1>2, <1>3 DEF Vouched

(* A client's handler begins to wait. *)
LEMMA WaitBegunQuiet ==
    ASSUME AtomicInv, NEW u \in Uploads, client[u].state = "active", busy = Idle,
           NEW op \in {"chunk_ack", "commit_check_reply"},
           Wait(op, <<u, client[u].part>>), Answer(u, "waiting"),
           UNCHANGED <<known, toServer>>
    PROVE  /\ FewerToFinalize /\ FewerVouched /\ FewerFinalizing /\ ClientsQuiet
           /\ TookFrames
<1> DEFINE s == <<u, client[u].part>>
<1>0. Typed /\ client[u] \in ClientType BY DEF AtomicInv, Base, Typed
<1>1. s \in AnySession BY <1>0 DEF AnySession, ClientType
<1>2. /\ busy' = [op |-> op, s |-> s, replied |-> {}, ok |-> TRUE]
      /\ busy' # Idle /\ busy'.op = op /\ busy'.s = s /\ busy'.replied = {}
  BY <1>1 DEF Wait, Idle
<1>4. /\ client'[u].state = "waiting" /\ client'[u].part = client[u].part
      /\ client'[u].size = client[u].size
      /\ \A v \in Uploads \ {u} : client'[v] = client[v]
  BY <1>0 DEF Answer, Typed, ClientType
<1>5. FewerToFinalize BY <1>2, <1>4 DEF FewerToFinalize, MayFinalize, AnySession
<1>6. FewerFinalizing BY <1>2 DEF FewerFinalizing, Finalizing
<1>7. TookFrames BY DEF TookFrames
<1>8. FewerVouched BY <1>0, <1>2, <1>5, <1>7, VouchedFewer
<1>9. ClientsQuiet
  <2>1. ASSUME NEW v \in Uploads
        PROVE  /\ client'[v].size = client[v].size
               /\ client'[v].state = "idle" => client'[v] = client[v]
               /\ client'[v].state = "done" => client[v].state = "done"
               /\ Serving(v)' => Serving(v) /\ client'[v].part = client[v].part
               /\ InHandler(v)' => Serving(v) \/ InHandler(v)
    <3>1. CASE v = u BY <1>2, <1>4, <3>1 DEF Serving, InHandler
    <3>2. CASE v # u
      <4>1. ~InHandler(v)' BY <1>2, <3>2 DEF InHandler
      <4> QED BY <1>4, <3>2, <4>1 DEF Serving
    <3> QED BY <3>1, <3>2
  <2> QED BY <2>1 DEF ClientsQuiet
<1> QED BY <1>5, <1>6, <1>7, <1>8, <1>9

(* A client stops, or is told that its upload failed. *)
LEMMA StopQuiet ==
    ASSUME AtomicInv, NEW u \in Uploads, NEW state \in {"done", "refused", "failed"},
           Answer(u, state), UNCHANGED <<busy, known, toServer>>
    PROVE  /\ FewerToFinalize /\ FewerVouched /\ FewerFinalizing /\ TookFrames
           /\ state # "done" => ClientsQuiet
           /\ \A v \in Uploads : client'[v].size = client[v].size
           /\ client'[u].state = state /\ \A v \in Uploads \ {u} : client'[v] = client[v]
<1>0. Typed BY DEF AtomicInv, Base
<1>1. /\ client'[u].state = state /\ client'[u].part = client[u].part
      /\ client'[u].size = client[u].size
      /\ \A v \in Uploads \ {u} : client'[v] = client[v]
  BY <1>0 DEF Answer, Typed, ClientType
<1>2. FewerToFinalize BY <1>1 DEF FewerToFinalize, MayFinalize, AnySession
<1>3. FewerFinalizing BY DEF FewerFinalizing, Finalizing
<1>4. TookFrames BY DEF TookFrames
<1>5. FewerVouched
  <2>1. ASSUME NEW t \in AnySession, NEW n \in Nodes, Checking(t)', n \in busy'.replied, busy'.ok
        PROVE  Vouched(n, t)
    <3>1. Checking(t) /\ n \in busy.replied /\ busy.ok BY <2>1 DEF Checking
    <3>2. MayFinalize(t)
      <4>1. t[2] \in Nat /\ busy.s = t /\ busy # Idle /\ busy.op = "commit_check_reply"
        BY <3>1 DEF Checking, AnySession
      <4> QED BY <4>1 DEF MayFinalize
    <3> QED BY <3>1, <3>2 DEF Vouched
  <2> QED BY <1>0, <1>2, <1>4, <2>1, VouchedFewer
<1>6. state # "done" => ClientsQuiet
  BY <1>1 DEF ClientsQuiet, Serving, InHandler
<1> QED BY <1>1, <1>2, <1>3, <1>4, <1>5, <1>6

(* Nothing changes for the clients but that the server may forget. *)
LEMMA ForgetQuiet ==
    ASSUME AtomicInv, UNCHANGED client, TookFrames,
           (busy' = Idle /\ known' = {}) \/ UNCHANGED <<busy, known>>
    PROVE  FewerToFinalize /\ FewerVouched /\ FewerFinalizing /\ ClientsQuiet
<1>0. Typed BY DEF AtomicInv, Base
<1>2. FewerToFinalize BY DEF FewerToFinalize, MayFinalize
<1>3. FewerFinalizing BY DEF FewerFinalizing, Finalizing
<1>5. FewerVouched
  <2>1. ASSUME NEW t \in AnySession, NEW n \in Nodes, Checking(t)', n \in busy'.replied, busy'.ok
        PROVE  Vouched(n, t)
    <3>1. Checking(t) /\ n \in busy.replied /\ busy.ok BY <2>1 DEF Checking
    <3>2. MayFinalize(t)
      <4>1. t[2] \in Nat /\ busy.s = t /\ busy # Idle /\ busy.op = "commit_check_reply"
        BY <3>1 DEF Checking, AnySession
      <4> QED BY <4>1 DEF MayFinalize
    <3> QED BY <3>1, <3>2 DEF Vouched
  <2> QED BY <1>0, <1>2, <2>1, VouchedFewer
<1>6. ClientsQuiet BY DEF ClientsQuiet, Serving, InHandler
<1> QED BY <1>2, <1>3, <1>5, <1>6

(* What a handler that ends leaves to the clients *)
LEMMA EndShape ==
    ASSUME AtomicInv, busy # Idle, NEW c \in ClientType, Ends(busy.s[1], c)
    PROVE  /\ busy' = Idle /\ busy.s[1] \in Uploads
           /\ \A v \in Uploads :
                \/ client'[v] = client[v] /\ (v = busy.s[1] => client[v].state = "failed")
                \/ /\ v = busy.s[1] /\ client[v].state = "waiting"
                   /\ client'[v] = c /\ client[v].part = busy.s[2]
<1>0. /\ Typed /\ OneHandler /\ busy.s \in AnySession /\ busy.s[1] \in Uploads
  BY DEF AtomicInv, Base, Typed, WaitType, AnySession
<1>1. /\ busy' = Idle
      /\ client' = IF client[busy.s[1]].state = "waiting"
                   THEN [client EXCEPT ![busy.s[1]] = c] ELSE client
  BY DEF Ends
<1> QED BY <1>0, <1>1 DEF Typed, OneHandler

(* A handler ends without having ended its session. *)
LEMMA EndQuiet ==
    ASSUME AtomicInv, busy # Idle, NEW c \in ClientType, Ends(busy.s[1], c),
           c.state \in {"active", "failed"}, c.size = client[busy.s[1]].size,
           c.state = "active" => /\ c.part = client[busy.s[1]].part
                                 /\ busy.op # "commit_finalize_reply",
           TookFrames, UNCHANGED known
    PROVE  FewerToFinalize /\ FewerVouched /\ FewerFinalizing /\ ClientsQuiet
<1>0. Base /\ Typed /\ busy.s \in AnySession /\ busy.s[2] \in Nat
  BY DEF AtomicInv, Base, Typed, WaitType, AnySession
<1>1. /\ busy' = Idle /\ busy.s[1] \in Uploads
      /\ \A v \in Uploads :
           \/ client'[v] = client[v] /\ (v = busy.s[1] => client[v].state = "failed")
           \/ /\ v = busy.s[1] /\ client[v].state = "waiting"
              /\ client'[v] = c /\ client[v].part = busy.s[2]
  BY EndShape
<1>2. FewerToFinalize
  <2> SUFFICES ASSUME NEW t \in AnySession, MayFinalize(t)' PROVE MayFinalize(t)
    BY DEF FewerToFinalize
  <2>1. t[1] \in Uploads /\ t[2] \in Nat BY DEF AnySession
  <2>2. client'[t[1]].state \in {"idle", "active"} /\ client'[t[1]].part <= t[2]
    BY <1>1 DEF MayFinalize
  <2>3. CASE client'[t[1]] = client[t[1]] BY <2>2, <2>3 DEF MayFinalize
  <2>4. CASE t[1] = busy.s[1] /\ client'[t[1]] = c /\ client[t[1]].part = busy.s[2]
    <3>1. c.state = "active" BY <2>2, <2>4
    <3>2. busy.s[2] <= t[2] /\ busy.op # "commit_finalize_reply" BY <2>2, <2>4, <3>1
    <3> QED BY <2>4, <3>2 DEF MayFinalize
  <2> QED BY <1>1, <2>1, <2>3, <2>4
<1>3. FewerFinalizing BY <1>1 DEF FewerFinalizing, Finalizing
<1>4. FewerVouched BY <1>0, <1>1, <1>2, VouchedFewer DEF Checking
<1>5. ClientsQuiet
  <2>1. ASSUME NEW v \in Uploads
        PROVE  /\ client'[v].size = client[v].size
               /\ client'[v].state = "idle" => client'[v] = client[v]
               /\ client'[v].state = "done" => client[v].state = "done"
               /\ Serving(v)' => Serving(v) /\ client'[v].part = client[v].part
               /\ InHandler(v)' => Serving(v) \/ InHandler(v)
    <3>0. ~InHandler(v)' BY <1>1 DEF InHandler
    <3>1. CASE client'[v] = client[v] BY <3>0, <3>1 DEF Serving
    <3>2. CASE v = busy.s[1] /\ client[v].state = "waiting" /\ client'[v] = c
      BY <3>0, <3>2 DEF Serving, InHandler
    <3> QED BY <1>1, <3>1, <3>2
  <2> QED BY <2>1 DEF ClientsQuiet
<1> QED BY <1>2, <1>3, <1>4, <1>5

-----------------------------------------------------------------------------
(* Every step of a client or the DataServer but the first and the last is   *)
(* quiet.                                                                   *)

LEMMA RequestsQuiet ==
    ASSUME AtomicInv, MoreTyped, NEW u \in Uploads,
           ClientChunk(u) \/ ClientCommit(u) \/ ClientTimeout(u) \/ ClientLeaves(u)
    PROVE  QuietStep
<1> DEFINE s == <<u, client[u].part>>
<1>0. /\ Typed /\ s \in AnySession /\ client[u].chunk \in Nat /\ client[u].chunk >= 1
  BY DEF AtomicInv, Base, Typed, ClientType, AnySession, MoreTyped
<1>1. CASE ClientChunk(u)
  <2>1. /\ client[u].state = "active" /\ busy = Idle /\ Exists(s)
        /\ client[u].chunk <= Row(s).size
        /\ UNCHANGED <<rows, multipart, item, reserved, metered, known, toServer, open, tmp,
                       stored, lossy>>
    BY <1>1 DEF ClientChunk, dbVars, nodeVars
  <2>2. CASE s \notin known
    <3>1. Answer(u, "failed") /\ UNCHANGED <<toNode, busy>> BY <1>1, <2>2 DEF ClientChunk
    <3>2. /\ FewerToFinalize /\ FewerVouched /\ FewerFinalizing /\ TookFrames /\ ClientsQuiet
      BY <2>1, <3>1, StopQuiet
    <3> QED BY <2>1, <3>1, <3>2 DEF QuietStep, BookSame, Still
  <2>3. CASE s \in known
    <3> DEFINE f == F("data", s, client[u].chunk, TRUE)
    <3>1. /\ toNode' = SentTo(Row(s).nodes, f) /\ Wait("chunk_ack", s) /\ Answer(u, "waiting")
      BY <1>1, <2>3 DEF ClientChunk
    <3>2. f \in FrameType /\ f.op = "data" /\ f.s = s /\ f.chunk = client[u].chunk
      BY <1>0 DEF F, FrameType
    <3> HIDE DEF f, s
    <3>3. f.chunk \in 1 .. Row(s).size
      <4>1. Row(s).size \in Nat
        <5>1. rows[u] \in Seq(RowType) BY <1>0 DEF Typed, Rows
        <5>2. \A k \in DOMAIN rows[u] : rows[u][k] \in RowType BY <5>1
        <5> QED BY <2>1, <5>2 DEF Exists, Row, RowType, s
      <4> QED BY <1>0, <2>1, <3>2, <4>1
    <3>4. /\ FewerToFinalize /\ FewerVouched /\ FewerFinalizing /\ TookFrames /\ ClientsQuiet
      BY <2>1, <3>1, WaitBegunQuiet DEF s
    <3>5. Asks(s, f) BY <1>0, <2>1, <3>1, <3>2, <3>3, <3>4 DEF Asks
    <3> QED BY <1>0, <2>1, <3>2, <3>4, <3>5 DEF QuietStep, BookSame
  <2> QED BY <2>2, <2>3
<1>2. CASE ClientCommit(u)
  <2> DEFINE f == F("commit_check", s, 0, TRUE)
  <2>1. /\ client[u].state = "active" /\ busy = Idle /\ Exists(s)
        /\ UNCHANGED <<rows, multipart, item, reserved, metered, known, toServer, open, tmp,
                       stored, lossy>>
        /\ toNode' = SentTo(Row(s).nodes, f)
        /\ Wait("commit_check_reply", s) /\ Answer(u, "waiting")
    BY <1>2 DEF ClientCommit, dbVars, nodeVars
  <2>2. f \in FrameType /\ f.op = "commit_check" /\ f.s = s BY <1>0 DEF F, FrameType
  <2>4. /\ FewerToFinalize /\ FewerVouched /\ FewerFinalizing /\ TookFrames /\ ClientsQuiet
    BY <2>1, WaitBegunQuiet
  <2> HIDE DEF f, s
  <2>5. Asks(s, f) BY <1>0, <2>1, <2>2, <2>4 DEF Asks
  <2> QED BY <1>0, <2>1, <2>2, <2>4, <2>5 DEF QuietStep, BookSame
<1>3. CASE ClientTimeout(u) \/ ClientLeaves(u)
  <2>1. Answer(u, "failed")
        /\ UNCHANGED <<rows, multipart, item, reserved, metered, known, busy, toNode, toServer,
                       open, tmp, stored, lossy>>
    BY <1>3 DEF ClientTimeout, ClientLeaves, dbVars, channels, nodeVars, history
  <2>2. /\ FewerToFinalize /\ FewerVouched /\ FewerFinalizing /\ TookFrames /\ ClientsQuiet
    BY <2>1, StopQuiet
  <2> QED BY <2>1, <2>2 DEF QuietStep, BookSame, Still
<1> QED BY <1>1, <1>2, <1>3

(* An upload in parts is asked to be finished. *)
LEMMA MultipartShape ==
    ASSUME AtomicInv, NEW u \in Uploads, ClientCommitMultipart(u)
    PROVE  /\ Still /\ UNCHANGED <<metered, known>>
           /\ \/ BookSame /\ ClientsQuiet
              \/ /\ client[u].state = "active" /\ client[u].part > Len(rows[u])
                 /\ \A i \in DOMAIN rows[u] : rows[u][i].status = "COMMITTED"
                 /\ item' = [item EXCEPT ![u] = DOMAIN rows[u]]
                 /\ multipart' = [multipart EXCEPT ![u] = "FINALIZED"]
                 /\ client'[u].state = "done"
                 /\ \A v \in Uploads : client'[v].size = client[v].size
                 /\ \A v \in Uploads \ {u} : client'[v] = client[v]
                 /\ UNCHANGED busy
<1>1. /\ busy = Idle /\ client[u].state = "active" /\ client[u].part > Len(rows[u])
      /\ UNCHANGED <<rows, reserved, metered, known, busy, toNode, toServer, open, tmp,
                     stored, lossy>>
  BY DEF ClientCommitMultipart, channels, nodeVars
<1>2. CASE Answer(u, "failed") /\ UNCHANGED <<item, multipart>>
  <2>1. /\ FewerToFinalize /\ FewerVouched /\ FewerFinalizing /\ TookFrames /\ ClientsQuiet
    BY <1>1, <1>2, StopQuiet
  <2> QED BY <1>1, <1>2, <2>1 DEF BookSame, Still
<1>3. CASE /\ \A i \in DOMAIN rows[u] : rows[u][i].status = "COMMITTED"
           /\ item' = [item EXCEPT ![u] = DOMAIN rows[u]]
           /\ multipart' = [multipart EXCEPT ![u] = "FINALIZED"] /\ Answer(u, "done")
  <2>1. /\ FewerToFinalize /\ FewerVouched /\ FewerFinalizing /\ TookFrames
        /\ \A v \in Uploads : client'[v].size = client[v].size
        /\ client'[u].state = "done" /\ \A v \in Uploads \ {u} : client'[v] = client[v]
    BY <1>1, <1>3, StopQuiet
  <2> QED BY <1>1, <1>3, <2>1 DEF Still
<1> QED BY <1>2, <1>3 DEF ClientCommitMultipart

(* A commit_finalize round fails. *)
LEMMA AbortQuiet ==
    ASSUME AtomicInv, MoreTyped, Finalizing(busy.s), NEW late, Abort(busy.s, late), TookFrames,
           UNCHANGED <<open, tmp, stored>>
    PROVE  QuietStep
<1> DEFINE s == busy.s
           u == s[1]
           c == [client[u] EXCEPT !.state = "failed"]
<1>0. /\ Typed /\ s \in AnySession /\ Exists(s) /\ u \in Uploads /\ client[u] \in ClientType
      /\ busy # Idle
  BY DEF AtomicInv, Base, Typed, WaitType, Finalizing, OneHandler, AnySession
<1>1. c \in ClientType /\ c.state = "failed" /\ c.size = client[u].size
  BY <1>0, ClientNextState DEF ClientType
<1>2. /\ reserved' = Released(Row(s)) /\ BookSame
      /\ \/ /\ UNCHANGED rows \/ rows' = [rows EXCEPT ![s[1]][s[2]].status = "ABORTED"]
            /\ toNode' = SentTo(Row(s).nodes, F("delete_object", s, 0, TRUE))
            /\ UNCHANGED lossy
         \/ lossy' = lossy \cup Row(s).nodes /\ UNCHANGED <<rows, toNode>>
      /\ \/ Ends(u, c) /\ UNCHANGED known
         \/ busy' = Idle /\ known' = {} /\ UNCHANGED client
  BY DEF Abort, Forgotten, BookSame
<1> HIDE DEF c
<1>3. FewerToFinalize /\ FewerVouched /\ FewerFinalizing /\ ClientsQuiet /\ busy' = Idle
  <2>1. CASE Ends(u, c) /\ UNCHANGED known
    <3>1. busy' = Idle BY <2>1 DEF Ends
    <3>2. FewerToFinalize /\ FewerVouched /\ FewerFinalizing /\ ClientsQuiet
      BY <1>0, <1>1, <2>1, EndQuiet
    <3> QED BY <3>1, <3>2
  <2>2. CASE busy' = Idle /\ known' = {} /\ UNCHANGED client BY <2>2, ForgetQuiet
  <2> QED BY <1>2, <2>1, <2>2
<1>4. Aborts(s) BY <1>0, <1>2, <1>3 DEF Aborts
<1> QED BY <1>0, <1>2, <1>3, <1>4 DEF QuietStep

LEMMA ReceiveShape ==
    ASSUME AtomicInv, MoreTyped, NEW n \in Nodes, Receive(n)
    PROVE  \/ QuietStep
           \/ Commits(busy.s) /\ Commit(busy.s)
<1>0. /\ Typed /\ OneHandler /\ Taken(n) /\ TookFrames
      /\ busy # Idle => /\ busy \in WaitType /\ busy.s \in AnySession /\ Exists(busy.s)
                        /\ busy.s[1] \in Uploads /\ client[busy.s[1]] \in ClientType
  <2>1. Typed /\ OneHandler /\ Taken(n)
    BY DEF AtomicInv, Base, Receive, ReceiveOther, ReceiveAck, ReceiveCheck, ReceiveFinalize
  <2>2. TookFrames BY <2>1 DEF Typed, Taken, TookFrames
  <2> QED BY <2>1, <2>2 DEF Typed, WaitType, AnySession, OneHandler
<1>1. Head(toServer[n]) \in FrameType BY <1>0, TakenFrames
<1>2. CASE ReceiveOther(n)
  <2>1. UNCHANGED <<rows, multipart, item, reserved, metered, known, busy, client, toNode,
                    open, tmp, stored, lossy>>
    BY <1>2 DEF ReceiveOther, dbVars, nodeVars, history
  <2>2. FewerToFinalize /\ FewerVouched /\ FewerFinalizing /\ ClientsQuiet
    BY <1>0, <2>1, ForgetQuiet
  <2> QED BY <1>0, <2>1, <2>2 DEF QuietStep, BookSame, Still
<1>3. CASE ReceiveAck(n)
  <2> DEFINE x == client[busy.s[1]]
             c == GoesOn(x, x.part, x.chunk + 1)
  <2>1. /\ busy # Idle /\ busy.op = "chunk_ack" /\ Ends(busy.s[1], c)
        /\ UNCHANGED <<rows, multipart, item, reserved, metered, known, toNode,
                       open, tmp, stored, lossy>>
    BY <1>3 DEF ReceiveAck, Awaited, dbVars, nodeVars, history
  <2>2. c \in ClientType /\ c.state = "active" /\ c.part = x.part /\ c.size = x.size
    <3>1. x \in ClientType /\ x.part \in Nat /\ x.chunk + 1 \in Nat
      BY <1>0, <2>1 DEF ClientType
    <3> QED BY <3>1, ClientGoesOn DEF GoesOn
  <2>4. busy.op # "commit_finalize_reply" BY <2>1
  <2> HIDE DEF c
  <2>5. FewerToFinalize /\ FewerVouched /\ FewerFinalizing /\ ClientsQuiet
    BY <1>0, <2>1, <2>2, <2>4, EndQuiet
  <2> QED BY <1>0, <2>1, <2>5 DEF QuietStep, BookSame, Still
<1>4. CASE ReceiveCheck(n)
  <2>0. PICK s : s = busy.s OBVIOUS
  <2> DEFINE b == Replied(n)
             ns == Row(busy.s).nodes
  <2>1. /\ Awaited(n) /\ busy # Idle /\ busy.op = "commit_check_reply"
        /\ UNCHANGED <<rows, multipart, item, reserved, metered, known,
                       open, tmp, stored, lossy>>
    BY <2>0, <1>4 DEF ReceiveCheck, Awaited, dbVars, nodeVars, history
  <2>2. /\ b \in WaitType /\ b.s = s /\ b.op = "commit_check_reply" /\ b # Idle
        /\ b.replied = busy.replied \cup {n} /\ b.ok = (busy.ok /\ Head(toServer[n]).ok)
    BY <2>0, <1>0, <1>1, <2>1 DEF Replied, WaitType, FrameType, Idle
  <2>3. Checking(s) /\ MayFinalize(s)
    <3>1. s[2] \in Nat BY <2>0, <1>0, <2>1 DEF AnySession
    <3> QED BY <2>0, <2>1, <3>1 DEF Checking, MayFinalize
  <2>4. Head(toServer[n]).ok => Vouches(n, s)
    <3>1. toServer[n] \in Seq(FrameType) /\ toServer[n] # <<>>
      BY <2>0, <1>0 DEF Typed, Frames, Taken
    <3>2. Head(toServer[n]) = toServer[n][1] /\ 1 \in 1 .. Len(toServer[n]) BY <2>0, <3>1
    <3> QED BY <2>0, <2>1, <3>2 DEF Vouches, Awaited
  <2>5. b.ok => \A m \in Nodes : m \in b.replied => Vouched(m, s)
    BY <2>0, <2>2, <2>3, <2>4 DEF Vouched
  <2>6. CASE b.replied # ns
    <3>1. busy' = b /\ UNCHANGED <<client, toNode>> BY <2>0, <1>4, <2>2, <2>6 DEF ReceiveCheck
    <3> HIDE DEF b, ns
    <3>2. FewerToFinalize
      BY <2>0, <2>1, <2>2, <3>1 DEF MayFinalize, FewerToFinalize
    <3>3. FewerFinalizing BY <2>0, <2>2, <3>1 DEF FewerFinalizing, Finalizing
    <3>4. FewerVouched
      <4>1. ASSUME NEW t \in AnySession, NEW m \in Nodes, Checking(t)', m \in busy'.replied,
                   busy'.ok
            PROVE  Vouched(m, t)
        <5>1. t = s BY <2>0, <2>2, <3>1, <4>1 DEF Checking
        <5> QED BY <2>0, <2>5, <3>1, <4>1, <5>1
      <4> QED BY <2>0, <1>0, <3>2, <4>1, VouchedFewer
    <3>5. ClientsQuiet
      <4>1. \A u \in Uploads : InHandler(u)' <=> InHandler(u)
        BY <2>0, <2>1, <2>2, <3>1 DEF InHandler
      <4> QED BY <2>0, <2>1, <3>1, <4>1 DEF ClientsQuiet, Serving
    <3> QED BY <2>0, <1>0, <2>1, <3>1, <3>2, <3>3, <3>4, <3>5 DEF QuietStep, BookSame, Still
  <2>7. CASE b.replied = ns /\ b.ok
    <3>1. /\ toNode' = SentTo(ns, F("commit_finalize", s, 0, TRUE))
          /\ Wait("commit_finalize_reply", s) /\ UNCHANGED client
      BY <2>0, <1>4, <2>2, <2>7 DEF ReceiveCheck
    <3>2. /\ busy' # Idle /\ busy'.op = "commit_finalize_reply" /\ busy'.s = s
      BY <2>0, <3>1 DEF Wait, Idle
    <3>3. ns \subseteq Nodes BY <2>0, <1>0, <2>1, RowTyped
    <3>4. \A m \in ns : Vouched(m, s) BY <2>0, <2>5, <2>7, <3>3
    <3> HIDE DEF b
    <3>5. \A t \in AnySession : MayFinalize(t)' => MayFinalize(t) /\ t # s
      <4>1. /\ OneHandler /\ busy # Idle /\ UNCHANGED client /\ s \in AnySession
            /\ s[1] \in Uploads /\ s[2] \in Nat /\ busy.op # "commit_finalize_reply"
        BY <2>0, <1>0, <2>1, <3>1 DEF AnySession, WaitType
      <4>2. client[s[1]].state \in {"waiting", "failed"} BY <2>0, <4>1 DEF OneHandler
      <4>3. ASSUME NEW t \in AnySession, MayFinalize(t)' PROVE MayFinalize(t) /\ t # s
        <5>1. t[1] \in Uploads /\ t[2] \in Nat /\ t = <<t[1], t[2]>> BY DEF AnySession
        <5>2. CASE client[t[1]].state \in {"idle", "active"} /\ client[t[1]].part <= t[2]
          BY <4>2, <5>2 DEF MayFinalize
        <5>3. CASE s[1] = t[1] /\ s[2] <= t[2] /\ s[2] # t[2]
          BY <4>1, <2>0, <5>3 DEF MayFinalize
        <5> QED BY <2>0, <3>2, <4>1, <4>3, <5>1, <5>2, <5>3 DEF MayFinalize
      <4> QED BY <4>3
    <3>6. FewerToFinalize /\ ~MayFinalize(s)' BY <2>0, <1>0, <2>1, <3>5 DEF FewerToFinalize
    <3>7. FewerVouched BY <2>0, <1>0, <3>2, <3>6, VouchedFewer DEF Checking
    <3>8. \A t \in AnySession : Finalizing(t)' => t = s BY <3>2 DEF Finalizing
    <3>9. ClientsQuiet
      <4>1. \A u \in Uploads : InHandler(u)' <=> InHandler(u)
        BY <2>0, <2>1, <3>2 DEF InHandler
      <4> QED BY <2>0, <2>1, <3>1, <4>1 DEF ClientsQuiet, Serving
    <3>10. BeginsRound(s)
      BY <2>0, <1>0, <2>1, <2>3, <3>1, <3>4, <3>6, <3>7, <3>8 DEF BeginsRound
    <3> QED BY <2>0, <1>0, <2>1, <3>9, <3>10 DEF QuietStep, BookSame
  <2>8. CASE b.replied = ns /\ ~b.ok
    <3> DEFINE c == [client[busy.s[1]] EXCEPT !.state = "failed"]
    <3>1. Ends(busy.s[1], c) /\ UNCHANGED toNode BY <2>0, <1>4, <2>2, <2>8 DEF ReceiveCheck
    <3>2. c \in ClientType /\ c.state = "failed" /\ c.size = client[busy.s[1]].size
      BY <2>0, <1>0, <2>1, ClientNextState DEF ClientType
    <3> HIDE DEF b, c
    <3>3. FewerToFinalize /\ FewerVouched /\ FewerFinalizing /\ ClientsQuiet
      BY <2>0, <1>0, <2>1, <3>1, <3>2, EndQuiet
    <3> QED BY <2>0, <1>0, <2>1, <3>1, <3>3 DEF QuietStep, BookSame, Still
  <2> QED BY <2>6, <2>7, <2>8
<1>5. CASE ReceiveFinalize(n)
  <2>1. /\ Awaited(n) /\ busy # Idle /\ busy.op = "commit_finalize_reply"
        /\ Replied(n).s = busy.s /\ UNCHANGED <<open, tmp, stored>> /\ Finalizing(busy.s)
    BY <1>0, <1>5 DEF ReceiveFinalize, Awaited, Replied, WaitType, nodeVars, Finalizing
  <2>2. CASE /\ busy' = Replied(n)
             /\ UNCHANGED <<dbVars, known, client, toNode, history>>
    <3>1. /\ busy' # Idle /\ busy'.s = busy.s /\ busy'.op = "commit_finalize_reply"
      BY <1>0, <1>1, <2>1, <2>2 DEF Replied, WaitType, FrameType, Idle
    <3>2. FewerToFinalize BY <2>1, <2>2, <3>1 DEF FewerToFinalize, MayFinalize
    <3>3. FewerFinalizing BY <2>1, <3>1 DEF FewerFinalizing, Finalizing
    <3>4. FewerVouched BY <1>0, <3>1, <3>2, VouchedFewer DEF Checking
    <3>5. ClientsQuiet
      <4>1. \A u \in Uploads : InHandler(u)' <=> InHandler(u)
        BY <2>1, <3>1 DEF InHandler
      <4> QED BY <2>2, <4>1 DEF ClientsQuiet, Serving
    <3> QED BY <1>0, <2>1, <2>2, <3>2, <3>3, <3>4, <3>5
            DEF QuietStep, BookSame, Still, dbVars, history
  <2>3. CASE Commit(busy.s)
    <3> DEFINE s == busy.s
               u == s[1]
               c1 == [client[u] EXCEPT !.state = "done"]
               c2 == GoesOn(client[u], client[u].part + 1, 1)
    <3>1. /\ rows' = [rows EXCEPT ![s[1]][s[2]].status = "COMMITTED"]
          /\ UNCHANGED <<toNode, reserved, lossy>>
          /\ \/ Ends(u, c1) \/ Ends(u, c2) \/ (busy' = Idle /\ UNCHANGED client)
      BY <2>3 DEF Commit, Forgotten
    <3>2. c1 \in ClientType /\ c1.state = "done" BY <1>0, <2>1, ClientNextState
    <3>3. c2 \in ClientType /\ c2.state = "active" /\ c2.part = client[u].part + 1
      <4>1. client[u] \in ClientType /\ client[u].part + 1 \in Nat /\ 1 \in Nat
        BY <1>0, <2>1 DEF ClientType
      <4> QED BY <4>1, ClientGoesOn
    <3> HIDE DEF c1, c2
    <3>4. PICK c \in ClientType : /\ c.state \in {"active", "done", "failed"}
                                  /\ c.state = "active" => c.part = client[u].part + 1
                                  /\ Ends(u, c) \/ (busy' = Idle /\ UNCHANGED client)
      BY <3>1, <3>2, <3>3
    <3>5. busy' = Idle /\ \A t \in AnySession : MayFinalize(t)' => MayFinalize(t)
      BY <2>1, <3>4, RoundOver DEF AtomicInv
    <3>6. FewerToFinalize BY <3>5 DEF FewerToFinalize
    <3>7. FewerVouched BY <1>0, <3>5, <3>6, VouchedFewer DEF Checking
    <3> QED BY <1>0, <2>1, <2>3, <3>1, <3>5, <3>6, <3>7 DEF Commits
  <2>4. CASE Abort(busy.s, FALSE) BY <1>0, <2>1, <2>4, AbortQuiet
  <2> QED BY <1>5, <2>1, <2>2, <2>3, <2>4 DEF ReceiveFinalize
<1> QED BY <1>2, <1>3, <1>4, <1>5 DEF Receive

LEMMA WaitTimeoutQuiet ==
    ASSUME AtomicInv, MoreTyped, WaitTimeout
    PROVE  QuietStep
<1>0. /\ busy # Idle /\ UNCHANGED <<toServer, open, tmp, stored>> /\ Typed /\ TookFrames
      /\ busy.s[1] \in Uploads /\ client[busy.s[1]] \in ClientType
  BY DEF AtomicInv, Base, Typed, WaitType, AnySession, WaitTimeout, nodeVars, TookFrames
<1>1. CASE busy.op = "commit_finalize_reply"
  BY <1>0, <1>1, AbortQuiet DEF WaitTimeout, Finalizing
<1>2. CASE busy.op # "commit_finalize_reply"
  <2> DEFINE c == [client[busy.s[1]] EXCEPT !.state = "failed"]
  <2>1. Ends(busy.s[1], c)
        /\ UNCHANGED <<rows, multipart, item, reserved, metered, known, toNode, lossy>>
    BY <1>2 DEF WaitTimeout, dbVars
  <2>2. c \in ClientType /\ c.state = "failed" /\ c.size = client[busy.s[1]].size
    BY <1>0, ClientNextState DEF ClientType
  <2> HIDE DEF c
  <2>3. FewerToFinalize /\ FewerVouched /\ FewerFinalizing /\ ClientsQuiet
    BY <1>0, <2>1, <2>2, EndQuiet
  <2> QED BY <1>0, <2>1, <2>3 DEF QuietStep, BookSame, Still
<1> QED BY <1>1, <1>2

LEMMA OutsideQuiet ==
    ASSUME AtomicInv, MoreTyped,
           ServerRestart \/ \E n \in Nodes : NodeRestart(n) \/ LoseFrames(n)
    PROVE  QuietStep
<1>0. Typed BY DEF AtomicInv, Base
<1>1. CASE ServerRestart
  <2>1. PICK lost \in SUBSET Nodes :
          /\ toNode' = [n \in Nodes |-> IF n \in lost THEN <<>> ELSE toNode[n]]
          /\ lossy' = lossy \cup lost
    BY <1>1 DEF ServerRestart
  <2>2. /\ busy' = Idle /\ known' = {}
        /\ UNCHANGED <<rows, multipart, item, reserved, metered, client, toServer,
                       open, tmp, stored>>
    BY <1>1 DEF ServerRestart, Forgotten, dbVars, nodeVars
  <2>3. TookFrames BY <2>2 DEF TookFrames
  <2>4. FewerToFinalize /\ FewerVouched /\ FewerFinalizing /\ ClientsQuiet
    BY <2>2, <2>3, ForgetQuiet
  <2>5. Loses BY <2>1, <2>2, <2>3, <2>4 DEF Loses, MoreTyped
  <2> QED BY <2>2, <2>4, <2>5 DEF QuietStep, BookSame
<1>2. ASSUME NEW n \in Nodes, NodeRestart(n) \/ LoseFrames(n)
      PROVE  QuietStep
  <2>1. /\ toNode' = toNode \/ toNode' = [toNode EXCEPT ![n] = <<>>]
        /\ toServer' = toServer \/ toServer' = [toServer EXCEPT ![n] = <<>>]
        /\ open' = open \/ open' = [open EXCEPT ![n] = {}]
        /\ lossy' = lossy \cup {n}
        /\ UNCHANGED <<rows, multipart, item, reserved, metered, known, busy, client, tmp,
                       stored>>
    BY <1>2 DEF NodeRestart, LoseFrames, dbVars, nodeVars
  <2>2. TookFrames BY <1>0, <2>1 DEF Typed, TookFrames
  <2>3. FewerToFinalize /\ FewerVouched /\ FewerFinalizing /\ ClientsQuiet
    BY <2>1, <2>2, ForgetQuiet
  <2>4. \A m \in Nodes : toNode'[m] = toNode[m] \/ (m \in lossy' /\ toNode'[m] = <<>>)
    BY <1>0, <2>1 DEF Typed
  <2>5. /\ open' \in [Nodes -> SUBSET AnySession]
        /\ \A m \in Nodes : open'[m] = open[m] \/ (m \in lossy' /\ open'[m] = {})
    BY <2>1 DEF MoreTyped
  <2>6. lossy' \subseteq Nodes BY <2>1 DEF MoreTyped
  <2>7. Loses BY <2>1, <2>2, <2>3, <2>4, <2>5, <2>6 DEF Loses
  <2> QED BY <2>1, <2>3, <2>7 DEF QuietStep, BookSame
<1> QED BY <1>1, <1>2

-----------------------------------------------------------------------------
(* What is on a node *)

On(n, s) == Exists(s) /\ n \in Row(s).nodes
Right(n, f) == On(n, f.s) /\ (f.op = "data" => f.chunk \in 1 .. Row(f.s).size)
HasTmp(n, s) == \E x \in tmp[n] : x[1] = s
Is(f, op, s) == f.op = op /\ f.s = s

(* Only chosen nodes have anything of a session, or hear of it. *)
QueueRight(n) == \A k \in 1 .. Len(toNode[n]) : Right(n, toNode[n][k])
ServerOn(n) == \A k \in 1 .. Len(toServer[n]) : On(n, toServer[n][k].s)
FilesRight(n) ==
    /\ \A s \in open[n] : On(n, s)
    /\ \A s \in stored[n] : On(n, s)
    /\ \A x \in tmp[n] : On(n, x[1]) /\ x[2] \in 1 .. Row(x[1]).size
Addressed(n) == QueueRight(n) /\ ServerOn(n) /\ FilesRight(n)

(* The init_session of a session is the first the node hears of it. *)
InitFirst(n) ==
    \A k \in 1 .. Len(toNode[n]) : toNode[n][k].op = "init_session" =>
        /\ \A j \in 1 .. k - 1 : toNode[n][j].s # toNode[n][k].s
        /\ toNode[n][k].s \notin open[n] /\ toNode[n][k].s \notin stored[n]
        /\ ~HasTmp(n, toNode[n][k].s)

StoredClean(n, s) == s \in stored[n] => s \notin open[n] /\ ~HasTmp(n, s)

OneFinal(n, s) ==
    \A j, k \in 1 .. Len(toNode[n]) :
        Is(toNode[n][j], "commit_finalize", s) /\ Is(toNode[n][k], "commit_finalize", s)
        => j = k

(* A commit_finalize finds all chunks there. *)
FinalReady(n, s) ==
    n \notin lossy /\ (Has(toNode[n], "commit_finalize", s) \/ Vouched(n, s))
    => s \in open[n] /\ Chunks(s) \subseteq tmp[n]

Joined(n, s) ==
    n \notin lossy /\ MayFinalize(s) /\ On(n, s)
    => s \in open[n] \/ Has(toNode[n], "init_session", s)

Gone(n, s) == s \notin open[n] /\ ~Has(toNode[n], "init_session", s)

FinalOut(n, s) ==
    n \notin lossy /\ Finalizing(s) /\ On(n, s)
    => Has(toNode[n], "commit_finalize", s) \/ Gone(n, s)

Before(n, op, s, i) == \E k \in 1 .. i : Is(toNode[n][k], op, s)

(* A delete_object comes after the commit_finalize: the session is closed.  *)
Erasable(n, s) ==
    n \notin lossy => \A i \in 1 .. Len(toNode[n]) :
        Is(toNode[n][i], "delete_object", s)
        => Before(n, "commit_finalize", s, i - 1) \/ Gone(n, s)

Aborted(s) == Exists(s) /\ Row(s).status = "ABORTED"

Erased(n, s) ==
    n \notin lossy /\ Aborted(s) =>
        /\ s \in stored[n] => Has(toNode[n], "delete_object", s)
        /\ \A k \in 1 .. Len(toNode[n]) : Is(toNode[n][k], "commit_finalize", s)
             => \E j \in k + 1 .. Len(toNode[n]) : Is(toNode[n][j], "delete_object", s)

SessionOn(n, s) ==
    /\ StoredClean(n, s) /\ OneFinal(n, s) /\ FinalReady(n, s) /\ Joined(n, s)
    /\ FinalOut(n, s) /\ Erasable(n, s) /\ Erased(n, s)

NodeView(n) == Addressed(n) /\ InitFirst(n) /\ \A s \in AnySession : SessionOn(n, s)

(* The rows of sessions keep what they say of nodes and sizes. *)
RowsKept ==
    \A t \in AnySession :
        /\ Exists(t)' <=> Exists(t)
        /\ Exists(t) => Row(t)'.nodes = Row(t).nodes /\ Row(t)'.size = Row(t).size

(* A node that only the server's waits and rows can tell apart from before *)
SameNode(n) ==
    /\ toNode'[n] = toNode[n] /\ open'[n] = open[n] /\ tmp'[n] = tmp[n]
    /\ stored'[n] = stored[n]

LEMMA TypedQueues ==
    ASSUME Typed, NEW n \in Nodes
    PROVE  /\ toNode[n] \in Seq(FrameType) /\ toServer[n] \in Seq(FrameType)
           /\ Len(toNode[n]) \in Nat /\ Len(toServer[n]) \in Nat
           /\ \A k \in 1 .. Len(toNode[n]) : toNode[n][k].s \in AnySession
           /\ \A k \in 1 .. Len(toServer[n]) : toServer[n][k].s \in AnySession
<1>1. toNode[n] \in Seq(FrameType) /\ toServer[n] \in Seq(FrameType)
  BY DEF Typed, Frames
<1>2. \A k \in 1 .. Len(toNode[n]) : toNode[n][k] \in FrameType BY <1>1
<1>3. \A k \in 1 .. Len(toServer[n]) : toServer[n][k] \in FrameType BY <1>1
<1> QED BY <1>1, <1>2, <1>3 DEF FrameType

LEMMA OnKept ==
    ASSUME RowsKept, NEW n, NEW s \in AnySession
    PROVE  /\ On(n, s)' <=> On(n, s)
           /\ On(n, s) => Row(s)'.size = Row(s).size
BY DEF RowsKept, On

(* The frames the server still has to take were sent before. *)
LEMMA TookAddressed ==
    ASSUME Typed, TookFrames, RowsKept, NEW n \in Nodes, ServerOn(n)
    PROVE  ServerOn(n)'
<1> SUFFICES ASSUME NEW k \in 1 .. Len(toServer'[n])
             PROVE  \E s \in AnySession : toServer'[n][k].s = s /\ On(n, s)
  BY OnKept DEF ServerOn
<1>1. toServer[n] \in Seq(FrameType) /\ Len(toServer[n]) \in Nat
      /\ \A j \in 1 .. Len(toServer[n]) : toServer[n][j].s \in AnySession
  BY TypedQueues
<1>2. CASE toServer'[n] = toServer[n] BY <1>1, <1>2 DEF ServerOn
<1>3. CASE toServer'[n] = <<>> BY <1>3
<1>4. CASE toServer[n] # <<>> /\ toServer'[n] = Tail(toServer[n])
  <2>1. /\ Len(Tail(toServer[n])) = Len(toServer[n]) - 1
        /\ \A j \in 1 .. Len(toServer[n]) - 1 : Tail(toServer[n])[j] = toServer[n][j + 1]
    BY <1>1, <1>4
  <2>2. k + 1 \in 1 .. Len(toServer[n]) /\ toServer'[n][k] = toServer[n][k + 1]
    BY <1>1, <1>4, <2>1
  <2> QED BY <1>1, <2>2 DEF ServerOn
<1> QED BY <1>2, <1>3, <1>4 DEF TookFrames

(* The node and its frames are as before. *)
LEMMA SameView ==
    ASSUME Typed, MoreTyped, OneHandler, NEW n \in Nodes, NodeView(n), SameNode(n), RowsKept,
           ServerOn(n)',
           n \in lossy => n \in lossy', FewerToFinalize,
           \A t \in AnySession : Vouched(n, t)' => Vouched(n, t),
           \A t \in AnySession : Finalizing(t)' => Finalizing(t) \/ ~On(n, t),
           \A t \in AnySession : Aborted(t)' => Aborted(t) \/ ~On(n, t)
    PROVE  NodeView(n)'
<1>0. /\ toNode'[n] = toNode[n] /\ open'[n] = open[n] /\ tmp'[n] = tmp[n]
      /\ stored'[n] = stored[n] /\ Addressed(n) /\ InitFirst(n)
      /\ \A k \in 1 .. Len(toNode[n]) : toNode[n][k].s \in AnySession
      /\ open[n] \subseteq AnySession /\ stored[n] \subseteq AnySession
      /\ \A x \in tmp[n] : x[1] \in AnySession
  BY TypedQueues DEF SameNode, NodeView, Typed, MoreTyped
<1>1. Addressed(n)'
  <2>1. QueueRight(n)' BY <1>0, OnKept DEF Addressed, QueueRight, Right
  <2>2. FilesRight(n)' BY <1>0, OnKept DEF Addressed, FilesRight
  <2> QED BY <1>0, <2>1, <2>2 DEF Addressed
<1>2. InitFirst(n)' BY <1>0 DEF InitFirst, HasTmp
<1>3. ASSUME NEW s \in AnySession PROVE SessionOn(n, s)'
  <2>0. SessionOn(n, s) /\ (On(n, s)' <=> On(n, s)) /\ (On(n, s) => Chunks(s)' = Chunks(s))
    BY OnKept DEF NodeView, Chunks
  <2>1. /\ Has(toNode'[n], "commit_finalize", s) <=> Has(toNode[n], "commit_finalize", s)
        /\ Has(toNode'[n], "init_session", s) <=> Has(toNode[n], "init_session", s)
        /\ Gone(n, s)' <=> Gone(n, s)
    BY <1>0 DEF Gone
  <2>2. StoredClean(n, s)' BY <1>0, <2>0 DEF SessionOn, StoredClean, HasTmp
  <2>3. OneFinal(n, s)' BY <1>0, <2>0 DEF SessionOn, OneFinal
  <2>4. FinalReady(n, s)'
    <3>1. Has(toNode[n], "commit_finalize", s) => On(n, s)
      BY <1>0 DEF Addressed, QueueRight, Right, Has
    <3>2. Vouched(n, s) => Exists(s)
      BY <1>0 DEF Vouched, Vouches, Checking, OneHandler, Addressed, ServerOn, On
    <3>3. Exists(s) => Chunks(s)' = Chunks(s) BY DEF RowsKept, Chunks
    <3> QED BY <1>0, <2>0, <2>1, <3>1, <3>2, <3>3 DEF SessionOn, FinalReady, On
  <2>5. Joined(n, s)' BY <1>0, <2>0, <2>1 DEF SessionOn, Joined, FewerToFinalize
  <2>6. FinalOut(n, s)' BY <1>0, <2>0, <2>1 DEF SessionOn, FinalOut
  <2>7. Erasable(n, s)'
    <3>1. \A i : Before(n, "commit_finalize", s, i)' <=> Before(n, "commit_finalize", s, i)
      BY <1>0 DEF Before
    <3> QED BY <1>0, <2>0, <2>1, <3>1 DEF SessionOn, Erasable
  <2>8. Erased(n, s)'
    <3>1. s \in stored[n] => On(n, s) BY <1>0 DEF Addressed, FilesRight
    <3>2. \A k \in 1 .. Len(toNode[n]) : Is(toNode[n][k], "commit_finalize", s) => On(n, s)
      BY <1>0 DEF Addressed, QueueRight, Right, Is
    <3> QED BY <1>0, <2>0, <3>1, <3>2 DEF SessionOn, Erased, Has
  <2> QED BY <2>2, <2>3, <2>4, <2>5, <2>6, <2>7, <2>8 DEF SessionOn
<1> QED BY <1>1, <1>2, <1>3 DEF NodeView

(* A node that lost frames and sessions *)
LEMMA LostView ==
    ASSUME Typed, MoreTyped, NEW n \in Nodes, NodeView(n), RowsKept, n \in lossy',
           toNode'[n] = toNode[n] \/ toNode'[n] = <<>>,
           open'[n] = open[n] \/ open'[n] = {}, tmp'[n] = tmp[n], stored'[n] = stored[n],
           ServerOn(n)'
    PROVE  NodeView(n)'
<1>0. /\ Addressed(n) /\ InitFirst(n)
      /\ \A k \in 1 .. Len(toNode[n]) : toNode[n][k].s \in AnySession
      /\ open[n] \subseteq AnySession /\ stored[n] \subseteq AnySession
      /\ \A x \in tmp[n] : x[1] \in AnySession
      /\ open'[n] \subseteq open[n]
      /\ toNode'[n] = toNode[n] \/ Len(toNode'[n]) = 0
  <2>1. \A k \in 1 .. Len(toNode[n]) : toNode[n][k].s \in AnySession BY TypedQueues
  <2>2. open[n] \subseteq AnySession /\ stored[n] \subseteq AnySession
        /\ \A x \in tmp[n] : x[1] \in AnySession
    BY DEF Typed, MoreTyped
  <2>3. toNode'[n] = toNode[n] \/ Len(toNode'[n]) = 0 OBVIOUS
  <2>4. open'[n] \subseteq open[n] OBVIOUS
  <2> QED BY <2>1, <2>2, <2>3, <2>4 DEF NodeView
<1>1. Addressed(n)'
  <2>1. QueueRight(n)' BY <1>0, OnKept DEF Addressed, QueueRight, Right
  <2>2. FilesRight(n)' BY <1>0, OnKept DEF Addressed, FilesRight
  <2> QED BY <1>0, <2>1, <2>2 DEF Addressed
<1>2. InitFirst(n)' BY <1>0 DEF InitFirst, HasTmp
<1>3. ASSUME NEW s \in AnySession PROVE SessionOn(n, s)'
  <2>0. SessionOn(n, s) BY DEF NodeView
  <2>2. StoredClean(n, s)' BY <1>0, <2>0 DEF SessionOn, StoredClean, HasTmp
  <2>3. OneFinal(n, s)' BY <1>0, <2>0 DEF SessionOn, OneFinal
  <2> QED BY <2>2, <2>3 DEF SessionOn, FinalReady, Joined, FinalOut, Erasable, Erased
<1> QED BY <1>1, <1>2, <1>3 DEF NodeView

(* One more frame of a session on its way to the node *)
LEMMA AppendedView ==
    ASSUME Typed, MoreTyped, OneHandler, NEW n \in Nodes, NodeView(n), RowsKept,
           NEW f \in FrameType, toNode'[n] = Append(toNode[n], f), Right(n, f),
           f.op # "init_session",
           open'[n] = open[n], tmp'[n] = tmp[n], stored'[n] = stored[n], ServerOn(n)',
           n \in lossy => n \in lossy', FewerToFinalize,
           \A t \in AnySession : Vouched(n, t)' => Vouched(n, t),
           \A t \in AnySession : Finalizing(t)'
             => Finalizing(t) \/ (f.op = "commit_finalize" /\ t = f.s),
           \A t \in AnySession : Aborted(t)'
             => Aborted(t) \/ (f.op = "delete_object" /\ t = f.s),
           f.op = "commit_finalize" => /\ ~Has(toNode[n], "commit_finalize", f.s)
                                       /\ Vouched(n, f.s) /\ ~Aborted(f.s),
           f.op = "delete_object" => Finalizing(f.s)
    PROVE  NodeView(n)'
<1> DEFINE L == Len(toNode[n])
<1>0. /\ open'[n] = open[n] /\ tmp'[n] = tmp[n] /\ stored'[n] = stored[n]
      /\ Addressed(n) /\ InitFirst(n) /\ f.s \in AnySession
      /\ \A k \in 1 .. L : toNode[n][k].s \in AnySession
      /\ open[n] \subseteq AnySession /\ stored[n] \subseteq AnySession
      /\ \A x \in tmp[n] : x[1] \in AnySession
  BY TypedQueues DEF NodeView, Typed, MoreTyped, FrameType
<1>1. /\ L \in Nat /\ Len(toNode'[n]) = L + 1 /\ toNode'[n][L + 1] = f
      /\ \A k \in 1 .. L : toNode'[n][k] = toNode[n][k]
      /\ \A k \in 1 .. Len(toNode'[n]) : k \in 1 .. L \/ k = L + 1
      /\ \A k \in 1 .. L : k \in 1 .. Len(toNode'[n])
  <2>1. toNode[n] \in Seq(FrameType) BY TypedQueues
  <2> QED BY <2>1
<1> HIDE DEF L
<1>2. \A op, s : Has(toNode'[n], op, s) <=> Has(toNode[n], op, s) \/ Is(f, op, s)
  <2>1. toNode[n] \in Frames BY DEF Typed
  <2> QED BY <2>1, Appended DEF Is
<1>3. Addressed(n)'
  <2>1. QueueRight(n)'
    <3>1. ASSUME NEW k \in 1 .. L + 1, NEW g, g = toNode'[n][k]
          PROVE  g.s \in AnySession /\ Right(n, g)
      BY <1>0, <1>1, <3>1 DEF Addressed, QueueRight, L
    <3>2. \A k \in 1 .. L + 1 : toNode'[n][k].s \in AnySession /\ Right(n, toNode'[n][k])
      BY <3>1
    <3> QED BY <1>1, <3>2, OnKept DEF QueueRight, Right
  <2>2. FilesRight(n)' BY <1>0, OnKept DEF Addressed, FilesRight
  <2> QED BY <1>0, <2>1, <2>2 DEF Addressed
<1>4. InitFirst(n)'
  <2>1. \A k \in 1 .. L : \A j \in 1 .. k - 1 : j \in 1 .. L BY <1>1
  <2> QED BY <1>0, <1>1, <2>1 DEF InitFirst, HasTmp, L
<1>5. ASSUME NEW s \in AnySession PROVE SessionOn(n, s)'
  <2>0. SessionOn(n, s) /\ (On(n, s)' <=> On(n, s))
    BY OnKept DEF NodeView
  <2>1. /\ Has(toNode'[n], "commit_finalize", s)
           <=> Has(toNode[n], "commit_finalize", s) \/ Is(f, "commit_finalize", s)
        /\ Has(toNode'[n], "init_session", s) <=> Has(toNode[n], "init_session", s)
        /\ Gone(n, s)' <=> Gone(n, s)
    BY <1>0, <1>2 DEF Gone, Is
  <2>2. StoredClean(n, s)' BY <1>0, <2>0 DEF SessionOn, StoredClean, HasTmp
  <2>3. OneFinal(n, s)'
    <3>1. Is(f, "commit_finalize", s)
          => \A k \in 1 .. L : ~Is(toNode[n][k], "commit_finalize", s)
      BY DEF Is, Has, L
    <3> QED BY <1>1, <2>0, <3>1 DEF SessionOn, OneFinal, L
  <2>4. FinalReady(n, s)'
    <3>1. Has(toNode[n], "commit_finalize", s) => On(n, s)
      BY <1>0 DEF Addressed, QueueRight, Right, Has
    <3>2. Vouched(n, s) => Exists(s)
      BY <1>0 DEF Vouched, Vouches, Checking, OneHandler, Addressed, ServerOn, On
    <3>3. Exists(s) => Chunks(s)' = Chunks(s) BY DEF RowsKept, Chunks
    <3>4. Is(f, "commit_finalize", s) => Vouched(n, s) BY DEF Is
    <3> QED BY <1>0, <2>0, <2>1, <3>1, <3>2, <3>3, <3>4 DEF SessionOn, FinalReady, On
  <2>5. Joined(n, s)' BY <1>0, <2>0, <2>1 DEF SessionOn, Joined, FewerToFinalize
  <2>6. FinalOut(n, s)' BY <1>0, <2>0, <2>1 DEF SessionOn, FinalOut, Is
  <2>7. Erasable(n, s)'
    <3>1. \A i \in 0 .. L : Before(n, "commit_finalize", s, i)
                            => Before(n, "commit_finalize", s, i)'
      <4>1. \A i \in 0 .. L : \A k \in 1 .. i : k \in 1 .. L BY <1>1
      <4> QED BY <1>1, <4>1 DEF Before
    <3>2. SUFFICES ASSUME n \notin lossy', NEW i \in 1 .. L + 1,
                          Is(toNode'[n][i], "delete_object", s)
                   PROVE  Before(n, "commit_finalize", s, i - 1)' \/ Gone(n, s)'
      BY <1>1 DEF Erasable
    <3>3. CASE i \in 1 .. L
      <4>1. Before(n, "commit_finalize", s, i - 1) \/ Gone(n, s)
        BY <1>1, <2>0, <3>2, <3>3 DEF SessionOn, Erasable, L
      <4>2. i - 1 \in 0 .. L BY <1>1, <3>3
      <4> QED BY <2>1, <3>1, <4>1, <4>2
    <3>4. CASE i = L + 1
      <4>1. Is(f, "delete_object", s) /\ f.s = s BY <1>1, <3>2, <3>4 DEF Is
      <4>2. Finalizing(s) /\ On(n, s) /\ n \notin lossy
        BY <3>2, <4>1 DEF Is, Right
      <4>3. Has(toNode[n], "commit_finalize", s) \/ Gone(n, s)
        BY <2>0, <4>2 DEF SessionOn, FinalOut
      <4>4. Has(toNode[n], "commit_finalize", s) => Before(n, "commit_finalize", s, L)
        BY DEF Has, Before, Is, L
      <4>5. i - 1 = L /\ L \in 0 .. L BY <1>1, <3>4
      <4> QED BY <2>1, <3>1, <4>3, <4>4, <4>5
    <3> QED BY <1>1, <3>3, <3>4
  <2>8. Erased(n, s)'
    <3> SUFFICES ASSUME n \notin lossy', Aborted(s)'
                 PROVE  /\ s \in stored'[n] => Has(toNode'[n], "delete_object", s)
                        /\ \A k \in 1 .. L + 1 : Is(toNode'[n][k], "commit_finalize", s)
                             => \E j \in k + 1 .. L + 1 : Is(toNode'[n][j], "delete_object", s)
      BY <1>1 DEF Erased
    <3>1. CASE Aborted(s)
      <4>1. /\ s \in stored[n] => Has(toNode[n], "delete_object", s)
            /\ \A k \in 1 .. L : Is(toNode[n][k], "commit_finalize", s)
                 => \E j \in k + 1 .. L : Is(toNode[n][j], "delete_object", s)
        BY <2>0, <3>1 DEF SessionOn, Erased, L
      <4>2. ~Is(f, "commit_finalize", s) BY <3>1 DEF Is
      <4>3. ASSUME NEW k \in 1 .. L + 1, Is(toNode'[n][k], "commit_finalize", s)
            PROVE  \E j \in k + 1 .. L + 1 : Is(toNode'[n][j], "delete_object", s)
        <5>1. k \in 1 .. L /\ Is(toNode[n][k], "commit_finalize", s) BY <1>1, <4>2, <4>3
        <5>2. PICK j \in k + 1 .. L : Is(toNode[n][j], "delete_object", s) BY <4>1, <5>1
        <5>3. j \in 1 .. L /\ j \in k + 1 .. L + 1 BY <1>1, <5>1
        <5> QED BY <1>1, <5>2, <5>3
      <4> QED BY <1>0, <1>2, <4>1, <4>3
    <3>2. CASE f.op = "delete_object" /\ s = f.s
      <4>1. Is(f, "delete_object", s) /\ ~Is(f, "commit_finalize", s) BY <3>2 DEF Is
      <4>2. ASSUME NEW k \in 1 .. L + 1, Is(toNode'[n][k], "commit_finalize", s)
            PROVE  \E j \in k + 1 .. L + 1 : Is(toNode'[n][j], "delete_object", s)
        <5>1. k \in 1 .. L BY <1>1, <4>1, <4>2
        <5>2. L + 1 \in k + 1 .. L + 1 BY <1>1, <5>1
        <5> QED BY <1>1, <4>1, <5>2
      <4> QED BY <1>2, <4>1, <4>2
    <3> QED BY <3>1, <3>2
  <2> QED BY <2>2, <2>3, <2>4, <2>5, <2>6, <2>7, <2>8 DEF SessionOn
<1> QED BY <1>3, <1>4, <1>5 DEF NodeView

-----------------------------------------------------------------------------
(* A node works through its frames. *)

LEMMA HeadTaken ==
    ASSUME Typed, NEW n \in Nodes, NEW op, Got(n, op), NEW f, f = Head(toNode[n])
    PROVE  /\ Len(toNode[n]) \in Nat \ {0} /\ f \in FrameType /\ f.op = op
           /\ f = toNode[n][1] /\ 1 \in 1 .. Len(toNode[n])
           /\ Len(toNode'[n]) = Len(toNode[n]) - 1
           /\ \A k \in 1 .. Len(toNode[n]) - 1 : toNode'[n][k] = toNode[n][k + 1]
           /\ \A m \in Nodes \ {n} : toNode'[m] = toNode[m]
<1>1. toNode[n] \in Seq(FrameType) /\ toNode[n] # <<>> /\ toNode'[n] = Tail(toNode[n])
  BY TypedQueues DEF Got, Typed
<1>2. /\ Len(toNode[n]) \in Nat \ {0} /\ Head(toNode[n]) = toNode[n][1]
      /\ Len(Tail(toNode[n])) = Len(toNode[n]) - 1
      /\ \A k \in 1 .. Len(toNode[n]) - 1 : Tail(toNode[n])[k] = toNode[n][k + 1]
  BY <1>1
<1>3. 1 \in 1 .. Len(toNode[n]) /\ toNode[n][1] \in FrameType BY <1>1, <1>2
<1>4. f.op = op BY DEF Got
<1>5. \A m \in Nodes \ {n} : toNode'[m] = toNode[m] BY DEF Typed, Got
<1> QED BY <1>1, <1>2, <1>3, <1>4, <1>5

(* The node worked off frame f; what that may do to its files and sessions *)
LEMMA ShiftedView ==
    ASSUME AtomicInv, MoreTyped, NEW n \in Nodes, NodeView(n), UNCHANGED <<rows, busy, client, lossy>>,
           NEW f \in FrameType, f = toNode[n][1], Len(toNode[n]) \in Nat \ {0},
           Len(toNode'[n]) = Len(toNode[n]) - 1,
           \A k \in 1 .. Len(toNode[n]) - 1 : toNode'[n][k] = toNode[n][k + 1],
           ServerOn(n)', FilesRight(n)', StoredClean(n, f.s)',
           \A t \in AnySession \ {f.s} :
             /\ t \in open'[n] <=> t \in open[n]
             /\ t \in stored'[n] <=> t \in stored[n]
             /\ HasTmp(n, t)' <=> HasTmp(n, t)
             /\ Chunks(t) \subseteq tmp[n] => Chunks(t) \subseteq tmp'[n],
           f.op # "commit_finalize" => /\ f.s \in open[n] => f.s \in open'[n]
                                       /\ tmp[n] \subseteq tmp'[n]
                                       /\ f.s \in stored'[n] => f.s \in stored[n],
           f.op # "init_session" => /\ f.s \in open'[n] => f.s \in open[n]
                                    /\ HasTmp(n, f.s)' => HasTmp(n, f.s) \/ f.s \in open[n],
           f.op = "init_session" => f.s \in open'[n],
           f.op = "commit_finalize" => f.s \notin open'[n],
           f.op = "delete_object" => f.s \notin stored'[n],
           \A t \in AnySession : Vouched(n, t)' /\ n \notin lossy =>
             \/ Vouched(n, t)
             \/ /\ f.op = "commit_check" /\ t = f.s
                /\ t \in open[n] /\ Chunks(t) \subseteq tmp[n]
    PROVE  NodeView(n)'
<1> DEFINE L == Len(toNode[n])
<1>0. /\ Typed /\ OneHandler /\ Addressed(n) /\ InitFirst(n) /\ f.s \in AnySession
      /\ \A k \in 1 .. L : toNode[n][k].s \in AnySession
  BY TypedQueues DEF AtomicInv, Base, NodeView, FrameType
<1>1. /\ L \in Nat \ {0} /\ Len(toNode'[n]) = L - 1 /\ toNode[n][1] = f
      /\ \A k \in 1 .. L - 1 : toNode'[n][k] = toNode[n][k + 1] /\ k + 1 \in 2 .. L
      /\ 1 \in 1 .. L
  OBVIOUS
<1> HIDE DEF L
<1>2. /\ \A op, s : Has(toNode'[n], op, s) => Has(toNode[n], op, s)
      /\ \A op, s : Has(toNode[n], op, s) => Has(toNode'[n], op, s) \/ Is(f, op, s)
  <2>1. ASSUME NEW op, NEW s, Has(toNode'[n], op, s) PROVE Has(toNode[n], op, s)
    <3>1. PICK k \in 1 .. L - 1 : toNode'[n][k].op = op /\ toNode'[n][k].s = s
      BY <1>1, <2>1 DEF Has
    <3>2. k + 1 \in 1 .. L BY <1>1
    <3> QED BY <1>1, <3>1, <3>2 DEF Has, L
  <2>2. ASSUME NEW op, NEW s, Has(toNode[n], op, s), ~Is(f, op, s)
        PROVE  Has(toNode'[n], op, s)
    <3>1. PICK k \in 1 .. L : toNode[n][k].op = op /\ toNode[n][k].s = s
      BY <2>2 DEF Has, L
    <3>2. k # 1 BY <1>1, <2>2, <3>1 DEF Is
    <3>3. k - 1 \in 1 .. L - 1 /\ (k - 1) + 1 = k BY <1>1, <3>2
    <3>4. toNode'[n][k - 1] = toNode[n][k] BY <1>1, <3>3
    <3> QED BY <1>1, <3>1, <3>3, <3>4 DEF Has
  <2> QED BY <2>1, <2>2
<1>3. Addressed(n)'
  <2>1. QueueRight(n)'
    <3>1. \A g : Right(n, g)' <=> Right(n, g) BY DEF Right, On, Exists, Row
    <3>2. \A k \in 1 .. L - 1 : k + 1 \in 1 .. L BY <1>1
    <3>3. \A k \in 1 .. L : Right(n, toNode[n][k]) BY <1>0 DEF Addressed, QueueRight, L
    <3> QED BY <1>1, <3>1, <3>2, <3>3 DEF QueueRight
  <2> QED BY <2>1 DEF Addressed
<1>4. InitFirst(n)'
  <2>1. SUFFICES ASSUME NEW k \in 1 .. L - 1, toNode'[n][k].op = "init_session",
                        NEW s, s = toNode'[n][k].s
                 PROVE  /\ \A j \in 1 .. k - 1 : toNode'[n][j].s # s
                        /\ s \notin open'[n] /\ s \notin stored'[n] /\ ~HasTmp(n, s)'
    BY <1>1 DEF InitFirst
  <2>2. /\ k + 1 \in 1 .. L /\ toNode[n][k + 1].op = "init_session" /\ toNode[n][k + 1].s = s
        /\ s \in AnySession /\ (k + 1) - 1 = k
    <3>1. k \in Nat /\ L \in Nat /\ k <= L - 1 BY <1>1
    <3>2. k + 1 \in 1 .. L /\ (k + 1) - 1 = k BY <3>1
    <3>3. toNode'[n][k] = toNode[n][k + 1] BY <1>1
    <3>4. toNode[n][k + 1].s \in AnySession BY <1>0, <3>2
    <3> QED BY <2>1, <3>2, <3>3, <3>4
  <2>3. /\ \A j \in 1 .. k : toNode[n][j].s # s
        /\ s \notin open[n] /\ s \notin stored[n] /\ ~HasTmp(n, s)
    BY <1>0, <2>2 DEF InitFirst, L
  <2>4. s # f.s BY <1>1, <2>3
  <2>5. \A j \in 1 .. k - 1 : j \in 1 .. L - 1 /\ j + 1 \in 1 .. k BY <1>1
  <2> QED BY <1>1, <2>2, <2>3, <2>4, <2>5
<1>5. ASSUME NEW s \in AnySession PROVE SessionOn(n, s)'
  <2>0. SessionOn(n, s) /\ (On(n, s)' <=> On(n, s)) /\ Chunks(s)' = Chunks(s)
        /\ (MayFinalize(s)' <=> MayFinalize(s)) /\ (Finalizing(s)' <=> Finalizing(s))
        /\ (Aborted(s)' <=> Aborted(s))
    BY DEF NodeView, On, Exists, Row, Chunks, MayFinalize, Finalizing, Aborted
  <2>1. Is(f, "commit_finalize", s) => ~Has(toNode'[n], "commit_finalize", s)
    <3> SUFFICES ASSUME Is(f, "commit_finalize", s), Has(toNode'[n], "commit_finalize", s)
                 PROVE  FALSE
      OBVIOUS
    <3>1. PICK k \in 1 .. L - 1 : toNode'[n][k].op = "commit_finalize" /\ toNode'[n][k].s = s
      BY <1>1 DEF Has
    <3>2. k + 1 \in 1 .. L /\ k + 1 # 1 /\ Is(toNode[n][k + 1], "commit_finalize", s)
      BY <1>1, <3>1 DEF Is
    <3> QED BY <1>1, <2>0, <3>2 DEF SessionOn, OneFinal, L
  <2>2. StoredClean(n, s)' BY <2>0 DEF SessionOn, StoredClean
  <2>3. OneFinal(n, s)'
    <3> SUFFICES ASSUME NEW j \in 1 .. L - 1, NEW k \in 1 .. L - 1,
                        Is(toNode'[n][j], "commit_finalize", s),
                        Is(toNode'[n][k], "commit_finalize", s)
                 PROVE  j = k
      BY <1>1 DEF OneFinal
    <3>1. /\ j + 1 \in 1 .. L /\ k + 1 \in 1 .. L
          /\ Is(toNode[n][j + 1], "commit_finalize", s)
          /\ Is(toNode[n][k + 1], "commit_finalize", s)
      BY <1>1
    <3>2. j + 1 = k + 1 BY <2>0, <3>1 DEF SessionOn, OneFinal, L
    <3> QED BY <3>2
  <2>4. FinalReady(n, s)'
    <3> SUFFICES ASSUME n \notin lossy, Has(toNode'[n], "commit_finalize", s) \/ Vouched(n, s)'
                 PROVE  s \in open'[n] /\ Chunks(s) \subseteq tmp'[n]
      BY <2>0 DEF FinalReady
    <3>1. MayFinalize(s) => ~Is(f, "commit_finalize", s)
      <4>1. Is(f, "commit_finalize", s) => Has(toNode[n], "commit_finalize", s)
        BY <1>1 DEF Is, Has, L
      <4> QED BY <4>1 DEF AtomicInv, SessionInv, NothingEnded
    <3>2. Vouched(n, s)' => MayFinalize(s) BY <2>0 DEF Vouched
    <3>3. ~Is(f, "commit_finalize", s) BY <2>1, <3>1, <3>2
    <3>4. s \in open[n] /\ Chunks(s) \subseteq tmp[n]
      BY <1>2, <2>0 DEF SessionOn, FinalReady
    <3>5. CASE s = f.s
      <4>1. f.op # "commit_finalize" BY <3>3, <3>5 DEF Is
      <4> QED BY <3>4, <3>5, <4>1
    <3> QED BY <3>4, <3>5
  <2>5. Joined(n, s)'
    <3> SUFFICES ASSUME n \notin lossy, MayFinalize(s), On(n, s)
                 PROVE  s \in open'[n] \/ Has(toNode'[n], "init_session", s)
      BY <2>0 DEF Joined
    <3>1. s \in open[n] \/ Has(toNode[n], "init_session", s)
      BY <2>0 DEF SessionOn, Joined
    <3>2. ~Is(f, "commit_finalize", s)
      <4>1. Is(f, "commit_finalize", s) => Has(toNode[n], "commit_finalize", s)
        BY <1>1 DEF Is, Has, L
      <4> QED BY <4>1 DEF AtomicInv, SessionInv, NothingEnded
    <3> QED BY <1>2, <3>1, <3>2 DEF Is
  <2>6. Gone(n, s) => Gone(n, s)'
    <3>1. Gone(n, s) => ~Is(f, "init_session", s)
      BY <1>1 DEF Gone, Has, Is, L
    <3> QED BY <1>2, <3>1 DEF Gone, Is
  <2>7. Is(f, "commit_finalize", s) /\ n \notin lossy => Gone(n, s)'
    <3> SUFFICES ASSUME Is(f, "commit_finalize", s), n \notin lossy PROVE Gone(n, s)'
      OBVIOUS
    <3>1. s = f.s /\ f.op = "commit_finalize" /\ s \notin open'[n] BY DEF Is
    <3>2. s \in open[n]
      <4>1. Has(toNode[n], "commit_finalize", s) BY <1>1 DEF Is, Has, L
      <4> QED BY <2>0, <4>1 DEF SessionOn, FinalReady
    <3>3. ~Has(toNode[n], "init_session", s) BY <1>0, <3>2 DEF InitFirst, Has
    <3> QED BY <1>2, <3>1, <3>3 DEF Gone
  <2>8. FinalOut(n, s)' BY <1>2, <2>0, <2>6, <2>7 DEF SessionOn, FinalOut
  <2>9. Erasable(n, s)'
    <3> SUFFICES ASSUME n \notin lossy, NEW i \in 1 .. L - 1,
                        Is(toNode'[n][i], "delete_object", s), ~Gone(n, s)'
                 PROVE  Before(n, "commit_finalize", s, i - 1)'
      BY <1>1 DEF Erasable
    <3>1. i + 1 \in 1 .. L /\ Is(toNode[n][i + 1], "delete_object", s) /\ (i + 1) - 1 = i
      <4>1. L \in Nat /\ i \in Nat /\ i <= L - 1 BY <1>1
      <4>2. i + 1 \in 1 .. L /\ (i + 1) - 1 = i BY <4>1
      <4>3. toNode'[n][i] = toNode[n][i + 1] BY <1>1
      <4> QED BY <4>2, <4>3
    <3>2. Before(n, "commit_finalize", s, i)
      <4>1. Erasable(n, s) /\ ~Gone(n, s) BY <2>0, <2>6 DEF SessionOn
      <4>2. PICK q : q = i + 1 OBVIOUS
      <4>3. q \in 1 .. Len(toNode[n]) /\ Is(toNode[n][q], "delete_object", s) /\ q - 1 = i
        BY <3>1, <4>2 DEF L
      <4>4. Before(n, "commit_finalize", s, q - 1) BY <4>1, <4>3 DEF Erasable
      <4> QED BY <4>3, <4>4
    <3>3. PICK k \in 1 .. i : Is(toNode[n][k], "commit_finalize", s) BY <3>2 DEF Before
    <3>4. k # 1 BY <1>1, <2>7, <3>3
    <3>5. k - 1 \in 1 .. i - 1 /\ k - 1 \in 1 .. L - 1 /\ (k - 1) + 1 = k BY <1>1, <3>4
    <3>6. toNode'[n][k - 1] = toNode[n][k] BY <1>1, <3>5
    <3> QED BY <3>3, <3>5, <3>6 DEF Before
  <2>10. Erased(n, s)'
    <3> SUFFICES ASSUME n \notin lossy, Aborted(s)
                 PROVE  /\ s \in stored'[n] => Has(toNode'[n], "delete_object", s)
                        /\ \A k \in 1 .. L - 1 : Is(toNode'[n][k], "commit_finalize", s)
                             => \E j \in k + 1 .. L - 1 : Is(toNode'[n][j], "delete_object", s)
      BY <1>1, <2>0 DEF Erased
    <3>1. /\ s \in stored[n] => Has(toNode[n], "delete_object", s)
          /\ \A k \in 1 .. L : Is(toNode[n][k], "commit_finalize", s)
               => \E j \in k + 1 .. L : Is(toNode[n][j], "delete_object", s)
      BY <2>0 DEF SessionOn, Erased, L
    <3>2. ASSUME NEW k \in 1 .. L, Is(toNode[n][k], "commit_finalize", s)
          PROVE  \E j \in k .. L - 1 : Is(toNode'[n][j], "delete_object", s)
      <4>1. PICK j \in k + 1 .. L : Is(toNode[n][j], "delete_object", s) BY <3>1, <3>2
      <4>2. j - 1 \in k .. L - 1 /\ j - 1 \in 1 .. L - 1 /\ (j - 1) + 1 = j BY <1>1
      <4>3. toNode'[n][j - 1] = toNode[n][j] BY <1>1, <4>2
      <4> QED BY <4>1, <4>2, <4>3
    <3>3. ASSUME NEW k \in 1 .. L - 1, Is(toNode'[n][k], "commit_finalize", s)
          PROVE  \E j \in k + 1 .. L - 1 : Is(toNode'[n][j], "delete_object", s)
      <4>1. k + 1 \in 1 .. L /\ Is(toNode[n][k + 1], "commit_finalize", s) BY <1>1, <3>3
      <4> QED BY <3>2, <4>1
    <3>4. ASSUME s \in stored'[n] PROVE Has(toNode'[n], "delete_object", s)
      <4>1. CASE Is(f, "commit_finalize", s)
        <5>1. PICK j \in 1 .. L - 1 : Is(toNode'[n][j], "delete_object", s)
          BY <1>1, <3>2, <4>1
        <5> QED BY <1>1, <5>1 DEF Has, Is
      <4>2. CASE ~Is(f, "commit_finalize", s)
        <5>1. s \in stored[n] BY <3>4, <4>2 DEF Is
        <5>2. ~Is(f, "delete_object", s) BY <3>4 DEF Is
        <5> QED BY <1>2, <3>1, <5>1, <5>2
      <4> QED BY <4>1, <4>2
    <3> QED BY <3>3, <3>4
  <2> QED BY <2>2, <2>3, <2>4, <2>5, <2>8, <2>9, <2>10 DEF SessionOn
<1> QED BY <1>3, <1>4, <1>5 DEF NodeView

(* A node replies for one of its sessions. *)
LEMMA RepliedView ==
    ASSUME Typed, NEW n \in Nodes, ServerOn(n), NEW s \in AnySession, On(n, s),
           NEW ok \in BOOLEAN,
           NEW op \in {"chunk_ack", "commit_check_reply", "commit_finalize_reply"},
           Reply(n, op, s, ok), UNCHANGED <<rows, busy, client>>
    PROVE  /\ ServerOn(n)' /\ \A m \in Nodes \ {n} : toServer'[m] = toServer[m]
           /\ \A t \in AnySession : Vouched(n, t)' =>
                Vouched(n, t) \/ (op = "commit_check_reply" /\ t = s /\ ok)
<1> DEFINE f == F(op, s, 0, ok)
           L == Len(toServer[n])
<1>1. f \in FrameType /\ f.op = op /\ f.s = s /\ f.ok = ok BY FrameTyped
<1> HIDE DEF f
<1>2. /\ toServer'[n] = Append(toServer[n], f)
      /\ \A m \in Nodes \ {n} : toServer'[m] = toServer[m]
  BY DEF Reply, Typed, f
<1>3. /\ L \in Nat /\ Len(toServer'[n]) = L + 1 /\ toServer'[n][L + 1] = f
      /\ \A k \in 1 .. L : toServer'[n][k] = toServer[n][k]
      /\ \A k \in 1 .. L + 1 : k \in 1 .. L \/ k = L + 1
  <2>1. toServer[n] \in Seq(FrameType) BY TypedQueues
  <2> QED BY <1>1, <1>2, <2>1
<1>4. ServerOn(n)'
  <2>1. \A t : On(n, t)' <=> On(n, t) BY DEF On, Exists, Row
  <2>2. \A k \in 1 .. L + 1 : On(n, toServer'[n][k].s)
    BY <1>1, <1>3 DEF ServerOn
  <2> QED BY <1>3, <2>1, <2>2 DEF ServerOn
<1>5. ASSUME NEW t \in AnySession, Vouched(n, t)'
      PROVE  Vouched(n, t) \/ (op = "commit_check_reply" /\ t = s /\ ok)
  <2>1. MayFinalize(t) /\ (Checking(t)' <=> Checking(t)) /\ busy' = busy
    BY <1>5 DEF Vouched, MayFinalize, Checking
  <2>2. Vouches(n, t)' => Vouches(n, t) \/ (op = "commit_check_reply" /\ t = s /\ ok)
    BY <1>1, <1>3 DEF Vouches
  <2> QED BY <1>5, <2>1, <2>2 DEF Vouched
<1> QED BY <1>2, <1>4, <1>5

(* The other nodes do not notice. *)
LEMMA OthersView ==
    ASSUME AtomicInv, MoreTyped, UNCHANGED <<rows, busy, client, lossy>>,
           NEW m \in Nodes, NodeView(m), SameNode(m), toServer'[m] = toServer[m]
    PROVE  NodeView(m)'
<1>1. Typed /\ OneHandler BY DEF AtomicInv, Base
<1>2. RowsKept /\ FewerToFinalize BY DEF RowsKept, Exists, Row, FewerToFinalize, MayFinalize
<1>3. ServerOn(m)' BY DEF NodeView, Addressed, ServerOn, On, Exists, Row
<1>4. \A t \in AnySession : /\ Vouched(m, t)' => Vouched(m, t)
                            /\ Finalizing(t)' => Finalizing(t)
                            /\ Aborted(t)' => Aborted(t)
  BY DEF Vouched, Vouches, MayFinalize, Checking, Finalizing, Aborted, Exists, Row
<1> QED BY <1>1, <1>2, <1>3, <1>4, SameView

(* The node that works on a frame for a session it has *)
LEMMA HeadRight ==
    ASSUME Typed, NEW n \in Nodes, NodeView(n), NEW op, Got(n, op), NEW f, f = Head(toNode[n])
    PROVE  f.s \in AnySession /\ On(n, f.s) /\ Right(n, f) /\ f.chunk \in Nat
<1>1. f \in FrameType /\ f = toNode[n][1] /\ 1 \in 1 .. Len(toNode[n]) BY HeadTaken
<1> QED BY <1>1 DEF FrameType, NodeView, Addressed, QueueRight, Right

LEMMA InitSessionView ==
    ASSUME AtomicInv, MoreTyped, NEW n \in Nodes, \A m \in Nodes : NodeView(m),
           NodeInitSession(n)
    PROVE  \A m \in Nodes : NodeView(m)'
<1>0. Typed /\ NodeView(n) BY DEF AtomicInv, Base
<1>1. /\ Got(n, "init_session") /\ open' = [open EXCEPT ![n] = @ \cup {Head(toNode[n]).s}]
      /\ UNCHANGED <<rows, busy, client, toServer, tmp, stored, lossy>>
  BY DEF NodeInitSession, dbVars, history
<1>2. PICK f : f = Head(toNode[n]) OBVIOUS
<1>3. /\ Len(toNode[n]) \in Nat \ {0} /\ f \in FrameType /\ f.op = "init_session"
      /\ f = toNode[n][1] /\ 1 \in 1 .. Len(toNode[n])
      /\ Len(toNode'[n]) = Len(toNode[n]) - 1
      /\ \A k \in 1 .. Len(toNode[n]) - 1 : toNode'[n][k] = toNode[n][k + 1]
      /\ \A m \in Nodes \ {n} : toNode'[m] = toNode[m]
  BY <1>0, <1>1, <1>2, HeadTaken
<1>4. f.s \in AnySession /\ On(n, f.s) BY <1>0, <1>1, <1>2, HeadRight
<1>5. /\ open'[n] = open[n] \cup {f.s} /\ \A m \in Nodes \ {n} : open'[m] = open[m]
  BY <1>1, <1>2 DEF MoreTyped
<1>6. f.s \notin stored[n] BY <1>0, <1>3 DEF NodeView, InitFirst
<1>7. \A t : (HasTmp(n, t)' <=> HasTmp(n, t)) /\ (On(n, t)' <=> On(n, t))
  BY <1>1 DEF HasTmp, On, Exists, Row
<1>8. ServerOn(n)' BY <1>0, <1>1, <1>7 DEF NodeView, Addressed, ServerOn
<1>9. FilesRight(n)'
  <2>1. FilesRight(n) BY <1>0 DEF NodeView, Addressed
  <2>2. \A t : Row(t)' = Row(t) BY <1>1 DEF Row
  <2> QED BY <1>1, <1>4, <1>5, <1>7, <2>1, <2>2 DEF FilesRight
<1>10. StoredClean(n, f.s)' BY <1>1, <1>6 DEF StoredClean
<1>11. \A t \in AnySession : Vouched(n, t)' => Vouched(n, t)
  BY <1>1 DEF Vouched, Vouches, MayFinalize, Checking
<1>12. NodeView(n)'
  BY <1>0, <1>1, <1>3, <1>4, <1>5, <1>6, <1>7, <1>8, <1>9, <1>10, <1>11, ShiftedView
<1>13. ASSUME NEW m \in Nodes \ {n} PROVE NodeView(m)'
  <2>1. NodeView(m) /\ SameNode(m) /\ toServer'[m] = toServer[m]
    BY <1>1, <1>3, <1>5 DEF SameNode
  <2> QED BY <1>1, <2>1, OthersView
<1> QED BY <1>12, <1>13

LEMMA DataView ==
    ASSUME AtomicInv, MoreTyped, NEW n \in Nodes, \A m \in Nodes : NodeView(m), NodeData(n)
    PROVE  \A m \in Nodes : NodeView(m)'
<1>0. Typed /\ NodeView(n) BY DEF AtomicInv, Base
<1>2. PICK f : f = Head(toNode[n]) OBVIOUS
<1>1. /\ Got(n, "data") /\ Reply(n, "chunk_ack", f.s, TRUE)
      /\ \/ f.s \in open[n] /\ tmp' = [tmp EXCEPT ![n] = @ \cup {<<f.s, f.chunk>>}]
         \/ tmp' = tmp
      /\ UNCHANGED <<rows, busy, client, open, stored, lossy>>
  BY <1>2 DEF NodeData, dbVars
<1>3. /\ Len(toNode[n]) \in Nat \ {0} /\ f \in FrameType /\ f.op = "data"
      /\ f = toNode[n][1] /\ 1 \in 1 .. Len(toNode[n])
      /\ Len(toNode'[n]) = Len(toNode[n]) - 1
      /\ \A k \in 1 .. Len(toNode[n]) - 1 : toNode'[n][k] = toNode[n][k + 1]
      /\ \A m \in Nodes \ {n} : toNode'[m] = toNode[m]
  BY <1>0, <1>1, <1>2, HeadTaken
<1>4. f.s \in AnySession /\ On(n, f.s) /\ Right(n, f) BY <1>0, <1>1, <1>2, HeadRight
<1>5. /\ tmp'[n] = tmp[n] \/ (f.s \in open[n] /\ tmp'[n] = tmp[n] \cup {<<f.s, f.chunk>>})
      /\ \A m \in Nodes \ {n} : tmp'[m] = tmp[m]
  BY <1>1 DEF MoreTyped
<1>6. /\ ServerOn(n)' /\ \A m \in Nodes \ {n} : toServer'[m] = toServer[m]
      /\ \A t \in AnySession : Vouched(n, t)' => Vouched(n, t)
  <2>1. ServerOn(n) BY <1>0 DEF NodeView, Addressed
  <2> QED BY <1>0, <1>1, <1>4, <2>1, RepliedView
<1>7. \A t : On(n, t)' <=> On(n, t) BY <1>1 DEF On, Exists, Row
<1>8. \A t \in AnySession \ {f.s} : /\ HasTmp(n, t)' <=> HasTmp(n, t)
                                    /\ Chunks(t) \subseteq tmp[n] => Chunks(t) \subseteq tmp'[n]
  BY <1>5 DEF HasTmp
<1>9. FilesRight(n)'
  <2>1. FilesRight(n) BY <1>0 DEF NodeView, Addressed
  <2>2. \A t : Row(t)' = Row(t) BY <1>1 DEF Row
  <2>3. \A x \in tmp'[n] : On(n, x[1]) /\ x[2] \in 1 .. Row(x[1]).size
    BY <1>3, <1>4, <1>5, <2>1 DEF FilesRight, Right
  <2> QED BY <1>1, <1>7, <2>1, <2>2, <2>3 DEF FilesRight
<1>10. f.s \in stored[n] => f.s \notin open[n] /\ ~HasTmp(n, f.s)
  BY <1>0, <1>4 DEF NodeView, SessionOn, StoredClean
<1>11. StoredClean(n, f.s)' BY <1>1, <1>5, <1>10 DEF StoredClean, HasTmp
<1>12. HasTmp(n, f.s)' => HasTmp(n, f.s) \/ f.s \in open[n] BY <1>5 DEF HasTmp
<1>13. tmp[n] \subseteq tmp'[n] BY <1>5
<1>14. NodeView(n)'
  BY <1>0, <1>1, <1>3, <1>6, <1>8, <1>9, <1>11, <1>12, <1>13, ShiftedView
<1>15. ASSUME NEW m \in Nodes \ {n} PROVE NodeView(m)'
  <2>1. NodeView(m) /\ SameNode(m) /\ toServer'[m] = toServer[m]
    BY <1>1, <1>3, <1>5, <1>6 DEF SameNode
  <2> QED BY <1>1, <2>1, OthersView
<1> QED BY <1>14, <1>15

LEMMA CommitCheckView ==
    ASSUME AtomicInv, MoreTyped, NEW n \in Nodes, \A m \in Nodes : NodeView(m),
           NodeCommitCheck(n)
    PROVE  \A m \in Nodes : NodeView(m)'
<1>0. Typed /\ NodeView(n) BY DEF AtomicInv, Base
<1>2. PICK f : f = Head(toNode[n]) OBVIOUS
<1>a. PICK ok \in BOOLEAN : ok <=> (f.s \in open[n] => Chunks(f.s) \subseteq tmp[n]) OBVIOUS
<1>1. /\ Got(n, "commit_check") /\ Reply(n, "commit_check_reply", f.s, ok)
      /\ UNCHANGED <<rows, busy, client, open, tmp, stored, lossy>>
  <2>1. ok = (f.s \in open[n] => Chunks(f.s) \subseteq tmp[n]) BY <1>a
  <2> QED BY <1>2, <2>1 DEF NodeCommitCheck, dbVars, nodeVars, history
<1>3. /\ Len(toNode[n]) \in Nat \ {0} /\ f \in FrameType /\ f.op = "commit_check"
      /\ f = toNode[n][1] /\ 1 \in 1 .. Len(toNode[n])
      /\ Len(toNode'[n]) = Len(toNode[n]) - 1
      /\ \A k \in 1 .. Len(toNode[n]) - 1 : toNode'[n][k] = toNode[n][k + 1]
      /\ \A m \in Nodes \ {n} : toNode'[m] = toNode[m]
  BY <1>0, <1>1, <1>2, HeadTaken
<1>4. f.s \in AnySession /\ On(n, f.s) BY <1>0, <1>1, <1>2, HeadRight
<1>6. /\ ServerOn(n)' /\ \A m \in Nodes \ {n} : toServer'[m] = toServer[m]
      /\ \A t \in AnySession : Vouched(n, t)' => Vouched(n, t) \/ (t = f.s /\ ok)
  <2>1. ServerOn(n) BY <1>0 DEF NodeView, Addressed
  <2> QED BY <1>0, <1>1, <1>4, <2>1, RepliedView
<1>7. \A t : (HasTmp(n, t)' <=> HasTmp(n, t)) /\ (On(n, t)' <=> On(n, t)) /\ Row(t)' = Row(t)
  BY <1>1 DEF HasTmp, On, Exists, Row
<1>9. FilesRight(n)' BY <1>0, <1>1, <1>7 DEF NodeView, Addressed, FilesRight
<1>11. StoredClean(n, f.s)'
  BY <1>0, <1>1, <1>4, <1>7 DEF NodeView, SessionOn, StoredClean
<1>12. ASSUME NEW t \in AnySession, Vouched(n, t)', n \notin lossy
       PROVE  \/ Vouched(n, t)
              \/ t = f.s /\ t \in open[n] /\ Chunks(t) \subseteq tmp[n]
  <2> SUFFICES ASSUME t = f.s, ok PROVE t \in open[n] /\ Chunks(t) \subseteq tmp[n]
    BY <1>6, <1>12
  <2>1. MayFinalize(t) BY <1>1, <1>12 DEF Vouched, MayFinalize
  <2>2. t \in open[n] \/ Has(toNode[n], "init_session", t)
    BY <1>0, <1>4, <1>12, <2>1 DEF NodeView, SessionOn, Joined
  <2>3. ~Has(toNode[n], "init_session", t)
    <3> SUFFICES ASSUME NEW k \in 1 .. Len(toNode[n]), toNode[n][k].op = "init_session",
                        toNode[n][k].s = t
                 PROVE  FALSE
      BY DEF Has
    <3>1. k # 1 BY <1>3
    <3>2. 1 \in 1 .. k - 1 BY <1>3, <3>1
    <3> QED BY <1>0, <1>3, <3>2 DEF NodeView, InitFirst
  <2> QED BY <1>a, <2>2, <2>3
<1>13. \A t \in AnySession \ {f.s} :
          /\ t \in open'[n] <=> t \in open[n]
          /\ t \in stored'[n] <=> t \in stored[n]
          /\ HasTmp(n, t)' <=> HasTmp(n, t)
          /\ Chunks(t) \subseteq tmp[n] => Chunks(t) \subseteq tmp'[n]
  BY <1>1, <1>7
<1>14. NodeView(n)'
  BY <1>0, <1>1, <1>3, <1>6, <1>7, <1>9, <1>11, <1>12, <1>13, ShiftedView
<1>15. ASSUME NEW m \in Nodes \ {n} PROVE NodeView(m)'
  <2>1. NodeView(m) /\ SameNode(m) /\ toServer'[m] = toServer[m]
    BY <1>1, <1>3, <1>6 DEF SameNode
  <2> QED BY <1>1, <2>1, OthersView
<1> QED BY <1>14, <1>15

LEMMA CommitFinalizeView ==
    ASSUME AtomicInv, MoreTyped, NEW n \in Nodes, \A m \in Nodes : NodeView(m),
           NodeCommitFinalize(n)
    PROVE  \A m \in Nodes : NodeView(m)'
<1>0. Typed /\ NodeView(n) BY DEF AtomicInv, Base
<1>2. PICK f : f = Head(toNode[n]) OBVIOUS
<1>a. PICK ok \in BOOLEAN, X \in SUBSET ({f.s} \X Int) : Finalized(n, f.s, ok, X)
  BY <1>2, FinalizeEnds
<1>1. /\ Got(n, "commit_finalize") /\ Reply(n, "commit_finalize_reply", f.s, ok)
      /\ open' = [open EXCEPT ![n] = @ \ {f.s}]
      /\ stored' = IF ok THEN [stored EXCEPT ![n] = @ \cup {f.s}] ELSE stored
      /\ UNCHANGED tmp \/ tmp' = [tmp EXCEPT ![n] = @ \ X]
      /\ ok => f.s \in open[n] /\ X = Chunks(f.s) /\ tmp' = [tmp EXCEPT ![n] = @ \ X]
      /\ UNCHANGED <<rows, busy, client, lossy>>
  BY <1>a DEF Finalized, dbVars
<1>3. /\ Len(toNode[n]) \in Nat \ {0} /\ f \in FrameType /\ f.op = "commit_finalize"
      /\ f = toNode[n][1] /\ 1 \in 1 .. Len(toNode[n])
      /\ Len(toNode'[n]) = Len(toNode[n]) - 1
      /\ \A k \in 1 .. Len(toNode[n]) - 1 : toNode'[n][k] = toNode[n][k + 1]
      /\ \A m \in Nodes \ {n} : toNode'[m] = toNode[m]
  BY <1>0, <1>1, <1>2, HeadTaken
<1>4. f.s \in AnySession /\ On(n, f.s) BY <1>0, <1>1, <1>2, HeadRight
<1>5. /\ open'[n] = open[n] \ {f.s}
      /\ \/ ok /\ stored'[n] = stored[n] \cup {f.s} /\ tmp'[n] = tmp[n] \ Chunks(f.s)
         \/ ~ok /\ stored'[n] = stored[n] /\ (tmp'[n] = tmp[n] \/ tmp'[n] = tmp[n] \ X)
      /\ \A m \in Nodes \ {n} : open'[m] = open[m] /\ stored'[m] = stored[m] /\ tmp'[m] = tmp[m]
  <2>1. open'[n] = open[n] \ {f.s} /\ \A m \in Nodes \ {n} : open'[m] = open[m]
    BY <1>1 DEF MoreTyped
  <2>2. /\ stored'[n] = IF ok THEN stored[n] \cup {f.s} ELSE stored[n]
        /\ \A m \in Nodes \ {n} : stored'[m] = stored[m]
    BY <1>0, <1>1 DEF Typed
  <2>3. /\ tmp'[n] = tmp[n] \/ tmp'[n] = tmp[n] \ X
        /\ \A m \in Nodes \ {n} : tmp'[m] = tmp[m]
    BY <1>1 DEF MoreTyped
  <2>4. ok => tmp'[n] = tmp[n] \ Chunks(f.s) BY <1>1 DEF MoreTyped
  <2> QED BY <2>1, <2>2, <2>3, <2>4
<1>6. /\ ServerOn(n)' /\ \A m \in Nodes \ {n} : toServer'[m] = toServer[m]
      /\ \A t \in AnySession : Vouched(n, t)' => Vouched(n, t)
  <2>1. ServerOn(n) BY <1>0 DEF NodeView, Addressed
  <2> QED BY <1>0, <1>1, <1>4, <2>1, RepliedView
<1>7. \A t : (On(n, t)' <=> On(n, t)) /\ Row(t)' = Row(t)
  BY <1>1 DEF On, Exists, Row
<1>8. FilesRight(n) BY <1>0 DEF NodeView, Addressed
<1>9. FilesRight(n)'
  <2>1. \A s \in stored'[n] : On(n, s) BY <1>4, <1>5, <1>8 DEF FilesRight
  <2>2. \A s \in open'[n] : On(n, s) BY <1>5, <1>8 DEF FilesRight
  <2>3. \A x \in tmp'[n] : On(n, x[1]) /\ x[2] \in 1 .. Row(x[1]).size
    BY <1>5, <1>8 DEF FilesRight
  <2> QED BY <1>7, <2>1, <2>2, <2>3 DEF FilesRight
<1>10. ok => ~HasTmp(n, f.s)'
  <2> SUFFICES ASSUME ok, NEW x \in tmp[n], x[1] = f.s, x \notin Chunks(f.s) PROVE FALSE
    BY <1>5 DEF HasTmp
  <2>1. x = <<f.s, x[2]>> /\ x[2] \in 1 .. Row(f.s).size
    BY <1>8 DEF FilesRight, MoreTyped
  <2> QED BY <2>1 DEF Chunks
<1>11. StoredClean(n, f.s)'
  <2>1. f.s \in stored[n] => ~HasTmp(n, f.s)
    BY <1>0, <1>4 DEF NodeView, SessionOn, StoredClean
  <2>2. ~ok => (HasTmp(n, f.s)' => HasTmp(n, f.s)) BY <1>5 DEF HasTmp
  <2> QED BY <1>5, <1>10, <2>1, <2>2 DEF StoredClean
<1>13. \A t \in AnySession \ {f.s} :
          /\ t \in open'[n] <=> t \in open[n]
          /\ t \in stored'[n] <=> t \in stored[n]
          /\ HasTmp(n, t)' <=> HasTmp(n, t)
          /\ Chunks(t) \subseteq tmp[n] => Chunks(t) \subseteq tmp'[n]
  <2>1. \A x : x \in Chunks(f.s) \/ x \in X => x[1] = f.s BY DEF Chunks
  <2>2. ASSUME NEW t \in AnySession \ {f.s}
        PROVE  /\ HasTmp(n, t)' <=> HasTmp(n, t)
               /\ Chunks(t) \subseteq tmp[n] => Chunks(t) \subseteq tmp'[n]
    <3>1. \A x \in Chunks(t) : x[1] = t BY DEF Chunks
    <3> QED BY <1>5, <2>1, <3>1 DEF HasTmp
  <2> QED BY <1>5, <2>2
<1>14. f.s \notin open'[n] /\ (HasTmp(n, f.s)' => HasTmp(n, f.s))
  BY <1>5 DEF HasTmp
<1>15. NodeView(n)'
  BY <1>0, <1>1, <1>3, <1>6, <1>9, <1>11, <1>13, <1>14, ShiftedView
<1>16. ASSUME NEW m \in Nodes \ {n} PROVE NodeView(m)'
  <2>1. NodeView(m) /\ SameNode(m) /\ toServer'[m] = toServer[m]
    BY <1>3, <1>5, <1>6 DEF SameNode
  <2> QED BY <1>1, <2>1, OthersView
<1> QED BY <1>15, <1>16

LEMMA DeleteObjectView ==
    ASSUME AtomicInv, MoreTyped, NEW n \in Nodes, \A m \in Nodes : NodeView(m),
           NodeDeleteObject(n)
    PROVE  \A m \in Nodes : NodeView(m)'
<1>0. Typed /\ NodeView(n) BY DEF AtomicInv, Base
<1>2. PICK f : f = Head(toNode[n]) OBVIOUS
<1>1. /\ Got(n, "delete_object") /\ stored' = [stored EXCEPT ![n] = @ \ {f.s}]
      /\ UNCHANGED <<rows, busy, client, toServer, open, tmp, lossy>>
  BY <1>2 DEF NodeDeleteObject, dbVars, history
<1>3. /\ Len(toNode[n]) \in Nat \ {0} /\ f \in FrameType /\ f.op = "delete_object"
      /\ f = toNode[n][1] /\ 1 \in 1 .. Len(toNode[n])
      /\ Len(toNode'[n]) = Len(toNode[n]) - 1
      /\ \A k \in 1 .. Len(toNode[n]) - 1 : toNode'[n][k] = toNode[n][k + 1]
      /\ \A m \in Nodes \ {n} : toNode'[m] = toNode[m]
  BY <1>0, <1>1, <1>2, HeadTaken
<1>4. f.s \in AnySession BY <1>0, <1>1, <1>2, HeadRight
<1>5. stored'[n] = stored[n] \ {f.s} /\ \A m \in Nodes \ {n} : stored'[m] = stored[m]
  BY <1>1 DEF Typed, AtomicInv, Base
<1>7. \A t : (HasTmp(n, t)' <=> HasTmp(n, t)) /\ (On(n, t)' <=> On(n, t)) /\ Row(t)' = Row(t)
  BY <1>1 DEF HasTmp, On, Exists, Row
<1>8. ServerOn(n)' BY <1>0, <1>1, <1>7 DEF NodeView, Addressed, ServerOn
<1>9. FilesRight(n)' BY <1>0, <1>1, <1>5, <1>7 DEF NodeView, Addressed, FilesRight
<1>11. StoredClean(n, f.s)' BY <1>5 DEF StoredClean
<1>12. \A t \in AnySession : Vouched(n, t)' => Vouched(n, t)
  BY <1>1 DEF Vouched, Vouches, MayFinalize, Checking
<1>13. \A t \in AnySession \ {f.s} :
          /\ t \in open'[n] <=> t \in open[n]
          /\ t \in stored'[n] <=> t \in stored[n]
          /\ HasTmp(n, t)' <=> HasTmp(n, t)
          /\ Chunks(t) \subseteq tmp[n] => Chunks(t) \subseteq tmp'[n]
  BY <1>1, <1>5, <1>7
<1>14. f.s \notin stored'[n] /\ (HasTmp(n, f.s)' => HasTmp(n, f.s)) BY <1>5, <1>7
<1>15. NodeView(n)'
  BY <1>0, <1>1, <1>3, <1>8, <1>9, <1>11, <1>12, <1>13, <1>14, ShiftedView
<1>16. ASSUME NEW m \in Nodes \ {n} PROVE NodeView(m)'
  <2>1. NodeView(m) /\ SameNode(m) /\ toServer'[m] = toServer[m]
    BY <1>1, <1>3, <1>5 DEF SameNode
  <2> QED BY <1>1, <2>1, OthersView
<1> QED BY <1>15, <1>16

LEMMA NodeStepView ==
    ASSUME AtomicInv, MoreTyped, NEW n \in Nodes, \A m \in Nodes : NodeView(m), NodeNext(n)
    PROVE  \A m \in Nodes : NodeView(m)'
BY InitSessionView, DataView, CommitCheckView, CommitFinalizeView, DeleteObjectView
   DEF NodeNext

-----------------------------------------------------------------------------
(* The steps of the server and from outside, as the nodes see them *)

LEMMA StillRows ==
    ASSUME UNCHANGED rows
    PROVE  RowsKept /\ \A t \in AnySession : Aborted(t)' => Aborted(t)
BY DEF RowsKept, Exists, Row, Aborted

LEMMA EndedRows ==
    ASSUME Typed, NEW s \in AnySession, Exists(s), NEW status \in {"COMMITTED", "ABORTED"},
           rows' = [rows EXCEPT ![s[1]][s[2]].status = status]
    PROVE  /\ RowsKept
           /\ \A t \in AnySession : Aborted(t)' => Aborted(t) \/ (status = "ABORTED" /\ t = s)
<1>1. \A t \in AnySession :
        /\ Exists(t)' <=> Exists(t)
        /\ Exists(t) => /\ Row(t)'.nodes = Row(t).nodes
                        /\ Row(t)'.size = Row(t).size
                        /\ Row(t)'.status = IF t = s THEN status ELSE Row(t).status
  BY RowEnded
<1>2. RowsKept BY <1>1 DEF RowsKept
<1>3. \A t \in AnySession : Aborted(t)' => Aborted(t) \/ (status = "ABORTED" /\ t = s)
  BY <1>1 DEF Aborted
<1> QED BY <1>2, <1>3

LEMMA StillView ==
    ASSUME AtomicInv, MoreTyped, NEW n \in Nodes, NodeView(n), Still
    PROVE  NodeView(n)'
<1>1. Typed /\ OneHandler BY DEF AtomicInv, Base
<1>2. /\ UNCHANGED <<rows, open, tmp, stored, lossy, toNode>> /\ TookFrames
      /\ FewerToFinalize /\ FewerVouched /\ FewerFinalizing
  BY DEF Still
<1>3. RowsKept /\ \A t \in AnySession : Aborted(t)' => Aborted(t) BY <1>2, StillRows
<1>4. ServerOn(n)' BY <1>1, <1>2, <1>3, TookAddressed DEF NodeView, Addressed
<1>5. SameNode(n) BY <1>2 DEF SameNode
<1>6. \A t \in AnySession : (Vouched(n, t)' => Vouched(n, t)) /\ (Finalizing(t)' => Finalizing(t))
  BY <1>2 DEF FewerVouched, FewerFinalizing
<1> QED BY <1>1, <1>2, <1>3, <1>4, <1>5, <1>6, SameView

LEMMA LosesView ==
    ASSUME AtomicInv, MoreTyped, NEW n \in Nodes, NodeView(n), Loses
    PROVE  NodeView(n)'
<1>1. Typed /\ OneHandler BY DEF AtomicInv, Base
<1>2. /\ UNCHANGED <<rows, tmp, stored>> /\ TookFrames /\ lossy \subseteq lossy'
      /\ FewerToFinalize /\ FewerVouched /\ FewerFinalizing
      /\ toNode'[n] = toNode[n] \/ (n \in lossy' /\ toNode'[n] = <<>>)
      /\ open'[n] = open[n] \/ (n \in lossy' /\ open'[n] = {})
  BY DEF Loses
<1>3. RowsKept /\ \A t \in AnySession : Aborted(t)' => Aborted(t) BY <1>2, StillRows
<1>4. ServerOn(n)' BY <1>1, <1>2, <1>3, TookAddressed DEF NodeView, Addressed
<1>5. CASE n \in lossy' BY <1>1, <1>2, <1>3, <1>4, <1>5, LostView
<1>6. CASE n \notin lossy'
  <2>1. SameNode(n) BY <1>2, <1>6 DEF SameNode
  <2>2. \A t \in AnySession : (Vouched(n, t)' => Vouched(n, t)) /\ (Finalizing(t)' => Finalizing(t))
    BY <1>2 DEF FewerVouched, FewerFinalizing
  <2> QED BY <1>1, <1>2, <1>3, <1>4, <1>6, <2>1, <2>2, SameView
<1> QED BY <1>5, <1>6

LEMMA SentToNode ==
    ASSUME NEW n \in Nodes, NEW ns, NEW f, toNode' = SentTo(ns, f)
    PROVE  /\ n \in ns => toNode'[n] = Append(toNode[n], f)
           /\ n \notin ns => toNode'[n] = toNode[n]
BY DEF SentTo

LEMMA AsksView ==
    ASSUME AtomicInv, MoreTyped, NEW n \in Nodes, NodeView(n), NEW s, NEW f, Asks(s, f)
    PROVE  NodeView(n)'
<1>1. Typed /\ OneHandler BY DEF AtomicInv, Base
<1>2. /\ s \in AnySession /\ Exists(s) /\ f \in FrameType /\ f.s = s
      /\ f.op \in {"data", "commit_check"}
      /\ f.op = "data" => f.chunk \in 1 .. Row(s).size
      /\ toNode' = SentTo(Row(s).nodes, f)
      /\ UNCHANGED <<rows, open, tmp, stored, lossy, toServer>>
      /\ FewerToFinalize /\ FewerVouched /\ FewerFinalizing
  BY DEF Asks
<1>3. RowsKept /\ \A t \in AnySession : Aborted(t)' => Aborted(t) BY <1>2, StillRows
<1>4. ServerOn(n)'
  <2>1. TookFrames BY <1>2 DEF TookFrames
  <2> QED BY <1>1, <1>3, <2>1, TookAddressed DEF NodeView, Addressed
<1>5. /\ open'[n] = open[n] /\ tmp'[n] = tmp[n] /\ stored'[n] = stored[n]
      /\ n \in lossy => n \in lossy'
  BY <1>2
<1>6. \A t \in AnySession : (Vouched(n, t)' => Vouched(n, t)) /\ (Finalizing(t)' => Finalizing(t))
  BY <1>2 DEF FewerVouched, FewerFinalizing
<1>7. CASE n \in Row(s).nodes
  <2>1. Right(n, f) BY <1>2, <1>7 DEF Right, On
  <2>2. toNode'[n] = Append(toNode[n], f) BY <1>2, <1>7, SentToNode
  <2> QED BY <1>1, <1>2, <1>3, <1>4, <1>5, <1>6, <2>1, <2>2, AppendedView
<1>8. CASE n \notin Row(s).nodes
  <2>1. SameNode(n) BY <1>2, <1>5, <1>8, SentToNode DEF SameNode
  <2> QED BY <1>1, <1>2, <1>3, <1>4, <1>5, <1>6, <2>1, SameView
<1> QED BY <1>7, <1>8

LEMMA BeginsRoundView ==
    ASSUME AtomicInv, MoreTyped, NEW n \in Nodes, NodeView(n), NEW s, BeginsRound(s)
    PROVE  NodeView(n)'
<1>1. Typed /\ OneHandler BY DEF AtomicInv, Base
<1>2. /\ s \in AnySession /\ Exists(s) /\ MayFinalize(s)
      /\ \A m \in Row(s).nodes : Vouched(m, s)
      /\ toNode' = SentTo(Row(s).nodes, F("commit_finalize", s, 0, TRUE))
      /\ UNCHANGED <<rows, open, tmp, stored, lossy>> /\ TookFrames
      /\ FewerToFinalize /\ FewerVouched /\ \A t \in AnySession : Finalizing(t)' => t = s
  BY DEF BeginsRound
<1>3. RowsKept /\ \A t \in AnySession : Aborted(t)' => Aborted(t) BY <1>2, StillRows
<1>4. ServerOn(n)' BY <1>1, <1>2, <1>3, TookAddressed DEF NodeView, Addressed
<1>5. /\ open'[n] = open[n] /\ tmp'[n] = tmp[n] /\ stored'[n] = stored[n]
      /\ n \in lossy => n \in lossy'
  BY <1>2
<1>6. \A t \in AnySession : Vouched(n, t)' => Vouched(n, t) BY <1>2 DEF FewerVouched
<1>7. PICK f : f = F("commit_finalize", s, 0, TRUE) OBVIOUS
<1>8. f \in FrameType /\ f.op = "commit_finalize" /\ f.s = s BY <1>2, <1>7 DEF F, FrameType
<1>9. ~Has(toNode[n], "commit_finalize", s) /\ ~Aborted(s)
  BY <1>2 DEF AtomicInv, SessionInv, NothingEnded, Aborted
<1>10. CASE n \in Row(s).nodes
  <2>1. Right(n, f) BY <1>2, <1>8, <1>10 DEF Right, On
  <2>2. toNode'[n] = Append(toNode[n], f) BY <1>2, <1>7, <1>10, SentToNode
  <2>3. Vouched(n, f.s) /\ ~Has(toNode[n], "commit_finalize", f.s) /\ ~Aborted(f.s)
    BY <1>2, <1>8, <1>9, <1>10
  <2>4. /\ f.op # "init_session" /\ f.op # "delete_object"
        /\ \A t \in AnySession : Finalizing(t)'
             => Finalizing(t) \/ (f.op = "commit_finalize" /\ t = f.s)
        /\ \A t \in AnySession : Aborted(t)'
             => Aborted(t) \/ (f.op = "delete_object" /\ t = f.s)
    BY <1>2, <1>3, <1>8
  <2> QED BY <1>1, <1>2, <1>3, <1>4, <1>5, <1>6, <1>8, <2>1, <2>2, <2>3, <2>4, AppendedView
<1>11. CASE n \notin Row(s).nodes
  <2>1. SameNode(n) BY <1>2, <1>5, <1>11, SentToNode DEF SameNode
  <2>2. \A t \in AnySession : Finalizing(t)' => ~On(n, t) BY <1>2, <1>11 DEF On
  <2> QED BY <1>1, <1>2, <1>3, <1>4, <1>5, <1>6, <2>1, <2>2, SameView
<1> QED BY <1>10, <1>11

LEMMA CommitsView ==
    ASSUME AtomicInv, MoreTyped, NEW n \in Nodes, NodeView(n), NEW s, Commits(s)
    PROVE  NodeView(n)'
<1>1. Typed /\ OneHandler BY DEF AtomicInv, Base
<1>2. /\ s \in AnySession /\ Exists(s)
      /\ rows' = [rows EXCEPT ![s[1]][s[2]].status = "COMMITTED"]
      /\ UNCHANGED <<open, tmp, stored, lossy, toNode>> /\ TookFrames
      /\ FewerToFinalize /\ FewerVouched /\ busy' = Idle
  BY DEF Commits
<1>3. RowsKept /\ \A t \in AnySession : Aborted(t)' => Aborted(t) BY <1>1, <1>2, EndedRows
<1>4. ServerOn(n)' BY <1>1, <1>2, <1>3, TookAddressed DEF NodeView, Addressed
<1>5. SameNode(n) BY <1>2 DEF SameNode
<1>6. \A t \in AnySession : (Vouched(n, t)' => Vouched(n, t)) /\ ~Finalizing(t)'
  BY <1>2 DEF FewerVouched, Finalizing
<1> QED BY <1>1, <1>2, <1>3, <1>4, <1>5, <1>6, SameView

LEMMA AbortsView ==
    ASSUME AtomicInv, MoreTyped, NEW n \in Nodes, NodeView(n), NEW s, Aborts(s)
    PROVE  NodeView(n)'
<1>1. Typed /\ OneHandler BY DEF AtomicInv, Base
<1>2. /\ s \in AnySession /\ Exists(s) /\ Finalizing(s)
      /\ UNCHANGED <<open, tmp, stored>> /\ TookFrames
      /\ FewerToFinalize /\ FewerVouched /\ busy' = Idle
  BY DEF Aborts
<1>3. \/ /\ UNCHANGED rows \/ rows' = [rows EXCEPT ![s[1]][s[2]].status = "ABORTED"]
         /\ toNode' = SentTo(Row(s).nodes, F("delete_object", s, 0, TRUE))
         /\ UNCHANGED lossy
      \/ lossy' = lossy \cup Row(s).nodes /\ UNCHANGED <<rows, toNode>>
  BY DEF Aborts
<1>4. /\ RowsKept /\ \A t \in AnySession : Aborted(t)' => Aborted(t) \/ t = s
      /\ UNCHANGED rows => \A t \in AnySession : Aborted(t)' => Aborted(t)
  <2>1. UNCHANGED rows => RowsKept /\ \A t \in AnySession : Aborted(t)' => Aborted(t)
    BY StillRows
  <2> QED BY <1>1, <1>2, <1>3, <2>1, EndedRows
<1>5. ServerOn(n)' BY <1>1, <1>2, <1>4, TookAddressed DEF NodeView, Addressed
<1>6. \A t \in AnySession : (Vouched(n, t)' => Vouched(n, t)) /\ ~Finalizing(t)'
  BY <1>2 DEF FewerVouched, Finalizing
<1>7. /\ open'[n] = open[n] /\ tmp'[n] = tmp[n] /\ stored'[n] = stored[n]
      /\ n \in lossy => n \in lossy'
  BY <1>2, <1>3
<1>8. PICK f : f = F("delete_object", s, 0, TRUE) OBVIOUS
<1>9. f \in FrameType /\ f.op = "delete_object" /\ f.s = s BY <1>2, <1>8 DEF F, FrameType
<1>10. CASE toNode' = toNode /\ UNCHANGED rows
  <2>1. SameNode(n) BY <1>7, <1>10 DEF SameNode
  <2> QED BY <1>1, <1>2, <1>4, <1>5, <1>6, <1>7, <1>10, <2>1, SameView
<1>11. CASE toNode' = SentTo(Row(s).nodes, f)
  <2>1. CASE n \in Row(s).nodes
    <3>1. Right(n, f) BY <1>2, <1>9, <2>1 DEF Right, On
    <3>2. toNode'[n] = Append(toNode[n], f) BY <1>11, <2>1, SentToNode
    <3>3. /\ f.op # "init_session" /\ f.op # "commit_finalize" /\ Finalizing(f.s)
          /\ \A t \in AnySession : Finalizing(t)'
               => Finalizing(t) \/ (f.op = "commit_finalize" /\ t = f.s)
          /\ \A t \in AnySession : Aborted(t)'
               => Aborted(t) \/ (f.op = "delete_object" /\ t = f.s)
      BY <1>2, <1>4, <1>6, <1>9
    <3> QED BY <1>1, <1>2, <1>4, <1>5, <1>6, <1>7, <1>9, <3>1, <3>2, <3>3, AppendedView
  <2>2. CASE n \notin Row(s).nodes
    <3>1. SameNode(n) BY <1>7, <1>11, <2>2, SentToNode DEF SameNode
    <3>2. \A t \in AnySession : Aborted(t)' => Aborted(t) \/ ~On(n, t)
      BY <1>4, <2>2 DEF On
    <3> QED BY <1>1, <1>2, <1>4, <1>5, <1>6, <1>7, <3>1, <3>2, SameView
  <2> QED BY <2>1, <2>2
<1> QED BY <1>3, <1>8, <1>10, <1>11

LEMMA QuietView ==
    ASSUME AtomicInv, MoreTyped, NEW n \in Nodes, NodeView(n), QuietStep
    PROVE  NodeView(n)'
BY StillView, LosesView, AsksView, BeginsRoundView, AbortsView DEF QuietStep

-----------------------------------------------------------------------------
(* An upload begins. *)

(* Each part has its copies, and all of the file is placed, on every node   *)
(* within its room.                                                         *)
Fits(plan, total) ==
    /\ \A i \in 1 .. Len(plan) : Cardinality(plan[i].nodes) = ReplicaCount
    /\ Len(plan) <= total /\ Placed(plan, Len(plan)) = total
    /\ (\A n \in Nodes : reserved[n] <= Capacity[n]) =>
         \A n \in Nodes, d \in 0 .. Len(plan) : OnNode(plan, d, n) <= Capacity[n] - reserved[n]

NewRows(plan, c) ==
    [i \in 1 .. c |-> [size |-> plan[i].size, nodes |-> plan[i].nodes, status |-> "UPLOADING"]]

(* z: one init_session for each of the sessions of u recorded on n *)
Starts(u, plan, c, n, z) ==
    /\ z \in Frames
    /\ \A k \in 1 .. Len(z) : /\ z[k].op = "init_session" /\ z[k].s[1] = u
                              /\ z[k].s[2] \in 1 .. c /\ n \in plan[z[k].s[2]].nodes
    /\ \A i \in 1 .. c : n \in plan[i].nodes => Has(z, "init_session", <<u, i>>)
    /\ \A j, k \in 1 .. Len(z) : z[j].s = z[k].s => j = k

Answered(u, plan, c) ==
    \/ /\ c = Len(plan) /\ Answer(u, "active")
       /\ known' = known \cup {<<u, i>> : i \in 1 .. c}
    \/ Answer(u, "waiting") /\ known' = {}

Opens(u, plan, c, d) ==
    /\ client[u].state = "idle" /\ busy = Idle /\ busy' = Idle
    /\ PlanType(plan) /\ Fits(plan, client[u].size)
    /\ c \in 0 .. Len(plan) /\ d \in c .. Len(plan)
    /\ rows' = [rows EXCEPT ![u] = NewRows(plan, c)]
    /\ reserved' = ReservedUpTo(plan, d)
    /\ \E inits : /\ \A n \in Nodes : Starts(u, plan, c, n, inits[n])
                  /\ toNode' = [n \in Nodes |-> toNode[n] \o inits[n]]
    /\ \E m \in {"none", "UPLOADING"} : /\ multipart' = [multipart EXCEPT ![u] = m]
                                        /\ m = "none" => Len(plan) = 1
    /\ Answered(u, plan, c)
    /\ UNCHANGED <<item, metered, toServer, open, tmp, stored, lossy>>

(* The init_session frames of a node *)
LEMMA InitFramesStart ==
    ASSUME NEW u \in Uploads, NEW plan, NEW c \in Nat, NEW n,
           NEW z \in InitFrames(u, {i \in 1 .. c : n \in plan[i].nodes})
    PROVE  Starts(u, plan, c, n, z)
<1> DEFINE S == {i \in 1 .. c : n \in plan[i].nodes}
           e == Cardinality(S)
<1>1. IsFiniteSet(S) /\ e \in Nat
  <2>1. IsFiniteSet(1 .. c) BY FS_Interval
  <2>2. IsFiniteSet(S) BY <2>1, FS_Subset
  <2> QED BY <2>2, FS_CardinalityType
<1>2. z \in Frames BY InitFramesTyped
<1>3. PICK q \in [1 .. e -> S] :
         /\ z = [k \in 1 .. e |-> F("init_session", <<u, q[k]>>, 0, TRUE)]
         /\ \A j, k \in DOMAIN q : j < k => q[j] < q[k]
  <2>1. z \in {[k \in 1 .. e |-> F("init_session", <<u, q[k]>>, 0, TRUE)] :
                 q \in {q \in [1 .. e -> S] :
                          \A j, k \in DOMAIN q : j < k => q[j] < q[k]}}
    BY Zenon DEF InitFrames
  <2> QED BY <2>1, Zenon
<1> HIDE DEF e
<1>4. \A k \in 1 .. e : q[k] \in S /\ q[k] \in 1 .. c /\ n \in plan[q[k]].nodes
  <2>1. \A i \in S : i \in 1 .. c /\ n \in plan[i].nodes OBVIOUS
  <2>2. \A k \in 1 .. e : q[k] \in S BY Zenon
  <2> QED BY <2>1, <2>2, Zenon
<1>5. \A j, k \in 1 .. e : q[j] = q[k] => j = k
  <2> SUFFICES ASSUME NEW j \in 1 .. e, NEW k \in 1 .. e, q[j] = q[k], j # k PROVE FALSE
    OBVIOUS
  <2>1. j < k \/ k < j BY <1>1
  <2>2. q[j] < q[k] \/ q[k] < q[j] BY <1>3, <2>1
  <2>3. q[j] \in Nat /\ q[k] \in Nat BY <1>4
  <2> QED BY <2>2, <2>3
<1>6. \A i \in S : \E k \in 1 .. e : q[k] = i
  <2>1. q \in Injection(1 .. e, S) BY <1>5 DEF Injection, IsInjective
  <2>2. Cardinality(1 .. e) = e
    <3>1. Cardinality(1 .. e) = IF 1 > e THEN 0 ELSE e - 1 + 1 BY <1>1, FS_Interval
    <3> QED BY <1>1, <3>1
  <2>3. Cardinality(1 .. e) = Cardinality(S) BY <2>2 DEF e
  <2>4. q \in Surjection(1 .. e, S) BY <1>1, <2>1, <2>3, FS_Injection
  <2> QED BY <2>4 DEF Surjection
<1>7. Len(z) = e /\ \A k \in 1 .. e : z[k].op = "init_session" /\ z[k].s = <<u, q[k]>>
  <2>1. DOMAIN z = 1 .. e BY <1>3
  <2>2. Len(z) = e BY <1>1, <1>2, <2>1 DEF Frames
  <2>3. \A k \in 1 .. e : z[k] = F("init_session", <<u, q[k]>>, 0, TRUE) BY <1>3
  <2>4. ASSUME NEW k \in 1 .. e PROVE z[k].op = "init_session" /\ z[k].s = <<u, q[k]>>
    <3>1. PICK t : t = <<u, q[k]>> OBVIOUS
    <3>2. F("init_session", t, 0, TRUE).op = "init_session" /\ F("init_session", t, 0, TRUE).s = t
      BY DEF F
    <3>3. z[k] = F("init_session", t, 0, TRUE) BY <2>3, <3>1
    <3> QED BY <3>1, <3>2, <3>3
  <2> QED BY <2>2, <2>4
<1>8. \A k \in 1 .. e : /\ z[k].op = "init_session" /\ z[k].s[1] = u
                        /\ z[k].s[2] \in 1 .. c /\ n \in plan[z[k].s[2]].nodes
  BY <1>4, <1>7
<1>9. \A i \in 1 .. c : n \in plan[i].nodes => Has(z, "init_session", <<u, i>>)
  <2> SUFFICES ASSUME NEW i \in 1 .. c, n \in plan[i].nodes
               PROVE  Has(z, "init_session", <<u, i>>)
    OBVIOUS
  <2>1. PICK k \in 1 .. e : q[k] = i BY <1>6
  <2> QED BY <1>7, <2>1 DEF Has
<1>10. \A j, k \in 1 .. e : z[j].s = z[k].s => j = k
  <2> SUFFICES ASSUME NEW j \in 1 .. e, NEW k \in 1 .. e, z[j].s = z[k].s PROVE j = k OBVIOUS
  <2>1. <<u, q[j]>> = <<u, q[k]>> BY <1>7
  <2>2. q[j] = q[k] BY <2>1
  <2> QED BY <1>5, <2>2
<1> QED BY <1>2, <1>7, <1>8, <1>9, <1>10 DEF Starts

(* A plan, for the whole file or in parts, fits. *)
LEMMA PlanFits ==
    ASSUME MoreTyped, NEW online \in SUBSET Nodes, NEW size \in Nat \ {0}, NEW free, NEW plan,
           free = [n \in Nodes |-> IF n \in online THEN Free(n) ELSE 0],
           \/ \E K \in SelectedNodes(online, size) : plan = <<[size |-> size, nodes |-> K]>>
           \/ plan \in Plans(size, free)
    PROVE  PlanType(plan) /\ Fits(plan, size)
<1>1. PlanType(plan) BY PlanTyped DEF PlanType
<1>2. CASE \E K \in SelectedNodes(online, size) : plan = <<[size |-> size, nodes |-> K]>>
  <2>1. PICK K \in SelectedNodes(online, size) : plan = <<[size |-> size, nodes |-> K]>>
    BY <1>2
  <2>2. Len(plan) = 1 /\ plan[1].size = size /\ plan[1].nodes = K BY <2>1
  <2>3. Placed(plan, 1) = size
    <3>1. 1 \in 1 .. Len(plan) /\ 1 - 1 = 0 BY <2>2
    <3>2. Placed(plan, 1) = Placed(plan, 0) + size /\ Placed(plan, 0) = 0
      BY <1>1, <2>2, <3>1, PlacedOf
    <3> QED BY <3>2
  <2>4. ASSUME \A n \in Nodes : reserved[n] <= Capacity[n], NEW n \in Nodes, NEW d \in 0 .. 1
        PROVE  OnNode(plan, d, n) <= Capacity[n] - reserved[n]
    <3>1. /\ OnNode(plan, 0, n) = 0
          /\ OnNode(plan, 1, n) = OnNode(plan, 0, n) + (IF n \in K THEN size ELSE 0)
      <4>1. 1 \in 1 .. Len(plan) /\ 1 - 1 = 0 BY <2>2
      <4> QED BY <1>1, <2>2, <4>1, OnNodeOf
    <3>2. n \in K => Capacity[n] - reserved[n] >= size BY DEF SelectedNodes, Free
    <3>3. Capacity[n] \in Nat /\ reserved[n] \in Nat
      BY UploadAssumption DEF MoreTyped
    <3>4. reserved[n] <= Capacity[n] BY <2>4
    <3>5. CASE d = 0 BY <3>1, <3>3, <3>4, <3>5
    <3>6. CASE d = 1 BY <3>1, <3>2, <3>3, <3>4, <3>6
    <3> QED BY <3>5, <3>6
  <2>5. \A i \in 1 .. Len(plan) : Cardinality(plan[i].nodes) = ReplicaCount
    BY <2>2 DEF SelectedNodes
  <2> QED BY <1>1, <2>2, <2>3, <2>4, <2>5 DEF Fits
<1>3. CASE plan \in Plans(size, free)
  <2>1. PICK k \in 1 .. size :
          plan \in [1 .. k -> [size : 1 .. size,
                               nodes : {K \in SUBSET Nodes : Cardinality(K) = ReplicaCount}]]
    BY <1>3 DEF Plans
  <2>2. Len(plan) <= size BY <2>1
  <2>3. Placed(plan, Len(plan)) = size BY <1>3 DEF Plans
  <2>4. ASSUME \A n \in Nodes : reserved[n] <= Capacity[n], NEW n \in Nodes,
               NEW d \in 0 .. Len(plan)
        PROVE  OnNode(plan, d, n) <= Capacity[n] - reserved[n]
    <3>1. \A m \in Nodes : /\ Capacity[m] \in Nat /\ reserved[m] \in Nat
                           /\ reserved[m] <= Capacity[m]
      BY <2>4, UploadAssumption DEF MoreTyped
    <3>2. free \in [Nodes -> Nat] BY <3>1 DEF Free
    <3>3. OnNode(plan, d, n) <= free[n] BY <1>1, <1>3, <3>2, PlanFitsRoom
    <3>4. free[n] <= Capacity[n] - reserved[n] /\ free[n] \in Nat BY <3>1, <3>2 DEF Free
    <3>5. OnNode(plan, d, n) \in Nat BY <1>1, OnNodeOf
    <3> QED BY <3>1, <3>3, <3>4, <3>5
  <2>5. \A i \in 1 .. Len(plan) : Cardinality(plan[i].nodes) = ReplicaCount
    <3>1. DOMAIN plan = 1 .. k /\ Len(plan) = k BY <2>1
    <3> QED BY <2>1, <3>1
  <2> QED BY <1>1, <2>2, <2>3, <2>4, <2>5 DEF Fits
<1> QED BY <1>1, <1>2, <1>3

(* What InitUpload does *)
LEMMA InitShape ==
    ASSUME AtomicInv, MoreTyped, NEW u \in Uploads, InitUpload(u), client[u].size >= 1
    PROVE  \/ Still /\ BookSame /\ ClientsQuiet
           \/ \E plan, c, d : Opens(u, plan, c, d)
<1> DEFINE size == client[u].size
<1>0. /\ client[u].state = "idle" /\ busy = Idle /\ size \in Nat \ {0}
      /\ UNCHANGED <<item, metered, toServer, open, tmp, stored, lossy>>
  BY DEF InitUpload, nodeVars, AtomicInv, Base, Typed, ClientType
<1>1. PICK online \in SUBSET Nodes :
        LET sz == client[u].size
            whole == {<<[size |-> sz, nodes |-> K]>> : K \in SelectedNodes(online, sz)}
            free == [n \in Nodes |-> IF n \in online THEN Free(n) ELSE 0]
            plans == IF whole # {} THEN whole ELSE Plans(sz, free) IN
        \/ /\ plans = {} /\ Answer(u, "refused")
           /\ UNCHANGED <<rows, multipart, reserved, known, busy, toNode>>
        \/ \E plan \in plans : \E k \in 0 .. 2 * Len(plan) :
             LET made == 1 .. k \div 2 IN
             /\ multipart' = [multipart EXCEPT ![u] =
                                IF plan \in whole THEN "none" ELSE "UPLOADING"]
             /\ reserved' = ReservedUpTo(plan, (k + 1) \div 2)
             /\ rows' = [rows EXCEPT ![u] =
                           [i \in made |-> [size |-> plan[i].size, nodes |-> plan[i].nodes,
                                            status |-> "UPLOADING"]]]
             /\ \E inits \in [Nodes -> UNION {InitFrames(u, S) : S \in SUBSET made}] :
                  /\ \A n \in Nodes : inits[n] \in InitFrames(u, {i \in made : n \in plan[i].nodes})
                  /\ toNode' = [n \in Nodes |-> toNode[n] \o inits[n]]
             /\ \/ k = 2 * Len(plan) /\ Answer(u, "active")
                   /\ known' = known \cup {<<u, i>> : i \in made} /\ UNCHANGED busy
                \/ k < 2 * Len(plan) /\ Answer(u, "waiting") /\ Forgotten
  BY DEF InitUpload
<1> DEFINE whole == {<<[size |-> size, nodes |-> K]>> : K \in SelectedNodes(online, size)}
           free == [n \in Nodes |-> IF n \in online THEN Free(n) ELSE 0]
           plans == IF whole # {} THEN whole ELSE Plans(size, free)
           Made(plan, k) ==
             /\ multipart' = [multipart EXCEPT ![u] =
                                IF plan \in whole THEN "none" ELSE "UPLOADING"]
             /\ reserved' = ReservedUpTo(plan, (k + 1) \div 2)
             /\ rows' = [rows EXCEPT ![u] = NewRows(plan, k \div 2)]
             /\ \E inits : /\ \A n \in Nodes : inits[n] \in InitFrames(u,
                                     {i \in 1 .. k \div 2 : n \in plan[i].nodes})
                           /\ toNode' = [n \in Nodes |-> toNode[n] \o inits[n]]
             /\ \/ k = 2 * Len(plan) /\ Answer(u, "active")
                   /\ known' = known \cup {<<u, i>> : i \in 1 .. k \div 2} /\ UNCHANGED busy
                \/ k < 2 * Len(plan) /\ Answer(u, "waiting") /\ Forgotten
<1>2. \/ /\ Answer(u, "refused")
         /\ UNCHANGED <<rows, multipart, reserved, known, busy, toNode>>
      \/ \E plan \in plans : \E k \in 0 .. 2 * Len(plan) : Made(plan, k)
  BY <1>1, Zenon DEF NewRows
<1>3. CASE /\ Answer(u, "refused")
           /\ UNCHANGED <<rows, multipart, reserved, known, busy, toNode>>
  <2>1. FewerToFinalize /\ FewerVouched /\ FewerFinalizing /\ TookFrames /\ ClientsQuiet
    BY <1>0, <1>3, StopQuiet
  <2> QED BY <1>0, <1>3, <2>1 DEF Still, BookSame
<1>4. ASSUME NEW plan \in plans, NEW k \in 0 .. 2 * Len(plan), Made(plan, k)
      PROVE  \E c, d : Opens(u, plan, c, d)
  <2>1. \/ \E K \in SelectedNodes(online, size) : plan = <<[size |-> size, nodes |-> K]>>
        \/ plan \in Plans(size, free)
    BY Zenon
  <2>2. plan \in whole => Len(plan) = 1
    <3>1. plan \in whole => \E K : plan = <<[size |-> size, nodes |-> K]>> BY Zenon
    <3> QED BY <3>1
  <2>3. /\ multipart' = [multipart EXCEPT ![u] = IF plan \in whole THEN "none" ELSE "UPLOADING"]
        /\ reserved' = ReservedUpTo(plan, (k + 1) \div 2)
        /\ rows' = [rows EXCEPT ![u] = NewRows(plan, k \div 2)]
    BY <1>4
  <2>4. \/ k = 2 * Len(plan) /\ Answer(u, "active")
           /\ known' = known \cup {<<u, i>> : i \in 1 .. k \div 2} /\ UNCHANGED busy
        \/ k < 2 * Len(plan) /\ Answer(u, "waiting") /\ Forgotten
    BY <1>4
  <2>5. PICK inits : /\ \A n \in Nodes : inits[n] \in InitFrames(u,
                                 {i \in 1 .. k \div 2 : n \in plan[i].nodes})
                     /\ toNode' = [n \in Nodes |-> toNode[n] \o inits[n]]
    BY <1>4
  <2> HIDE DEF whole, Made
  <2>6. PlanType(plan) /\ Fits(plan, size) BY <1>0, <2>1, PlanFits
  <2>7. PICK c : c = k \div 2 OBVIOUS
  <2>8. PICK d : d = (k + 1) \div 2 OBVIOUS
  <2>9. /\ Len(plan) \in Nat /\ c \in 0 .. Len(plan) /\ d \in c .. Len(plan)
        /\ k = 2 * Len(plan) => c = Len(plan)
    BY <2>6, <2>7, <2>8 DEF PlanType
  <2>10. ASSUME NEW n \in Nodes PROVE Starts(u, plan, c, n, inits[n])
    <3>1. inits[n] \in InitFrames(u, {i \in 1 .. c : n \in plan[i].nodes}) BY <2>5, <2>7
    <3>2. c \in Nat BY <2>9
    <3> HIDE DEF size
    <3> QED BY <3>1, <3>2, InitFramesStart, Zenon
  <2>11. busy' = Idle /\ Answered(u, plan, c)
    BY <1>0, <2>4, <2>7, <2>9 DEF Answered, Forgotten
  <2>12. \E m \in {"none", "UPLOADING"} : /\ multipart' = [multipart EXCEPT ![u] = m]
                                          /\ m = "none" => Len(plan) = 1
    BY <2>2, <2>3
  <2>13. reserved' = ReservedUpTo(plan, d) /\ rows' = [rows EXCEPT ![u] = NewRows(plan, c)]
    BY <2>3, <2>7, <2>8
  <2> HIDE DEF free, plans
  <2>14. Opens(u, plan, c, d)
    BY <1>0, <2>5, <2>6, <2>9, <2>10, <2>11, <2>12, <2>13 DEF Opens
  <2> QED BY <2>14
<1> QED BY <1>2, <1>3, <1>4

LEMMA Joint ==
    ASSUME NEW q \in Frames, NEW z \in Frames
    PROVE  /\ q \o z \in Frames /\ Len(q) \in Nat /\ Len(z) \in Nat
           /\ Len(q \o z) = Len(q) + Len(z)
           /\ \A k \in 1 .. Len(q) : (q \o z)[k] = q[k]
           /\ \A k \in 1 .. Len(z) : (q \o z)[Len(q) + k] = z[k]
           /\ \A k \in 1 .. Len(q) + Len(z) :
                k \in 1 .. Len(q) \/ \E j \in 1 .. Len(z) : k = Len(q) + j
<1>1. q \o z \in Frames /\ Len(q) \in Nat /\ Len(z) \in Nat /\ Len(q \o z) = Len(q) + Len(z)
  BY DEF Frames
<1>2. \A k \in 1 .. Len(q) + Len(z) : (q \o z)[k] = IF k <= Len(q) THEN q[k] ELSE z[k - Len(q)]
  BY DEF Frames
<1>3. \A k \in 1 .. Len(q) : k \in 1 .. Len(q) + Len(z) /\ k <= Len(q) BY <1>1
<1>4. \A k \in 1 .. Len(z) : /\ Len(q) + k \in 1 .. Len(q) + Len(z) /\ ~(Len(q) + k <= Len(q))
                             /\ (Len(q) + k) - Len(q) = k
  BY <1>1
<1>5. \A k \in 1 .. Len(q) + Len(z) : k \notin 1 .. Len(q)
        => k - Len(q) \in 1 .. Len(z) /\ k = Len(q) + (k - Len(q))
  BY <1>1
<1> QED BY <1>1, <1>2, <1>3, <1>4, <1>5

(* The sessions of an upload that begins are new. *)
LEMMA OpensRows ==
    ASSUME AtomicInv, NEW u \in Uploads, NEW plan, NEW c, NEW d, Opens(u, plan, c, d)
    PROVE  /\ rows' \in [Uploads -> Rows] /\ rows'[u] = NewRows(plan, c)
           /\ DOMAIN rows'[u] = 1 .. c /\ c \in Nat /\ Len(rows'[u]) = c
           /\ \A v \in Uploads \ {u} : rows'[v] = rows[v]
           /\ rows[u] = <<>>
           /\ \A t \in AnySession : t[1] # u => (Exists(t)' <=> Exists(t)) /\ Row(t)' = Row(t)
           /\ \A t \in AnySession : t[1] = u =>
                /\ ~Exists(t) /\ (Exists(t)' <=> t[2] \in 1 .. c)
                /\ t[2] \in 1 .. c => /\ Row(t)'.status = "UPLOADING"
                                      /\ Row(t)'.nodes = plan[t[2]].nodes
                                      /\ Row(t)'.size = plan[t[2]].size
                                      /\ plan[t[2]].size \in Nat
<1>1. /\ Typed /\ rows[u] = <<>> /\ rows' = [rows EXCEPT ![u] = NewRows(plan, c)]
      /\ c \in 0 .. Len(plan) /\ PlanType(plan) /\ c \in Nat
  BY DEF AtomicInv, Base, BeginsWithNothing, Opens, PlanType
<1>2. \A i \in 1 .. c : /\ NewRows(plan, c)[i] \in RowType
                        /\ NewRows(plan, c)[i].status = "UPLOADING"
                        /\ NewRows(plan, c)[i].nodes = plan[i].nodes
                        /\ NewRows(plan, c)[i].size = plan[i].size /\ plan[i].size \in Nat
  <2>1. \A i \in 1 .. c : i \in 1 .. Len(plan) BY <1>1 DEF PlanType
  <2> QED BY <1>1, <2>1 DEF NewRows, RowType, PlanType
<1>3. NewRows(plan, c) \in Rows /\ DOMAIN NewRows(plan, c) = 1 .. c /\ Len(NewRows(plan, c)) = c
  <2>1. DOMAIN NewRows(plan, c) = 1 .. c BY DEF NewRows
  <2>2. NewRows(plan, c) \in [1 .. c -> RowType] BY <1>2 DEF NewRows
  <2>3. NewRows(plan, c) \in Seq(RowType) BY <1>1, <2>2
  <2> QED BY <1>1, <2>1, <2>3 DEF Rows
<1>4. /\ rows' \in [Uploads -> Rows] /\ rows'[u] = NewRows(plan, c)
      /\ \A v \in Uploads \ {u} : rows'[v] = rows[v]
  BY <1>1, <1>3 DEF Typed
<1>5. ASSUME NEW t \in AnySession
      PROVE  /\ t[1] # u => (Exists(t)' <=> Exists(t)) /\ Row(t)' = Row(t)
             /\ t[1] = u =>
                /\ ~Exists(t) /\ (Exists(t)' <=> t[2] \in 1 .. c)
                /\ t[2] \in 1 .. c => /\ Row(t)'.status = "UPLOADING"
                                      /\ Row(t)'.nodes = plan[t[2]].nodes
                                      /\ Row(t)'.size = plan[t[2]].size
                                      /\ plan[t[2]].size \in Nat
  <2>1. t[1] \in Uploads BY DEF AnySession
  <2>2. CASE t[1] # u BY <1>4, <2>1, <2>2 DEF Exists, Row
  <2>3. CASE t[1] = u BY <1>1, <1>2, <1>3, <1>4, <2>3 DEF Exists, Row
  <2> QED BY <2>2, <2>3
<1> QED BY <1>1, <1>3, <1>4, <1>5

(* What it leaves to the waits *)
LEMMA OpensWaits ==
    ASSUME AtomicInv, NEW u \in Uploads, NEW plan, NEW c, NEW d, Opens(u, plan, c, d)
    PROVE  /\ FewerToFinalize /\ FewerVouched /\ TookFrames
           /\ \A t \in AnySession : ~Finalizing(t)' /\ ~Finalizing(t) /\ ~Checking(t)
           /\ client'[u].state \in {"active", "waiting"}
           /\ client'[u] = [client[u] EXCEPT !.state = client'[u].state]
           /\ client'[u].part = client[u].part /\ client'[u].size = client[u].size
           /\ \A v \in Uploads \ {u} : client'[v] = client[v]
<1>0. Typed BY DEF AtomicInv, Base
<1>1. /\ client[u].state = "idle" /\ busy = Idle /\ busy' = Idle /\ UNCHANGED toServer
  BY DEF Opens
<1>2. PICK st \in {"active", "waiting"} : Answer(u, st) BY DEF Opens, Answered
<1>3. /\ client'[u] = [client[u] EXCEPT !.state = st] /\ client'[u].state = st
      /\ client'[u].part = client[u].part /\ client'[u].size = client[u].size
      /\ \A v \in Uploads \ {u} : client'[v] = client[v]
  BY <1>0, <1>2 DEF Answer, Typed, ClientType
<1>4. FewerToFinalize BY <1>1, <1>3 DEF FewerToFinalize, MayFinalize, AnySession
<1>5. TookFrames BY <1>1 DEF TookFrames
<1>6. FewerVouched BY <1>0, <1>1, <1>4, <1>5, VouchedFewer DEF Checking
<1>7. \A t \in AnySession : ~Finalizing(t)' /\ ~Finalizing(t) /\ ~Checking(t)
  BY <1>1 DEF Finalizing, Checking
<1> QED BY <1>2, <1>3, <1>4, <1>5, <1>6, <1>7

LEMMA OpensView ==
    ASSUME AtomicInv, MoreTyped, NEW n \in Nodes, NodeView(n),
           NEW u \in Uploads, NEW plan, NEW c, NEW d, Opens(u, plan, c, d)
    PROVE  NodeView(n)'
<1>0. /\ Typed /\ Addressed(n) /\ InitFirst(n)
      /\ toNode[n] \in Frames
      /\ \A k \in 1 .. Len(toNode[n]) : toNode[n][k].s \in AnySession
      /\ \A k \in 1 .. Len(toServer[n]) : toServer[n][k].s \in AnySession
      /\ open[n] \subseteq AnySession /\ stored[n] \subseteq AnySession
      /\ \A x \in tmp[n] : x[1] \in AnySession
      /\ UNCHANGED <<toServer, open, tmp, stored, lossy>>
  <2>1. Typed /\ Addressed(n) /\ InitFirst(n) BY DEF AtomicInv, Base, NodeView
  <2>2. UNCHANGED <<toServer, open, tmp, stored, lossy>> BY DEF Opens
  <2>3. /\ \A k \in 1 .. Len(toNode[n]) : toNode[n][k].s \in AnySession
        /\ \A k \in 1 .. Len(toServer[n]) : toServer[n][k].s \in AnySession
    BY <2>1, TypedQueues
  <2>4. /\ open[n] \subseteq AnySession /\ stored[n] \subseteq AnySession
        /\ \A x \in tmp[n] : x[1] \in AnySession /\ toNode[n] \in Frames
    BY <2>1 DEF Typed, MoreTyped
  <2>5. toNode[n] \in Frames BY <2>1 DEF Typed
  <2> QED BY <2>1, <2>2, <2>3, <2>4, <2>5
<1>1. /\ \A t \in AnySession : t[1] # u => (Exists(t)' <=> Exists(t)) /\ Row(t)' = Row(t)
      /\ \A t \in AnySession : t[1] = u =>
           /\ ~Exists(t) /\ (Exists(t)' <=> t[2] \in 1 .. c)
           /\ t[2] \in 1 .. c => /\ Row(t)'.status = "UPLOADING"
                                 /\ Row(t)'.nodes = plan[t[2]].nodes
      /\ c \in Nat
  BY OpensRows
<1>2. /\ FewerToFinalize /\ FewerVouched
      /\ \A t \in AnySession : ~Finalizing(t)' /\ ~Finalizing(t) /\ ~Checking(t)
  BY OpensWaits
<1>3. PICK z : Starts(u, plan, c, n, z) /\ toNode'[n] = toNode[n] \o z
  BY DEF Opens
<1>4. PICK L : L = Len(toNode[n]) OBVIOUS
<1>5. PICK M : M = Len(z) OBVIOUS
<1>6. /\ L \in Nat /\ M \in Nat /\ Len(toNode'[n]) = L + M
      /\ \A k \in 1 .. L : toNode'[n][k] = toNode[n][k]
      /\ \A k \in 1 .. M : toNode'[n][L + k] = z[k]
      /\ \A k \in 1 .. L + M : k \in 1 .. L \/ \E j \in 1 .. M : k = L + j
      /\ \A k \in 1 .. L : k \in 1 .. L + M
      /\ \A k \in 1 .. M : L + k \in 1 .. L + M
  <2>1. z \in Frames BY <1>3 DEF Starts
  <2>2. /\ Len(toNode'[n]) = L + M /\ L \in Nat /\ M \in Nat
        /\ \A k \in 1 .. L : toNode'[n][k] = toNode[n][k]
        /\ \A k \in 1 .. M : toNode'[n][L + k] = z[k]
        /\ \A k \in 1 .. L + M : k \in 1 .. L \/ \E j \in 1 .. M : k = L + j
    <3>1. PICK x : x = toNode[n] OBVIOUS
    <3>2. x \in Frames BY <1>0, <3>1
    <3>3. /\ Len(x) \in Nat /\ Len(z) \in Nat /\ Len(x \o z) = Len(x) + Len(z)
          /\ \A k \in 1 .. Len(x) : (x \o z)[k] = x[k]
          /\ \A k \in 1 .. Len(z) : (x \o z)[Len(x) + k] = z[k]
          /\ \A k \in 1 .. Len(x) + Len(z) :
               k \in 1 .. Len(x) \/ \E j \in 1 .. Len(z) : k = Len(x) + j
      BY <2>1, <3>2, Joint
    <3> QED BY <1>3, <1>4, <1>5, <3>1, <3>3, Zenon
  <2>3. /\ \A k \in 1 .. L : k \in 1 .. L + M
        /\ \A k \in 1 .. M : L + k \in 1 .. L + M
    BY <2>2
  <2> QED BY <2>2, <2>3, Zenon
<1>7. \A k \in 1 .. M : /\ z[k].op = "init_session" /\ z[k].s[1] = u
                        /\ z[k].s[2] \in 1 .. c /\ n \in plan[z[k].s[2]].nodes
                        /\ z[k].s \in AnySession
  <2>1. \A k \in 1 .. M : z[k] \in FrameType BY <1>3, <1>5 DEF Starts, Frames
  <2> QED BY <1>3, <1>5, <2>1 DEF Starts, FrameType
(* Nothing on the node is of upload u yet. *)
<1>8. /\ \A k \in 1 .. L : toNode[n][k].s[1] # u
      /\ \A k \in 1 .. Len(toServer[n]) : toServer[n][k].s[1] # u
      /\ \A s \in open[n] : s[1] # u
      /\ \A s \in stored[n] : s[1] # u
      /\ \A x \in tmp[n] : x[1][1] # u
  BY <1>0, <1>1, <1>4 DEF Addressed, QueueRight, ServerOn, FilesRight, Right, On
<1>9. /\ \A t \in AnySession : t[1] # u => (On(n, t)' <=> On(n, t)) /\ Row(t)' = Row(t)
      /\ \A t \in AnySession : t[1] = u =>
           /\ ~On(n, t)
           /\ On(n, t)' <=> t[2] \in 1 .. c /\ n \in plan[t[2]].nodes
  BY <1>1 DEF On
<1>10. Addressed(n)'
  <2>1. QueueRight(n)'
    <3>1. \A k \in 1 .. L : Right(n, toNode[n][k]) BY <1>0, <1>4 DEF Addressed, QueueRight
    <3>2. ASSUME NEW k \in 1 .. L, NEW g, g = toNode[n][k] PROVE Right(n, g)'
      <4>1. g.s \in AnySession /\ g.s[1] # u /\ Right(n, g) BY <1>0, <1>4, <1>8, <3>1, <3>2
      <4> QED BY <1>9, <4>1 DEF Right
    <3>3. ASSUME NEW k \in 1 .. M, NEW g, g = z[k] PROVE Right(n, g)'
      BY <1>7, <1>9, <3>3 DEF Right
    <3>4. ASSUME NEW k \in 1 .. L + M, NEW g, g = toNode'[n][k] PROVE Right(n, g)'
      <4>1. CASE k \in 1 .. L BY <1>6, <3>2, <3>4, <4>1
      <4>2. CASE k \notin 1 .. L
        <5>1. PICK j \in 1 .. M : k = L + j BY <1>6, <4>2
        <5> QED BY <1>6, <3>3, <3>4, <5>1
      <4> QED BY <4>1, <4>2
    <3> QED BY <1>6, <3>4 DEF QueueRight
  <2>2. ServerOn(n)' BY <1>0, <1>8, <1>9 DEF Addressed, ServerOn
  <2>3. FilesRight(n)' BY <1>0, <1>8, <1>9 DEF Addressed, FilesRight
  <2> QED BY <2>1, <2>2, <2>3 DEF Addressed
<1>11. InitFirst(n)'
  <2>1. SUFFICES ASSUME NEW k \in 1 .. L + M, toNode'[n][k].op = "init_session",
                        NEW s, s = toNode'[n][k].s
                 PROVE  /\ \A j \in 1 .. k - 1 : toNode'[n][j].s # s
                        /\ s \notin open'[n] /\ s \notin stored'[n] /\ ~HasTmp(n, s)'
    BY <1>6 DEF InitFirst
  <2>2. CASE k \in 1 .. L
    <3>1. \A j \in 1 .. k - 1 : j \in 1 .. L BY <1>6, <2>2
    <3>2. toNode[n][k].op = "init_session" /\ toNode[n][k].s = s BY <1>6, <2>1, <2>2
    <3>3. /\ \A j \in 1 .. k - 1 : toNode[n][j].s # s
          /\ s \notin open[n] /\ s \notin stored[n] /\ ~HasTmp(n, s)
      BY <1>0, <1>4, <2>2, <3>2 DEF InitFirst
    <3> QED BY <1>0, <1>6, <3>1, <3>3 DEF HasTmp
  <2>3. CASE k \notin 1 .. L
    <3>1. PICK j \in 1 .. M : k = L + j BY <1>6, <2>3
    <3>2. s = z[j].s /\ s[1] = u BY <1>6, <1>7, <2>1, <3>1
    <3>3. ASSUME NEW i \in 1 .. k - 1 PROVE toNode'[n][i].s # s
      <4>1. CASE i \in 1 .. L BY <1>6, <1>8, <3>2, <4>1
      <4>2. CASE i \notin 1 .. L
        <5>1. PICK m \in 1 .. M : i = L + m BY <1>6, <3>1, <4>2
        <5>2. m # j /\ toNode'[n][i] = z[m] BY <1>6, <3>1, <5>1
        <5> QED BY <1>3, <1>5, <3>2, <5>1, <5>2 DEF Starts
      <4> QED BY <4>1, <4>2
    <3> QED BY <1>0, <1>8, <3>2, <3>3 DEF HasTmp
  <2> QED BY <2>2, <2>3
<1>12. \A k \in 1 .. L + M : toNode'[n][k].s[1] # u \/ toNode'[n][k].op # "init_session"
         => k \in 1 .. L
  <2> SUFFICES ASSUME NEW k \in 1 .. L + M, k \notin 1 .. L
               PROVE  toNode'[n][k].s[1] = u /\ toNode'[n][k].op = "init_session"
    OBVIOUS
  <2>1. PICK j \in 1 .. M : k = L + j BY <1>6
  <2>2. toNode'[n][k] = z[j] BY <1>6, <2>1
  <2> QED BY <1>7, <2>2
<1>13. ASSUME NEW s \in AnySession PROVE SessionOn(n, s)'
  <2>0. SessionOn(n, s) /\ ~Finalizing(s)' BY <1>2 DEF NodeView
  <2>1. CASE s[1] # u
    <3>1. \A op : \A k \in 1 .. L + M :
            Is(toNode'[n][k], op, s) => k \in 1 .. L /\ Is(toNode[n][k], op, s)
      BY <1>6, <1>12, <2>1 DEF Is
    <3>2. \A op : \A k \in 1 .. L : Is(toNode[n][k], op, s)
                                    => k \in 1 .. L + M /\ Is(toNode'[n][k], op, s)
      BY <1>6
    <3>3. \A op : Has(toNode'[n], op, s) <=> Has(toNode[n], op, s)
      BY <1>4, <1>6, <3>1, <3>2 DEF Has, Is
    <3>4. /\ On(n, s)' <=> On(n, s)
          /\ Chunks(s)' = Chunks(s) /\ (Aborted(s)' <=> Aborted(s))
          /\ HasTmp(n, s)' <=> HasTmp(n, s)
          /\ Gone(n, s)' <=> Gone(n, s)
      BY <1>0, <1>1, <1>9, <2>1, <3>3 DEF Chunks, Aborted, HasTmp, Gone
    <3>5. StoredClean(n, s)' BY <1>0, <2>0, <3>4 DEF SessionOn, StoredClean
    <3>6. OneFinal(n, s)'
      <4>1. OneFinal(n, s) BY <2>0 DEF SessionOn
      <4> QED BY <1>4, <1>6, <3>1, <4>1 DEF OneFinal
    <3>7. FinalReady(n, s)'
      <4>1. Vouched(n, s)' => Vouched(n, s) BY <1>2 DEF FewerVouched
      <4> QED BY <1>0, <2>0, <3>3, <3>4, <4>1 DEF SessionOn, FinalReady
    <3>8. Joined(n, s)'
      <4>1. MayFinalize(s)' => MayFinalize(s) BY <1>2 DEF FewerToFinalize
      <4> QED BY <1>0, <2>0, <3>3, <3>4, <4>1 DEF SessionOn, Joined
    <3>9. FinalOut(n, s)' BY <2>0 DEF FinalOut
    <3>10. Erasable(n, s)'
      <4> SUFFICES ASSUME n \notin lossy, NEW i \in 1 .. L, Is(toNode[n][i], "delete_object", s)
                   PROVE  Before(n, "commit_finalize", s, i - 1)' \/ Gone(n, s)'
        BY <1>0, <1>6, <3>1 DEF Erasable
      <4>1. Before(n, "commit_finalize", s, i - 1) \/ Gone(n, s)
        BY <1>4, <2>0 DEF SessionOn, Erasable
      <4>2. \A k \in 1 .. i - 1 : k \in 1 .. L BY <1>6
      <4> QED BY <1>6, <3>4, <4>1, <4>2 DEF Before
    <3>11. Erased(n, s)'
      <4> SUFFICES ASSUME n \notin lossy, Aborted(s)
                   PROVE  /\ s \in stored'[n] => Has(toNode'[n], "delete_object", s)
                          /\ \A k \in 1 .. L + M : Is(toNode'[n][k], "commit_finalize", s)
                               => \E j \in k + 1 .. L + M : Is(toNode'[n][j], "delete_object", s)
        BY <1>0, <1>6, <3>4 DEF Erased
      <4>1. /\ s \in stored[n] => Has(toNode[n], "delete_object", s)
            /\ \A k \in 1 .. L : Is(toNode[n][k], "commit_finalize", s)
                 => \E j \in k + 1 .. L : Is(toNode[n][j], "delete_object", s)
        BY <1>4, <2>0 DEF SessionOn, Erased
      <4>2. ASSUME NEW k \in 1 .. L + M, Is(toNode'[n][k], "commit_finalize", s)
            PROVE  \E j \in k + 1 .. L + M : Is(toNode'[n][j], "delete_object", s)
        <5>1. k \in 1 .. L /\ Is(toNode[n][k], "commit_finalize", s) BY <3>1, <4>2
        <5>2. PICK j \in k + 1 .. L : Is(toNode[n][j], "delete_object", s) BY <4>1, <5>1
        <5>3. j \in 1 .. L /\ j \in k + 1 .. L + M BY <1>6, <5>1
        <5> QED BY <3>2, <5>2, <5>3
      <4> QED BY <1>0, <3>3, <4>1, <4>2
    <3> QED BY <3>5, <3>6, <3>7, <3>8, <3>9, <3>10, <3>11 DEF SessionOn
  <2>2. CASE s[1] = u
    <3>1. s \notin open'[n] /\ s \notin stored'[n] /\ ~HasTmp(n, s)'
      BY <1>0, <1>8, <2>2 DEF HasTmp
    <3>2. \A op : op # "init_session" => \A k \in 1 .. L + M : ~Is(toNode'[n][k], op, s)
      BY <1>6, <1>8, <1>12, <2>2 DEF Is
    <3>3. ~Has(toNode'[n], "commit_finalize", s) /\ ~Has(toNode'[n], "delete_object", s)
      BY <1>6, <3>2 DEF Has, Is
    <3>4. ~Vouched(n, s)'
      <4>1. ~Vouched(n, s) BY <1>2, <1>8, <2>2 DEF Vouched, Vouches
      <4> QED BY <1>2, <4>1 DEF FewerVouched
    <3>5. On(n, s)' => Has(toNode'[n], "init_session", s)
      <4> SUFFICES ASSUME s[2] \in 1 .. c, n \in plan[s[2]].nodes
                   PROVE  Has(toNode'[n], "init_session", s)
        BY <1>9, <2>2
      <4>1. s = <<u, s[2]>> BY <2>2 DEF AnySession
      <4>2. Has(z, "init_session", s)
        <5>1. PICK i \in 1 .. c : i = s[2] OBVIOUS
        <5>2. Has(z, "init_session", <<u, i>>) BY <1>3, <5>1 DEF Starts
        <5> QED BY <4>1, <5>1, <5>2
      <4>3. PICK k \in 1 .. M : z[k].op = "init_session" /\ z[k].s = s BY <1>5, <4>2 DEF Has
      <4>4. L + k \in 1 .. L + M /\ toNode'[n][L + k] = z[k] BY <1>6
      <4> QED BY <1>6, <4>3, <4>4 DEF Has
    <3>6. StoredClean(n, s)' BY <3>1 DEF StoredClean
    <3>7. OneFinal(n, s)' BY <1>6, <3>2 DEF OneFinal
    <3>8. FinalReady(n, s)' BY <3>3, <3>4 DEF FinalReady
    <3>9. Joined(n, s)' BY <3>5 DEF Joined
    <3>10. FinalOut(n, s)' BY <2>0 DEF FinalOut
    <3>11. Erasable(n, s)' BY <1>6, <3>2 DEF Erasable
    <3>12. Erased(n, s)' BY <1>6, <3>1, <3>2 DEF Erased
    <3> QED BY <3>6, <3>7, <3>8, <3>9, <3>10, <3>11, <3>12 DEF SessionOn
  <2> QED BY <2>1, <2>2
<1> QED BY <1>10, <1>11, <1>13 DEF NodeView

-----------------------------------------------------------------------------
(* Every step is of one of these kinds. *)

(* All parts of a cut file are committed, and become an item. *)
Finishes(u) ==
    /\ Still /\ UNCHANGED <<metered, known, busy>>
    /\ client[u].state = "active" /\ client[u].part > Len(rows[u])
    /\ \A i \in DOMAIN rows[u] : rows[u][i].status = "COMMITTED"
    /\ item' = [item EXCEPT ![u] = DOMAIN rows[u]]
    /\ multipart' = [multipart EXCEPT ![u] = "FINALIZED"]
    /\ client'[u].state = "done"
    /\ \A v \in Uploads : client'[v].size = client[v].size
    /\ \A v \in Uploads \ {u} : client'[v] = client[v]

Begins == \E u \in Uploads : \E plan, c, d : Opens(u, plan, c, d)

LEMMA StepShape ==
    ASSUME AtomicInv, MoreTyped, \A u \in Uploads : client[u].size >= 1, [Next]_vars
    PROVE  \/ QuietStep \/ Begins
           \/ \E u \in Uploads : Finishes(u)
           \/ Commits(busy.s) /\ Commit(busy.s)
           \/ \E n \in Nodes : NodeNext(n)
<1>1. ASSUME NEW u \in Uploads, InitUpload(u)
      PROVE  QuietStep \/ Begins
  <2>1. \/ Still /\ BookSame /\ ClientsQuiet
        \/ \E plan, c, d : Opens(u, plan, c, d)
    BY <1>1, InitShape
  <2> QED BY <2>1 DEF QuietStep, Begins
<1>2. ASSUME NEW u \in Uploads, ClientCommitMultipart(u)
      PROVE  QuietStep \/ Finishes(u)
  <2>1. UNCHANGED busy BY <1>2 DEF ClientCommitMultipart
  <2> QED BY <1>2, <2>1, MultipartShape DEF QuietStep, Finishes
<1>3. ASSUME NEW u \in Uploads,
             ClientChunk(u) \/ ClientCommit(u) \/ ClientTimeout(u) \/ ClientLeaves(u)
      PROVE  QuietStep
  BY <1>3, RequestsQuiet
<1>4. ASSUME NEW n \in Nodes, Receive(n)
      PROVE  QuietStep \/ (Commits(busy.s) /\ Commit(busy.s))
  BY <1>4, ReceiveShape
<1>5. CASE WaitTimeout BY <1>5, WaitTimeoutQuiet
<1>6. CASE ServerRestart \/ \E n \in Nodes : NodeRestart(n) \/ LoseFrames(n)
  BY <1>6, OutsideQuiet
<1>7. CASE UNCHANGED vars
  <2>1. UNCHANGED <<rows, multipart, item, reserved, metered, known, busy, client, toNode,
                    toServer, open, tmp, stored, lossy>>
    BY <1>7 DEF vars, dbVars, channels, nodeVars, history
  <2>2. TookFrames BY <2>1 DEF TookFrames
  <2>3. FewerToFinalize /\ FewerVouched /\ FewerFinalizing /\ ClientsQuiet
    BY <2>1, <2>2, ForgetQuiet
  <2> QED BY <2>1, <2>2, <2>3 DEF QuietStep, BookSame, Still
<1> QED BY <1>1, <1>2, <1>3, <1>4, <1>5, <1>6, <1>7 DEF Next, ClientNext

(* What a node does stays between its frames and its files. *)
LEMMA NodeStepBooks ==
    ASSUME NEW n \in Nodes, NodeNext(n)
    PROVE  UNCHANGED <<rows, multipart, item, reserved, metered, known, busy, client, lossy>>
BY DEF NodeNext, NodeInitSession, NodeData, NodeCommitCheck, NodeCommitFinalize,
       NodeDeleteObject, dbVars, history

LEMMA ViewKept ==
    ASSUME AtomicInv, MoreTyped, \A u \in Uploads : client[u].size >= 1, [Next]_vars,
           \A n \in Nodes : NodeView(n)
    PROVE  \A n \in Nodes : NodeView(n)'
<1>1. ASSUME QuietStep, NEW n \in Nodes PROVE NodeView(n)'
  BY <1>1, QuietView
<1>2. ASSUME Begins, NEW n \in Nodes PROVE NodeView(n)'
  <2>1. PICK u \in Uploads : \E plan, c, d : Opens(u, plan, c, d) BY <1>2 DEF Begins
  <2>2. PICK plan, c, d : Opens(u, plan, c, d) BY <2>1
  <2> QED BY <2>2, OpensView
<1>3. ASSUME NEW u \in Uploads, Finishes(u), NEW n \in Nodes PROVE NodeView(n)'
  BY <1>3, StillView DEF Finishes
<1>4. ASSUME Commits(busy.s), NEW n \in Nodes PROVE NodeView(n)'
  <2>1. PICK s : s = busy.s OBVIOUS
  <2> QED BY <1>4, <2>1, CommitsView
<1>5. ASSUME NEW m \in Nodes, NodeNext(m), NEW n \in Nodes PROVE NodeView(n)'
  BY <1>5, NodeStepView
<1> QED BY <1>1, <1>2, <1>3, <1>4, <1>5, StepShape

-----------------------------------------------------------------------------
(* The types the proofs need besides *)

LEMMA ReleasedTyped ==
    ASSUME MoreTyped, NEW part \in RowType, reserved' = Released(part)
    PROVE  /\ reserved' \in [Nodes -> Nat]
           /\ \A n \in Nodes : reserved'[n] <= reserved[n]
           /\ \A n \in Nodes : n \notin part.nodes => reserved'[n] = reserved[n]
           /\ \A n \in Nodes : reserved[n] <= reserved'[n] + part.size
<1>1. part.size \in Nat BY DEF RowType
<1>2. ASSUME NEW n \in Nodes
      PROVE  /\ reserved'[n] \in Nat /\ reserved'[n] <= reserved[n]
             /\ n \notin part.nodes => reserved'[n] = reserved[n]
             /\ reserved[n] <= reserved'[n] + part.size
  <2>1. reserved[n] \in Nat BY DEF MoreTyped
  <2>2. reserved'[n] = IF n \notin part.nodes THEN reserved[n]
                       ELSE IF reserved[n] < part.size THEN 0 ELSE reserved[n] - part.size
    BY DEF Released
  <2> QED BY <1>1, <2>1, <2>2
<1>3. reserved' = [n \in Nodes |-> reserved'[n]] BY DEF Released
<1> QED BY <1>2, <1>3

LEMMA ReservedTyped ==
    ASSUME MoreTyped, NEW plan, PlanType(plan), NEW d \in 0 .. Len(plan),
           reserved' = ReservedUpTo(plan, d)
    PROVE  /\ reserved' \in [Nodes -> Nat]
           /\ \A n \in Nodes : /\ OnNode(plan, d, n) \in Nat
                               /\ reserved'[n] = reserved[n] + OnNode(plan, d, n)
<1>1. ASSUME NEW n \in Nodes
      PROVE  /\ OnNode(plan, d, n) \in Nat /\ reserved'[n] = reserved[n] + OnNode(plan, d, n)
             /\ reserved'[n] \in Nat
  <2>1. reserved[n] \in Nat BY DEF MoreTyped
  <2>2. OnNode(plan, d, n) \in Nat BY OnNodeOf
  <2>3. reserved'[n] = reserved[n] + OnNode(plan, d, n) BY DEF ReservedUpTo
  <2> QED BY <2>1, <2>2, <2>3
<1>2. reserved' = [n \in Nodes |-> reserved'[n]] BY DEF ReservedUpTo
<1> QED BY <1>1, <1>2

(* The files of a node *)
LEMMA NodeFilesTyped ==
    ASSUME Typed, MoreTyped, NEW n \in Nodes, NodeNext(n)
    PROVE  /\ open' \in [Nodes -> SUBSET AnySession]
           /\ tmp' \in [Nodes -> SUBSET (AnySession \X Nat)]
<1>1. toNode[n] # <<>> => Head(toNode[n]).s \in AnySession /\ Head(toNode[n]).chunk \in Nat
  <2>1. toNode[n] \in Seq(FrameType) BY DEF Typed, Frames
  <2>2. toNode[n] # <<>> => Head(toNode[n]) \in FrameType BY <2>1
  <2> QED BY <2>2 DEF FrameType
<1>2. PICK f : f = Head(toNode[n]) OBVIOUS
<1>3. CASE NodeInitSession(n)
  <2>1. f.s \in AnySession /\ open' = [open EXCEPT ![n] = @ \cup {f.s}] /\ UNCHANGED tmp
    BY <1>1, <1>2, <1>3 DEF NodeInitSession, Got
  <2> QED BY <2>1 DEF MoreTyped
<1>4. CASE NodeData(n)
  <2>1. /\ f.s \in AnySession /\ f.chunk \in Nat /\ UNCHANGED open
        /\ UNCHANGED tmp \/ tmp' = [tmp EXCEPT ![n] = @ \cup {<<f.s, f.chunk>>}]
    BY <1>1, <1>2, <1>4 DEF NodeData, Got
  <2> QED BY <2>1 DEF MoreTyped
<1>5. CASE NodeCommitCheck(n) BY <1>5 DEF NodeCommitCheck, nodeVars, MoreTyped
<1>6. CASE NodeCommitFinalize(n)
  <2>1. PICK ok \in BOOLEAN, X \in SUBSET ({f.s} \X Int) : Finalized(n, f.s, ok, X)
    BY <1>2, <1>6, FinalizeEnds
  <2> QED BY <2>1 DEF Finalized, MoreTyped
<1>7. CASE NodeDeleteObject(n) BY <1>7 DEF NodeDeleteObject, MoreTyped
<1> QED BY <1>3, <1>4, <1>5, <1>6, <1>7 DEF NodeNext

(* What is counted from outside, and the chunk a client is at *)
HistoryTyped ==
    /\ troubled \in BOOLEAN /\ disturbances \in 0 .. MaxDisturbances
    /\ \A u \in Uploads : client[u].chunk >= 1

LEMMA HistoryKept ==
    ASSUME Typed, HistoryTyped, [Next]_vars
    PROVE  HistoryTyped'
<1> USE DEF HistoryTyped
<1>1. Disturbed => troubled' \in BOOLEAN /\ disturbances' \in 0 .. MaxDisturbances
  BY UploadAssumption DEF Disturbed
<1>2. Quiet => troubled' \in BOOLEAN /\ disturbances' \in 0 .. MaxDisturbances
  BY DEF Quiet
<1>3. ASSUME NEW u \in Uploads, NEW state, Answer(u, state), NEW v \in Uploads
      PROVE  client'[v].chunk >= 1
  BY <1>3 DEF Answer, Typed, ClientType
<1>4. ASSUME NEW u, NEW c, Ends(u, c), c.chunk >= 1, NEW v \in Uploads
      PROVE  client'[v].chunk >= 1
  <2>1. client' = [client EXCEPT ![u] = c] \/ client' = client BY <1>4 DEF Ends
  <2> QED BY <1>4, <2>1 DEF Typed
<1>5. UNCHANGED client => \A v \in Uploads : client'[v].chunk >= 1 OBVIOUS
<1>6. ASSUME NEW u \in Uploads, NEW state
      PROVE  [client[u] EXCEPT !.state = state].chunk >= 1
  BY DEF Typed, ClientType
<1>7. busy # Idle => busy.s[1] \in Uploads BY DEF Typed, WaitType, AnySession
<1>8. ASSUME NEW s, s[1] \in Uploads, NEW late \in BOOLEAN, Abort(s, late)
      PROVE  HistoryTyped'
  <2>1. troubled' \in BOOLEAN /\ disturbances' \in 0 .. MaxDisturbances
    BY <1>1, <1>8 DEF Abort
  <2>2. Ends(s[1], [client[s[1]] EXCEPT !.state = "failed"]) \/ UNCHANGED client
    BY <1>8 DEF Abort
  <2>3. \A v \in Uploads : client'[v].chunk >= 1 BY <1>4, <1>5, <1>6, <1>8, <2>2
  <2> QED BY <2>1, <2>3
<1>9. ASSUME NEW s, s[1] \in Uploads, Commit(s)
      PROVE  HistoryTyped'
  <2>1. troubled' \in BOOLEAN /\ disturbances' \in 0 .. MaxDisturbances
    BY <1>1, <1>2, <1>9 DEF Commit
  <2>2. \/ Ends(s[1], [client[s[1]] EXCEPT !.state = "done"])
        \/ Ends(s[1], GoesOn(client[s[1]], client[s[1]].part + 1, 1))
        \/ UNCHANGED client
    BY <1>9 DEF Commit
  <2>3. GoesOn(client[s[1]], client[s[1]].part + 1, 1).chunk >= 1 BY DEF GoesOn
  <2>4. [client[s[1]] EXCEPT !.state = "done"].chunk >= 1 BY <1>6, <1>9
  <2>5. (\E c : Ends(s[1], c) /\ c.chunk >= 1) \/ UNCHANGED client
    BY <2>2, <2>3, <2>4, Zenon
  <2>6. \A v \in Uploads : client'[v].chunk >= 1 BY <1>4, <1>5, <2>5
  <2> QED BY <2>1, <2>6
<1>10. ASSUME NEW u \in Uploads, ClientNext(u) \/ ClientTimeout(u) \/ ClientLeaves(u)
       PROVE  HistoryTyped'
  <2>1. \E state : Answer(u, state)
    BY <1>10 DEF ClientNext, InitUpload, ClientChunk, ClientCommit, ClientCommitMultipart,
                 ClientTimeout, ClientLeaves
  <2>2. troubled' \in BOOLEAN /\ disturbances' \in 0 .. MaxDisturbances
    BY <1>1, <1>2, <1>10 DEF ClientNext, InitUpload, ClientChunk, ClientCommit,
                 ClientCommitMultipart, ClientTimeout, ClientLeaves, Quiet, history
  <2> QED BY <1>3, <2>1, <2>2
<1>11. ASSUME NEW n \in Nodes, Receive(n) PROVE HistoryTyped'
  <2>1. CASE ReceiveOther(n) BY <2>1 DEF ReceiveOther, history
  <2>2. CASE ReceiveAck(n)
    <3> DEFINE x == client[busy.s[1]]
               c == GoesOn(x, x.part, x.chunk + 1)
    <3>1. busy # Idle /\ Ends(busy.s[1], c) /\ UNCHANGED history
      BY <2>2 DEF ReceiveAck, Awaited
    <3>2. c.chunk >= 1
      <4>1. x \in ClientType /\ x.chunk \in Nat BY <1>7, <3>1 DEF Typed, ClientType
      <4>2. c.chunk = x.chunk + 1 BY DEF GoesOn
      <4> QED BY <4>1, <4>2
    <3> HIDE DEF c
    <3>3. \A v \in Uploads : client'[v].chunk >= 1 BY <1>4, <3>1, <3>2
    <3> QED BY <3>1, <3>3 DEF history
  <2>3. CASE ReceiveCheck(n)
    <3>1. /\ busy # Idle /\ UNCHANGED history
          /\ \/ UNCHANGED client
             \/ Ends(busy.s[1], [client[busy.s[1]] EXCEPT !.state = "failed"])
      <4>1. Replied(n).s = busy.s
        BY <2>3 DEF ReceiveCheck, Awaited, Replied, Typed, WaitType
      <4> QED BY <2>3, <4>1 DEF ReceiveCheck, Awaited
    <3>2. \A v \in Uploads : client'[v].chunk >= 1 BY <1>4, <1>5, <1>6, <1>7, <3>1
    <3> QED BY <3>1, <3>2 DEF history
  <2>4. CASE ReceiveFinalize(n)
    <3>1. PICK s : s = Replied(n).s OBVIOUS
    <3>2. s[1] \in Uploads
      BY <1>7, <2>4, <3>1 DEF ReceiveFinalize, Awaited, Replied, Typed, WaitType
    <3>3. UNCHANGED <<client, history>> \/ Commit(s) \/ Abort(s, FALSE)
      BY <2>4, <3>1 DEF ReceiveFinalize
    <3>4. CASE UNCHANGED <<client, history>> BY <3>4 DEF history
    <3> QED BY <1>8, <1>9, <3>2, <3>3, <3>4
  <2> QED BY <1>11, <2>1, <2>2, <2>3, <2>4 DEF Receive
<1>12. CASE WaitTimeout
  <2>1. busy # Idle BY <1>12 DEF WaitTimeout
  <2>2. PICK s : s = busy.s OBVIOUS
  <2>3. CASE Abort(s, TRUE) BY <1>7, <1>8, <2>1, <2>2, <2>3
  <2>4. CASE /\ Ends(s[1], [client[s[1]] EXCEPT !.state = "failed"])
             /\ troubled' = TRUE /\ UNCHANGED disturbances
    <3>1. \A v \in Uploads : client'[v].chunk >= 1 BY <1>4, <1>6, <1>7, <2>1, <2>2, <2>4
    <3> QED BY <2>4, <3>1
  <2> QED BY <1>12, <2>2, <2>3, <2>4 DEF WaitTimeout
<1>13. CASE \E n \in Nodes : NodeNext(n)
  <2>1. UNCHANGED client BY <1>13, NodeStepBooks
  <2>2. troubled' \in BOOLEAN /\ disturbances' \in 0 .. MaxDisturbances
    BY <1>1, <1>2, <1>13 DEF NodeNext, NodeInitSession, NodeData, NodeCommitCheck,
                 NodeCommitFinalize, NodeDeleteObject, history
  <2> QED BY <2>1, <2>2
<1>14. CASE ServerRestart \/ \E n \in Nodes : NodeRestart(n) \/ LoseFrames(n)
  <2>1. Disturbed /\ UNCHANGED client BY <1>14 DEF ServerRestart, NodeRestart, LoseFrames
  <2> QED BY <1>1, <2>1
<1>15. CASE UNCHANGED vars BY <1>15 DEF vars, history
<1> QED BY <1>10, <1>11, <1>12, <1>13, <1>14, <1>15 DEF Next

LEMMA RowOfType ==
    ASSUME Typed, NEW s \in AnySession, Exists(s)
    PROVE  Row(s) \in RowType
<1>1. rows[s[1]] \in Seq(RowType) /\ s[2] \in DOMAIN rows[s[1]]
  BY DEF Typed, Rows, AnySession, Exists
<1> QED BY <1>1 DEF Row

LEMMA MoreTypedKept ==
    ASSUME AtomicInv, MoreTyped, \A u \in Uploads : client[u].size >= 1, [Next]_vars
    PROVE  MoreTyped'
<1>0. Typed /\ HistoryTyped BY DEF AtomicInv, Base, MoreTyped, HistoryTyped
<1>1. HistoryTyped' BY <1>0, HistoryKept
<1> DEFINE Kept == /\ multipart' \in [Uploads -> {"none", "UPLOADING", "FINALIZED"}]
                   /\ item' \in [Uploads -> SUBSET Nat]
                   /\ reserved' \in [Nodes -> Nat]
                   /\ metered' \subseteq AnySession /\ known' \subseteq AnySession
                   /\ open' \in [Nodes -> SUBSET AnySession]
                   /\ tmp' \in [Nodes -> SUBSET (AnySession \X Nat)]
                   /\ lossy' \subseteq Nodes
<1>2. \A u \in Uploads : DOMAIN rows[u] \subseteq Nat
  <2>1. \A u \in Uploads : rows[u] \in Seq(RowType) BY <1>0 DEF Typed, Rows
  <2> QED BY <2>1
<1>3. ASSUME QuietStep PROVE Kept
  <2>1. BookSame /\ known' \subseteq known BY <1>3 DEF QuietStep, ClientsQuiet
  <2>2. CASE Still BY <2>1, <2>2 DEF BookSame, Still, MoreTyped
  <2>3. CASE Loses BY <2>1, <2>3 DEF BookSame, Loses, MoreTyped
  <2>4. ASSUME NEW s \in AnySession, BeginsRound(s) \/ \E f \in FrameType : Asks(s, f) PROVE Kept
    BY <2>1, <2>4 DEF BookSame, BeginsRound, Asks, MoreTyped
  <2>5. ASSUME NEW s \in AnySession, Aborts(s) PROVE Kept
    <3>1. Row(s) \in RowType /\ reserved' = Released(Row(s))
      BY <1>0, <2>5, RowOfType DEF Aborts
    <3>2. reserved' \in [Nodes -> Nat] BY <3>1, ReleasedTyped
    <3>3. lossy' \subseteq Nodes
      <4>1. Row(s).nodes \subseteq Nodes BY <3>1 DEF RowType
      <4> QED BY <2>5, <4>1 DEF Aborts, MoreTyped
    <3> QED BY <2>1, <2>5, <3>2, <3>3 DEF BookSame, Aborts, MoreTyped
  <2> QED BY <1>3, <2>2, <2>3, <2>4, <2>5 DEF QuietStep
<1>4. ASSUME NEW u \in Uploads, NEW plan, NEW c, NEW d, Opens(u, plan, c, d) PROVE Kept
  <2>1. /\ PlanType(plan) /\ c \in 0 .. Len(plan) /\ d \in c .. Len(plan)
        /\ reserved' = ReservedUpTo(plan, d)
        /\ UNCHANGED <<item, metered, open, tmp, lossy>>
    BY <1>4 DEF Opens
  <2>2. c \in Nat /\ d \in 0 .. Len(plan) BY <2>1 DEF PlanType
  <2>3. reserved' \in [Nodes -> Nat] BY <2>1, <2>2, ReservedTyped
  <2>4. known' \subseteq AnySession
    <3>1. {<<u, i>> : i \in 1 .. c} \subseteq AnySession BY <2>2 DEF AnySession
    <3> QED BY <1>4, <3>1 DEF Opens, Answered, MoreTyped
  <2>5. multipart' \in [Uploads -> {"none", "UPLOADING", "FINALIZED"}]
    BY <1>4 DEF Opens, MoreTyped
  <2> QED BY <2>1, <2>3, <2>4, <2>5 DEF MoreTyped
<1>5. ASSUME NEW u \in Uploads, Finishes(u) PROVE Kept
  BY <1>2, <1>5 DEF Finishes, Still, MoreTyped
<1>6. ASSUME Commits(busy.s), Commit(busy.s) PROVE Kept
  <2>1. PICK s : s = busy.s OBVIOUS
  <2>2. /\ s \in AnySession /\ UNCHANGED <<reserved, open, tmp, lossy, multipart>>
        /\ UNCHANGED known \/ known' = {}
        /\ UNCHANGED metered \/ metered' = metered \cup {s}
        /\ UNCHANGED item \/ item' = [item EXCEPT ![s[1]] = DOMAIN rows[s[1]]]
    BY <1>6, <2>1 DEF Commits, Commit, Forgotten
  <2>3. DOMAIN rows[s[1]] \subseteq Nat BY <1>2, <2>2 DEF AnySession
  <2>4. item' \in [Uploads -> SUBSET Nat] BY <2>2, <2>3 DEF MoreTyped
  <2> QED BY <2>2, <2>4 DEF MoreTyped
<1>7. ASSUME NEW n \in Nodes, NodeNext(n) PROVE Kept
  <2>1. UNCHANGED <<multipart, item, reserved, metered, known, lossy>> BY <1>7, NodeStepBooks
  <2>2. /\ open' \in [Nodes -> SUBSET AnySession]
        /\ tmp' \in [Nodes -> SUBSET (AnySession \X Nat)]
    BY <1>0, <1>7, NodeFilesTyped
  <2> QED BY <2>1, <2>2 DEF MoreTyped
<1>8. Kept BY <1>3, <1>4, <1>5, <1>6, <1>7, StepShape DEF Begins
<1> QED BY <1>1, <1>8 DEF MoreTyped, HistoryTyped

-----------------------------------------------------------------------------
(* The books of an upload *)

(* What the parts recorded add up to *)
Recorded(u) == TotalOf([i \in DOMAIN rows[u] |-> rows[u][i].size])

(* All of the file is recorded when its client is served; its item is all   *)
(* of it; and what the client knows to be done was metered.                 *)
Book(u) ==
    /\ client[u].size \in Sizes
    /\ client[u].state = "idle" => client[u].part = 1 /\ item[u] = {}
    /\ Len(rows[u]) <= client[u].size
    /\ multipart[u] = "none" => Len(rows[u]) <= 1
    /\ Serving(u) \/ InHandler(u) \/ item[u] # {} => client[u].size = Recorded(u)
    /\ item[u] # {} => /\ item[u] = DOMAIN rows[u]
                       /\ \A i \in item[u] : rows[u][i].status = "COMMITTED"
    /\ Serving(u) => \A i \in DOMAIN rows[u] : i < client[u].part => <<u, i>> \in metered
    /\ client[u].state = "done" => \A i \in item[u] : <<u, i>> \in metered

BookInv ==
    /\ \A u \in Uploads : Book(u)
    /\ \A s \in metered : Exists(s) /\ Row(s).status = "COMMITTED"
    /\ \A s \in known : Exists(s)

(* Nothing but the status of a row changes. *)
SameParts(u) ==
    /\ DOMAIN rows'[u] = DOMAIN rows[u] /\ Len(rows'[u]) = Len(rows[u])
    /\ \A i \in DOMAIN rows[u] :
         /\ rows'[u][i].size = rows[u][i].size
         /\ rows[u][i].status # "UPLOADING" => rows'[u][i].status = rows[u][i].status

LEMMA SameRecorded ==
    ASSUME NEW u, SameParts(u)
    PROVE  Recorded(u)' = Recorded(u)
<1>1. [i \in DOMAIN rows'[u] |-> rows'[u][i].size] = [i \in DOMAIN rows[u] |-> rows[u][i].size]
  BY DEF SameParts
<1> QED BY <1>1 DEF Recorded

LEMMA UnchangedParts ==
    ASSUME NEW u, rows'[u] = rows[u]
    PROVE  SameParts(u)
BY DEF SameParts

LEMMA EndedParts ==
    ASSUME Typed, NEW s \in AnySession, Exists(s), Row(s).status = "UPLOADING",
           NEW status \in {"COMMITTED", "ABORTED"},
           rows' = [rows EXCEPT ![s[1]][s[2]].status = status], NEW u \in Uploads
    PROVE  SameParts(u)
<1>1. /\ s[1] \in Uploads /\ rows[s[1]] \in Seq(RowType) /\ s[2] \in DOMAIN rows[s[1]]
      /\ rows[s[1]][s[2]].status = "UPLOADING"
  BY DEF Typed, AnySession, Rows, Exists, Row
<1>2. CASE u # s[1]
  <2>1. rows'[u] = rows[u] BY <1>1, <1>2 DEF Typed
  <2> QED BY <2>1, UnchangedParts
<1>3. CASE u = s[1]
  <2>1. PICK r : r = rows[u] OBVIOUS
  <2>2. PICK k : k = s[2] OBVIOUS
  <2>3. /\ r \in Seq(RowType) /\ k \in DOMAIN r /\ r[k].status = "UPLOADING"
        /\ rows'[u] = [r EXCEPT ![k].status = status]
    BY <1>1, <1>3, <2>1, <2>2 DEF Typed
  <2>4. PICK q : q = rows'[u] OBVIOUS
  <2>5. /\ DOMAIN q = DOMAIN r /\ r[k] \in RowType
        /\ q[k] = [r[k] EXCEPT !.status = status]
        /\ \A i \in DOMAIN r \ {k} : q[i] = r[i]
    BY <2>3, <2>4
  <2>6. q[k].size = r[k].size BY <2>5 DEF RowType
  <2>7. Len(q) = Len(r)
    <3>1. q \in Seq(RowType)
      <4>1. rows' \in [Uploads -> Rows] BY RowEnded
      <4> QED BY <2>4, <4>1 DEF Rows
    <3> QED BY <2>3, <2>5, <3>1
  <2>8. \A i \in DOMAIN r : q[i].size = r[i].size BY <2>5, <2>6
  <2>9. \A i \in DOMAIN r : r[i].status # "UPLOADING" => q[i].status = r[i].status
    BY <2>3, <2>5
  <2> QED BY <2>1, <2>4, <2>5, <2>7, <2>8, <2>9 DEF SameParts
<1> QED BY <1>2, <1>3

(* The metered and the known sessions, of rows that only change in status *)
LEMMA MeteredKept ==
    ASSUME MoreTyped, BookInv, \A u \in Uploads : SameParts(u)
    PROVE  /\ \A s \in metered : Exists(s)' /\ Row(s)'.status = "COMMITTED"
           /\ \A s \in known : Exists(s)'
<1>1. ASSUME NEW s \in AnySession, Exists(s)
      PROVE  /\ Exists(s)'
             /\ Row(s).status = "COMMITTED" => Row(s)'.status = "COMMITTED"
  <2>1. s[1] \in Uploads /\ SameParts(s[1]) BY DEF AnySession
  <2> QED BY <1>1, <2>1 DEF SameParts, Exists, Row
<1> QED BY <1>1 DEF BookInv, MoreTyped

LEMMA QuietBook ==
    ASSUME MoreTyped, BookInv, BookSame, ClientsQuiet, \A u \in Uploads : SameParts(u)
    PROVE  BookInv'
<1>1. ASSUME NEW u \in Uploads PROVE Book(u)'
  <2>1. Book(u) /\ SameParts(u) /\ item' = item /\ metered' = metered /\ multipart' = multipart
    BY DEF BookInv, BookSame
  <2>2. Recorded(u)' = Recorded(u) BY <2>1, SameRecorded
  <2>3. /\ client'[u].size = client[u].size
        /\ client'[u].state = "idle" => client'[u] = client[u]
        /\ client'[u].state = "done" => client[u].state = "done"
        /\ Serving(u)' => Serving(u) /\ client'[u].part = client[u].part
        /\ InHandler(u)' => Serving(u) \/ InHandler(u)
    BY DEF ClientsQuiet
  <2>4. client'[u].size \in Sizes BY <2>1, <2>3 DEF Book
  <2>5. client'[u].state = "idle" => client'[u].part = 1 /\ item'[u] = {}
    BY <2>1, <2>3 DEF Book
  <2>6. Len(rows'[u]) <= client'[u].size BY <2>1, <2>3 DEF Book, SameParts
  <2>7. multipart'[u] = "none" => Len(rows'[u]) <= 1 BY <2>1 DEF Book, SameParts
  <2>8. Serving(u)' \/ InHandler(u)' \/ item'[u] # {} => client'[u].size = Recorded(u)'
    BY <2>1, <2>2, <2>3 DEF Book
  <2>9. item'[u] # {} => /\ item'[u] = DOMAIN rows'[u]
                         /\ \A i \in item'[u] : rows'[u][i].status = "COMMITTED"
    <3>1. item[u] # {} => \A i \in item[u] : /\ i \in DOMAIN rows[u]
                                             /\ rows[u][i].status = "COMMITTED"
      BY <2>1 DEF Book
    <3> QED BY <2>1, <3>1 DEF Book, SameParts
  <2>10. Serving(u)' => \A i \in DOMAIN rows'[u] : i < client'[u].part => <<u, i>> \in metered'
    BY <2>1, <2>3 DEF Book, SameParts
  <2>11. client'[u].state = "done" => \A i \in item'[u] : <<u, i>> \in metered'
    BY <2>1, <2>3 DEF Book
  <2> QED BY <2>4, <2>5, <2>6, <2>7, <2>8, <2>9, <2>10, <2>11 DEF Book
<1>2. metered' = metered /\ known' \subseteq known BY DEF BookSame, ClientsQuiet
<1>3. /\ \A s \in metered : Exists(s)' /\ Row(s)'.status = "COMMITTED"
      /\ \A s \in known : Exists(s)'
  BY MeteredKept
<1> QED BY <1>1, <1>2, <1>3 DEF BookInv

LEMMA FinishBook ==
    ASSUME Typed, MoreTyped, BookInv, NEW u \in Uploads, Finishes(u)
    PROVE  BookInv'
<1>1. /\ UNCHANGED <<rows, metered, known, busy>>
      /\ client[u].state = "active" /\ client[u].part > Len(rows[u])
      /\ \A i \in DOMAIN rows[u] : rows[u][i].status = "COMMITTED"
      /\ item' = [item EXCEPT ![u] = DOMAIN rows[u]]
      /\ multipart' = [multipart EXCEPT ![u] = "FINALIZED"]
      /\ client'[u].state = "done"
      /\ \A v \in Uploads : client'[v].size = client[v].size
      /\ \A v \in Uploads \ {u} : client'[v] = client[v]
  BY DEF Finishes, Still
<1>2. \A v \in Uploads : SameParts(v) BY <1>1, UnchangedParts
<1>3. ASSUME NEW v \in Uploads \ {u} PROVE Book(v)'
  <2>1. /\ item'[v] = item[v] /\ multipart'[v] = multipart[v] /\ client'[v] = client[v]
        /\ rows'[v] = rows[v] /\ Recorded(v)' = Recorded(v)
        /\ Serving(v)' <=> Serving(v)
        /\ InHandler(v)' <=> InHandler(v)
    BY <1>1 DEF MoreTyped, Recorded, Serving, InHandler
  <2>2. Book(v) BY DEF BookInv
  <2> QED BY <1>1, <2>1, <2>2 DEF Book
<1>4. Book(u)'
  <2>1. Book(u) /\ Serving(u) BY <1>1 DEF BookInv, Serving
  <2>2. /\ item'[u] = DOMAIN rows[u] /\ multipart'[u] = "FINALIZED"
        /\ rows'[u] = rows[u] /\ Recorded(u)' = Recorded(u)
        /\ ~Serving(u)'
    BY <1>1 DEF MoreTyped, Recorded, Serving
  <2>3. \A i \in DOMAIN rows[u] : i < client[u].part
    <3>1. rows[u] \in Seq(RowType) /\ client[u].part \in Nat
      BY DEF Typed, Rows, ClientType
    <3> QED BY <1>1, <3>1
  <2>4. \A i \in DOMAIN rows[u] : <<u, i>> \in metered BY <2>1, <2>3 DEF Book
  <2>5. client[u].size = Recorded(u) /\ client[u].size \in Sizes /\ Len(rows[u]) <= client[u].size
    BY <2>1 DEF Book
  <2> QED BY <1>1, <2>2, <2>4, <2>5 DEF Book
<1>5. /\ \A s \in metered : Exists(s)' /\ Row(s)'.status = "COMMITTED"
      /\ \A s \in known : Exists(s)'
  BY <1>2, MeteredKept
<1> QED BY <1>1, <1>3, <1>4, <1>5 DEF BookInv

LEMMA OpensBook ==
    ASSUME AtomicInv, MoreTyped, BookInv, NEW u \in Uploads, NEW plan, NEW c, NEW d,
           Opens(u, plan, c, d)
    PROVE  BookInv'
<1>1. /\ Typed /\ client[u].state = "idle" /\ busy = Idle /\ busy' = Idle
      /\ PlanType(plan) /\ Fits(plan, client[u].size) /\ c \in 0 .. Len(plan)
      /\ UNCHANGED <<item, metered>> /\ Answered(u, plan, c)
  BY DEF Opens, AtomicInv, Base
<1>2. /\ rows'[u] = NewRows(plan, c) /\ DOMAIN rows'[u] = 1 .. c /\ c \in Nat
      /\ Len(rows'[u]) = c /\ \A v \in Uploads \ {u} : rows'[v] = rows[v]
      /\ \A t \in AnySession : t[1] # u => (Exists(t)' <=> Exists(t)) /\ Row(t)' = Row(t)
      /\ \A t \in AnySession : t[1] = u => ~Exists(t) /\ (Exists(t)' <=> t[2] \in 1 .. c)
  BY OpensRows
<1>3. /\ client'[u].state \in {"active", "waiting"}
      /\ client'[u].part = client[u].part /\ client'[u].size = client[u].size
      /\ \A v \in Uploads \ {u} : client'[v] = client[v]
  BY OpensWaits
<1>4. PICK m \in {"none", "UPLOADING"} : /\ multipart' = [multipart EXCEPT ![u] = m]
                                         /\ m = "none" => Len(plan) = 1
  BY DEF Opens
<1>5. ASSUME NEW v \in Uploads \ {u} PROVE Book(v)'
  <2>1. /\ item'[v] = item[v] /\ multipart'[v] = multipart[v] /\ client'[v] = client[v]
        /\ rows'[v] = rows[v] /\ Recorded(v)' = Recorded(v)
        /\ Serving(v)' <=> Serving(v)
        /\ InHandler(v)' <=> InHandler(v)
    BY <1>1, <1>2, <1>3, <1>4 DEF MoreTyped, Recorded, Serving, InHandler
  <2>2. Book(v) BY DEF BookInv
  <2> QED BY <1>1, <2>1, <2>2 DEF Book
<1>6. Book(u)'
  <2>1. Book(u) /\ item[u] = {} /\ client[u].part = 1 /\ client[u].size \in Sizes
    BY <1>1 DEF BookInv, Book
  <2>2. item'[u] = {} /\ ~InHandler(u)' BY <1>1, <2>1 DEF InHandler
  <2>3. Len(rows'[u]) <= client'[u].size
    <3>1. /\ Len(plan) <= client[u].size /\ Len(plan) \in Nat BY <1>1 DEF Fits, PlanType
    <3>2. client[u].size \in Nat BY <2>1, UploadAssumption
    <3>3. c <= Len(plan) BY <1>1, <3>1
    <3>4. c <= client[u].size BY <1>2, <3>1, <3>2, <3>3
    <3> QED BY <1>2, <1>3, <3>4
  <2>4. multipart'[u] = "none" => Len(rows'[u]) <= 1
    <3>1. multipart'[u] = m BY <1>4 DEF MoreTyped
    <3>2. Len(plan) = 1 => c <= 1 BY <1>1
    <3> QED BY <1>2, <1>4, <3>1, <3>2
  <2>5. Serving(u)' => client'[u].size = Recorded(u)'
    <3>1. SUFFICES ASSUME client'[u].state = "active" PROVE client'[u].size = Recorded(u)'
      BY <1>1, <2>2 DEF Serving
    <3>2. c = Len(plan)
      <4>1. ~Answer(u, "waiting")
        <5>1. client[u] \in ClientType BY <1>1 DEF Typed
        <5>2. [client[u] EXCEPT !.state = "waiting"].state = "waiting"
          BY <5>1, ClientNextState
        <5>3. Answer(u, "waiting") => client'[u] = [client[u] EXCEPT !.state = "waiting"]
          BY <1>1 DEF Answer, Typed
        <5> QED BY <3>1, <5>2, <5>3
      <4> QED BY <1>1, <4>1 DEF Answered
    <3>3. [i \in DOMAIN rows'[u] |-> rows'[u][i].size] = [i \in 1 .. c |-> plan[i].size]
      BY <1>2 DEF NewRows
    <3>4. Recorded(u)' = Placed(plan, c) BY <3>3 DEF Recorded, Placed
    <3> QED BY <1>1, <1>3, <3>2, <3>4 DEF Fits
  <2>6. Serving(u)' => \A i \in DOMAIN rows'[u] : i < client'[u].part => <<u, i>> \in metered'
    BY <1>2, <1>3, <2>1
  <2> QED BY <1>3, <2>1, <2>2, <2>3, <2>4, <2>5, <2>6 DEF Book
<1>7. ASSUME NEW s \in metered PROVE Exists(s)' /\ Row(s)'.status = "COMMITTED"
  <2>1. s \in AnySession /\ Exists(s) /\ Row(s).status = "COMMITTED" BY DEF MoreTyped, BookInv
  <2> QED BY <1>2, <2>1
<1>8. ASSUME NEW s \in known' PROVE Exists(s)'
  <2>1. s \in known \/ \E i \in 1 .. c : s = <<u, i>> BY <1>1 DEF Answered
  <2>2. CASE s \in known
    <3>1. s \in AnySession /\ Exists(s) BY <2>2 DEF MoreTyped, BookInv
    <3> QED BY <1>2, <3>1
  <2>3. CASE \E i \in 1 .. c : s = <<u, i>>
    <3>1. PICK i \in 1 .. c : s = <<u, i>> BY <2>3
    <3> QED BY <1>2, <3>1 DEF Exists
  <2> QED BY <2>1, <2>2, <2>3
<1> QED BY <1>1, <1>5, <1>6, <1>7, <1>8 DEF BookInv

LEMMA CommitBook ==
    ASSUME AtomicInv, MoreTyped, BookInv, Commits(busy.s), Commit(busy.s)
    PROVE  BookInv'
<1>1. PICK s : s = busy.s OBVIOUS
<1>2. PICK u : u = s[1] OBVIOUS
<1>3. /\ Typed /\ OneHandler /\ s \in AnySession /\ Exists(s) /\ Finalizing(s) /\ busy # Idle
      /\ rows' = [rows EXCEPT ![s[1]][s[2]].status = "COMMITTED"]
      /\ busy' = Idle /\ u \in Uploads /\ client[u] \in ClientType /\ InHandler(u)
      /\ s = <<u, s[2]>> /\ s[2] \in DOMAIN rows[u] /\ s[2] \in Nat
  BY <1>1, <1>2 DEF AtomicInv, Base, Commits, Finalizing, Typed, AnySession, InHandler, Exists
<1>4. Row(s).status = "UPLOADING" BY <1>3 DEF AtomicInv, SessionInv, RepliesTrue
<1>5. \A v \in Uploads : SameParts(v) BY <1>3, <1>4, EndedParts
<1>6. /\ client[u].state \in {"waiting", "failed"}
      /\ client[u].state = "waiting" => client[u].part = s[2] /\ Serving(u)
  BY <1>1, <1>2, <1>3 DEF OneHandler, Serving
<1>7. Exists(s)' /\ Row(s)'.status = "COMMITTED" BY <1>3, RowEnded
<1> DEFINE whole == multipart[u] = "none"
           d == [client[u] EXCEPT !.state = "done"]
           g == GoesOn(client[u], client[u].part + 1, 1)
<1>8. /\ item' = IF whole THEN [item EXCEPT ![u] = DOMAIN rows[u]] ELSE item
      /\ UNCHANGED multipart
      /\ \/ metered' = metered \cup {s} /\ Ends(u, IF whole THEN d ELSE g) /\ UNCHANGED known
         \/ UNCHANGED <<metered, client>> /\ known' = {}
  BY <1>1, <1>2 DEF Commit, Forgotten
<1>9. /\ \A v \in Uploads \ {u} : client'[v] = client[v]
      /\ client[u].state = "failed" => client'[u] = client[u]
      /\ client[u].state = "waiting" =>
           \/ client'[u] = client[u]
           \/ client'[u] = (IF whole THEN d ELSE g) /\ metered' = metered \cup {s}
      /\ metered \subseteq metered' /\ metered' \subseteq metered \cup {s} /\ known' \subseteq known
  <2> HIDE DEF d, g, whole
  <2>1. client[u].state = "failed" => client[u].state # "waiting" OBVIOUS
  <2> QED BY <1>3, <1>8, <2>1 DEF Ends, Typed
<1>10. /\ d.state = "done" /\ d.size = client[u].size
       /\ g.state = "active" /\ g.size = client[u].size /\ g.part = client[u].part + 1
  <2>1. d.state = "done" /\ d.size = client[u].size BY <1>3 DEF ClientType
  <2> QED BY <2>1 DEF GoesOn
<1> HIDE DEF d, g
<1>11. ASSUME NEW v \in Uploads \ {u} PROVE Book(v)'
  <2>1. /\ item'[v] = item[v] /\ multipart'[v] = multipart[v] /\ client'[v] = client[v]
        /\ rows'[v] = rows[v] /\ Recorded(v)' = Recorded(v)
        /\ Serving(v)' => Serving(v)
        /\ ~InHandler(v)'
    BY <1>2, <1>3, <1>8, <1>9 DEF Typed, MoreTyped, Recorded, Serving, InHandler
  <2>2. Book(v) BY DEF BookInv
  <2> QED BY <1>9, <2>1, <2>2 DEF Book
<1>12. Book(u)'
  <2>1. /\ Book(u) /\ SameParts(u) /\ client[u].size = Recorded(u) /\ client[u].size \in Sizes
    BY <1>3, <1>5 DEF BookInv, Book
  <2>2. Recorded(u)' = Recorded(u) BY <2>1, SameRecorded
  <2>3. client'[u].size = client[u].size /\ client'[u].state \in {"waiting", "failed", "done", "active"}
    BY <1>6, <1>9, <1>10
  <2>4. Len(rows'[u]) <= client'[u].size BY <2>1, <2>3 DEF Book, SameParts
  <2>5. multipart'[u] = "none" => Len(rows'[u]) <= 1 BY <1>8, <2>1 DEF Book, SameParts
  <2>6. whole => item'[u] = DOMAIN rows'[u] /\ item'[u] = {s[2]}
    <3>1. SUFFICES ASSUME whole PROVE item'[u] = DOMAIN rows'[u] /\ item'[u] = {s[2]}
      OBVIOUS
    <3>2. item'[u] = DOMAIN rows[u] /\ DOMAIN rows'[u] = DOMAIN rows[u]
      BY <1>3, <1>8, <2>1, <3>1 DEF SameParts, MoreTyped
    <3>3. Len(rows[u]) <= 1 /\ rows[u] \in Seq(RowType)
      BY <1>3, <2>1, <3>1 DEF Book, Typed, Rows
    <3>4. DOMAIN rows[u] = {s[2]} BY <1>3, <3>3
    <3> QED BY <3>2, <3>4
  <2>7. ~whole => item'[u] = {}
    <3>1. rows[u][s[2]].status = "UPLOADING" BY <1>2, <1>4 DEF Row
    <3>2. item[u] # {} => s[2] \in item[u] /\ rows[u][s[2]].status = "COMMITTED"
      BY <1>3, <2>1 DEF Book
    <3> QED BY <1>8, <3>1, <3>2
  <2>8. rows'[u][s[2]].status = "COMMITTED" BY <1>2, <1>7 DEF Row
  <2>9. client'[u].state = "done" => <<u, s[2]>> \in metered' /\ whole
    BY <1>3, <1>6, <1>9, <1>10
  <2>10. Serving(u)' => client'[u] = g /\ metered' = metered \cup {s} /\ client[u].state = "waiting"
    <3>1. client[u].state = "waiting" /\ Serving(u)' => client'[u] # client[u]
      BY <1>3 DEF Serving, InHandler
    <3>2. client[u].state = "failed" => ~Serving(u)' BY <1>9 DEF Serving
    <3>3. client'[u].state = "done" => ~Serving(u)' BY DEF Serving
    <3> QED BY <1>6, <1>9, <1>10, <3>1, <3>2, <3>3
  <2>11. Serving(u)' => \A i \in DOMAIN rows'[u] : i < client'[u].part => <<u, i>> \in metered'
    <3> SUFFICES ASSUME Serving(u)', NEW i \in DOMAIN rows'[u], i < client'[u].part
                 PROVE  <<u, i>> \in metered'
      OBVIOUS
    <3>1. i \in DOMAIN rows[u] /\ i \in Nat
      <4>1. rows[u] \in Seq(RowType) BY <1>3 DEF Typed, Rows
      <4> QED BY <2>1, <4>1 DEF SameParts
    <3>2. i < s[2] + 1 /\ client[u].part = s[2] /\ Serving(u) BY <1>6, <1>10, <2>10
    <3>3. CASE i = s[2] BY <1>3, <2>10, <3>3
    <3>4. CASE i # s[2]
      <4>1. i < client[u].part BY <1>3, <3>1, <3>2, <3>4
      <4>2. <<u, i>> \in metered BY <2>1, <3>1, <3>2, <4>1 DEF Book
      <4> QED BY <2>10, <4>2
    <3> QED BY <3>3, <3>4
  <2>12. ~InHandler(u)' BY <1>3 DEF InHandler
  <2> HIDE DEF whole
  <2> QED BY <2>1, <2>2, <2>3, <2>4, <2>5, <2>6, <2>7, <2>8, <2>9, <2>11 DEF Book
<1>13. /\ \A t \in metered : Exists(t)' /\ Row(t)'.status = "COMMITTED"
       /\ \A t \in known : Exists(t)'
  BY <1>5, MeteredKept
<1>14. \A t \in metered' : Exists(t)' /\ Row(t)'.status = "COMMITTED"
  BY <1>7, <1>9, <1>13
<1> QED BY <1>9, <1>11, <1>12, <1>13, <1>14 DEF BookInv

LEMMA BookKept ==
    ASSUME AtomicInv, MoreTyped, BookInv, [Next]_vars
    PROVE  BookInv'
<1>1. Typed /\ \A u \in Uploads : client[u].size >= 1
  <2>1. \A u \in Uploads : client[u].size \in Sizes BY DEF BookInv, Book
  <2>2. \A z \in Sizes : z \in Nat \ {0} BY UploadAssumption
  <2>3. \A z \in Sizes : z >= 1 BY <2>2
  <2> QED BY <2>1, <2>3 DEF AtomicInv, Base
<1>2. CASE QuietStep
  <2>1. BookSame /\ ClientsQuiet BY <1>2 DEF QuietStep
  <2>2. CASE UNCHANGED rows
    <3>1. \A u \in Uploads : SameParts(u) BY <2>2, UnchangedParts
    <3> QED BY <2>1, <3>1, QuietBook
  <2>3. ASSUME NEW s \in AnySession, Aborts(s), rows' # rows PROVE BookInv'
    <3>1. /\ Exists(s) /\ Row(s).status = "UPLOADING"
          /\ rows' = [rows EXCEPT ![s[1]][s[2]].status = "ABORTED"]
      BY <2>3 DEF Aborts, AtomicInv, SessionInv, RepliesTrue
    <3>2. \A u \in Uploads : SameParts(u) BY <1>1, <3>1, EndedParts
    <3> QED BY <2>1, <3>2, QuietBook
  <2>4. \/ UNCHANGED rows
        \/ \E s \in AnySession : Aborts(s) /\ rows' # rows
    BY <1>2 DEF QuietStep, Still, Loses, BeginsRound, Asks
  <2> QED BY <2>2, <2>3, <2>4
<1>3. ASSUME Begins PROVE BookInv'
  <2>1. PICK u \in Uploads : \E plan, c, d : Opens(u, plan, c, d) BY <1>3 DEF Begins
  <2>2. PICK plan, c, d : Opens(u, plan, c, d) BY <2>1
  <2> QED BY <2>2, OpensBook
<1>4. ASSUME NEW u \in Uploads, Finishes(u) PROVE BookInv'
  BY <1>1, <1>4, FinishBook
<1>5. CASE Commits(busy.s) /\ Commit(busy.s) BY <1>5, CommitBook
<1>6. ASSUME NEW n \in Nodes, NodeNext(n) PROVE BookInv'
  <2>1. UNCHANGED <<rows, multipart, item, metered, known, busy, client>>
    BY <1>6, NodeStepBooks
  <2>2. BookSame /\ ClientsQuiet BY <2>1 DEF BookSame, ClientsQuiet, Serving, InHandler
  <2>3. \A u \in Uploads : SameParts(u) BY <2>1, UnchangedParts
  <2> QED BY <2>2, <2>3, QuietBook
<1> QED BY <1>1, <1>2, <1>3, <1>4, <1>5, <1>6, StepShape

-----------------------------------------------------------------------------
(* A file of size z has at most z parts, so that all sessions are known. *)

LEMMA LargestSize ==
    Max(Sizes) \in Nat /\ \A z \in Sizes : z <= Max(Sizes)
<1>1. /\ IsFiniteSet(Sizes) /\ Sizes # {} /\ \A z \in Sizes : z \in Nat
  BY UploadAssumption
<1>2. PICK f : f = [z \in Sizes |-> z] OBVIOUS
<1>3. f \in [Sizes -> Nat] /\ \A z \in Sizes : f[z] = z BY <1>1, <1>2
<1>4. PICK b : b = TotalOf(f) OBVIOUS
<1>5. b \in Nat BY <1>1, <1>3, <1>4, TotalType
<1>6. ASSUME NEW z \in Sizes PROVE z <= b
  <2>1. PICK g : g = [f EXCEPT ![z] = 0] OBVIOUS
  <2>2. g \in [Sizes -> Nat] /\ g[z] = 0 /\ \A y \in Sizes \ {z} : g[y] = f[y]
    BY <1>3, <2>1
  <2>3. TotalOf(g) = TotalOf(f) - f[z] + g[z] BY <1>1, <1>3, <2>2, TotalChange
  <2>4. TotalOf(g) \in Nat BY <1>1, <2>2, TotalType
  <2> QED BY <1>1, <1>3, <1>4, <1>5, <2>2, <2>3, <2>4
<1> DEFINE T == {k \in Nat : \A z \in Sizes : z <= k}
<1>7. T \in SUBSET Nat /\ T # {} BY <1>5, <1>6
<1>8. PICK k \in T : \A y \in T : k <= y
  <2> HIDE DEF T
  <2> QED BY <1>7, LeastNat
<1>9. k \in Nat /\ \A z \in Sizes : z <= k BY <1>8
<1>10. k \in Sizes
  <2> SUFFICES ASSUME k \notin Sizes PROVE FALSE OBVIOUS
  <2>1. \A z \in Sizes : z <= k - 1 BY <1>1, <1>9
  <2>2. k - 1 \in Nat
    <3>1. PICK z \in Sizes : z \in Nat BY <1>1
    <3> QED BY <1>9, <2>1, <3>1
  <2>3. k - 1 \in T BY <2>1, <2>2
  <2>4. k <= k - 1 BY <1>8, <2>3
  <2> QED BY <1>9, <2>4
<1>11. \E x \in Sizes : \A y \in Sizes : x >= y BY <1>1, <1>9, <1>10
<1>12. Max(Sizes) \in Sizes /\ \A y \in Sizes : Max(Sizes) >= y BY <1>11 DEF Max
<1> QED BY <1>1, <1>12

LEMMA KnownSessions ==
    ASSUME Typed, BookInv
    PROVE  /\ \A u \in Uploads : DOMAIN rows[u] \subseteq Parts
           /\ \A s \in AnySession : Exists(s) => s \in Sessions
<1>1. ASSUME NEW u \in Uploads PROVE DOMAIN rows[u] \subseteq Parts
  <2>1. rows[u] \in Seq(RowType) /\ client[u].size \in Sizes /\ Len(rows[u]) <= client[u].size
    BY DEF Typed, Rows, BookInv, Book
  <2>2. client[u].size \in Nat /\ client[u].size <= Max(Sizes) /\ Max(Sizes) \in Nat
    BY <2>1, LargestSize, UploadAssumption
  <2> QED BY <2>1, <2>2 DEF Parts
<1>2. ASSUME NEW s \in AnySession, Exists(s) PROVE s \in Sessions
  BY <1>1, <1>2 DEF AnySession, Exists, Sessions
<1> QED BY <1>1, <1>2

UploadInv == AtomicInv /\ MoreTyped /\ BookInv /\ \A n \in Nodes : NodeView(n)

LEMMA FramesOfSessions ==
    ASSUME NEW q \in Frames, \A k \in 1 .. Len(q) : q[k].s \in Sessions
    PROVE  q \in Seq(Frame)
<1>1. q \in Seq(FrameType) /\ Len(q) \in Nat BY DEF Frames
<1>2. ASSUME NEW k \in 1 .. Len(q) PROVE q[k] \in Frame
  <2>1. q[k] \in FrameType /\ q[k].s \in Sessions BY <1>1
  <2> QED BY <2>1 DEF FrameType, Frame
<1> QED BY <1>1, <1>2

LEMMA WellTyped ==
    ASSUME UploadInv
    PROVE  TypeOK
<1>1. /\ Typed /\ MoreTyped /\ OneHandler /\ BookInv /\ \A n \in Nodes : Addressed(n)
  BY DEF UploadInv, AtomicInv, Base, NodeView
<1>2. /\ \A u \in Uploads : DOMAIN rows[u] \subseteq Parts
      /\ \A s \in AnySession : Exists(s) => s \in Sessions
  BY <1>1, KnownSessions
<1>3. rows \in [Uploads -> Seq([size : Nat, nodes : SUBSET Nodes,
                                status : {"UPLOADING", "COMMITTED", "ABORTED"}])]
  BY <1>1 DEF Typed, Rows, RowType
<1>4. item \in [Uploads -> SUBSET Parts]
  <2>1. \A u \in Uploads : item[u] \subseteq Parts
    <3>1. \A u \in Uploads : item[u] = {} \/ item[u] = DOMAIN rows[u]
      BY <1>1 DEF BookInv, Book
    <3> QED BY <1>2, <3>1
  <2> QED BY <1>1, <2>1 DEF MoreTyped
<1>5. metered \subseteq Sessions /\ known \subseteq Sessions
  BY <1>1, <1>2 DEF MoreTyped, BookInv
<1>6. busy \in {Idle} \cup
         [op : {"chunk_ack", "commit_check_reply", "commit_finalize_reply"},
          s : Sessions, replied : SUBSET Nodes, ok : BOOLEAN]
  BY <1>1, <1>2 DEF Typed, WaitType, OneHandler
<1>7. client \in [Uploads -> [state : {"idle", "active", "waiting", "done",
                                       "refused", "failed"},
                              size : Nat, part : Nat, chunk : Nat]]
  BY <1>1 DEF Typed, ClientType
<1>8. ASSUME NEW n \in Nodes
      PROVE  /\ toNode[n] \in Seq(Frame) /\ toServer[n] \in Seq(Frame)
             /\ open[n] \subseteq Sessions /\ stored[n] \subseteq Sessions
             /\ tmp[n] \subseteq Sessions \X Nat
  <2>1. /\ toNode[n] \in Frames /\ toServer[n] \in Frames /\ stored[n] \subseteq AnySession
        /\ open[n] \subseteq AnySession /\ tmp[n] \subseteq AnySession \X Nat
    BY <1>1 DEF Typed, MoreTyped
  <2>2. /\ \A k \in 1 .. Len(toNode[n]) : toNode[n][k].s \in AnySession
        /\ \A k \in 1 .. Len(toServer[n]) : toServer[n][k].s \in AnySession
    BY <1>1, TypedQueues
  <2>3. \A k \in 1 .. Len(toNode[n]) : toNode[n][k].s \in Sessions
    BY <1>1, <1>2, <2>2 DEF Addressed, QueueRight, Right, On
  <2>4. \A k \in 1 .. Len(toServer[n]) : toServer[n][k].s \in Sessions
    BY <1>1, <1>2, <2>2 DEF Addressed, ServerOn, On
  <2>5. open[n] \subseteq Sessions /\ stored[n] \subseteq Sessions
    BY <1>1, <1>2, <2>1 DEF Addressed, FilesRight, On
  <2>6. ASSUME NEW x \in tmp[n] PROVE x \in Sessions \X Nat
    <3>1. x \in AnySession \X Nat /\ Exists(x[1]) BY <1>1, <2>1 DEF Addressed, FilesRight, On
    <3> QED BY <1>2, <3>1
  <2> QED BY <2>1, <2>3, <2>4, <2>5, <2>6, FramesOfSessions
<1>9. /\ toNode \in [Nodes -> Seq(Frame)] /\ toServer \in [Nodes -> Seq(Frame)]
      /\ open \in [Nodes -> SUBSET Sessions] /\ stored \in [Nodes -> SUBSET Sessions]
      /\ tmp \in [Nodes -> SUBSET (Sessions \X Nat)]
  BY <1>1, <1>8 DEF Typed, MoreTyped
<1>10. /\ multipart \in [Uploads -> {"none", "UPLOADING", "FINALIZED"}]
       /\ reserved \in [Nodes -> Nat] /\ lossy \subseteq Nodes /\ troubled \in BOOLEAN
       /\ disturbances \in 0 .. MaxDisturbances
  BY <1>1 DEF MoreTyped
<1> QED BY <1>3, <1>4, <1>5, <1>6, <1>7, <1>9, <1>10 DEF TypeOK

LEMMA InitInv ==
    ASSUME Init
    PROVE  UploadInv
<1>1. AtomicInv BY InitKeeps
<1>2. ASSUME NEW u \in Uploads
      PROVE  /\ client[u].state = "idle" /\ client[u].size \in Sizes /\ client[u].part = 1
             /\ client[u].chunk = 1
  <2>1. client[u] \in [state : {"idle"}, size : Sizes, part : {1}, chunk : {1}] BY DEF Init
  <2> QED BY <2>1
<1>3. MoreTyped
  <2>1. /\ multipart \in [Uploads -> {"none", "UPLOADING", "FINALIZED"}]
        /\ item \in [Uploads -> SUBSET Nat] /\ reserved \in [Nodes -> Nat]
        /\ open \in [Nodes -> SUBSET AnySession]
        /\ tmp \in [Nodes -> SUBSET (AnySession \X Nat)]
    BY DEF Init
  <2>2. disturbances \in 0 .. MaxDisturbances BY UploadAssumption DEF Init
  <2>3. \A u \in Uploads : client[u].chunk >= 1 BY <1>2
  <2>4. metered = {} /\ known = {} /\ lossy = {} /\ troubled = FALSE BY DEF Init
  <2> QED BY <2>1, <2>2, <2>3, <2>4 DEF MoreTyped
<1>4. BookInv
  <2>1. ASSUME NEW u \in Uploads PROVE Book(u)
    <3>1. /\ rows[u] = <<>> /\ item[u] = {} /\ ~Serving(u) /\ ~InHandler(u)
          /\ client[u].state = "idle"
      BY <1>2 DEF Init, Serving, InHandler
    <3>2. Len(rows[u]) = 0 /\ client[u].size \in Nat BY <1>2, <3>1, UploadAssumption
    <3> QED BY <1>2, <3>1, <3>2 DEF Book
  <2> QED BY <2>1 DEF Init, BookInv
<1>5. ASSUME NEW n \in Nodes PROVE NodeView(n)
  <2>1. /\ Len(toNode[n]) = 0 /\ Len(toServer[n]) = 0 /\ open[n] = {} /\ stored[n] = {}
        /\ tmp[n] = {}
    BY DEF Init
  <2>2. Addressed(n) /\ InitFirst(n)
    BY <2>1 DEF Addressed, QueueRight, ServerOn, FilesRight, InitFirst
  <2>3. ASSUME NEW s \in AnySession PROVE SessionOn(n, s)
    <3>1. ~Exists(s) /\ ~Finalizing(s) /\ ~Checking(s)
      BY DEF Init, Exists, AnySession, Finalizing, Checking
    <3>2. \A op : ~Has(toNode[n], op, s) BY <2>1 DEF Has
    <3>3. ~Vouched(n, s) /\ ~On(n, s) /\ ~Aborted(s)
      BY <2>1, <3>1 DEF Vouched, Vouches, On, Aborted
    <3> QED BY <2>1, <3>1, <3>2, <3>3
        DEF SessionOn, StoredClean, OneFinal, FinalReady, Joined, FinalOut, Erasable, Erased
  <2> QED BY <2>2, <2>3 DEF NodeView
<1> QED BY <1>1, <1>3, <1>4, <1>5 DEF UploadInv

LEMMA NextInv ==
    ASSUME UploadInv, [Next]_vars
    PROVE  UploadInv'
<1>1. AtomicInv /\ MoreTyped /\ BookInv /\ \A n \in Nodes : NodeView(n) BY DEF UploadInv
<1>2. \A u \in Uploads : client[u].size >= 1
  <2>1. \A u \in Uploads : client[u].size \in Sizes BY <1>1 DEF BookInv, Book
  <2>2. \A z \in Sizes : z \in Nat \ {0} BY UploadAssumption
  <2> QED BY <2>1, <2>2
<1>3. AtomicInv' BY <1>1, NextKeeps
<1>4. MoreTyped' BY <1>1, <1>2, MoreTypedKept
<1>5. BookInv' BY <1>1, BookKept
<1>6. \A n \in Nodes : NodeView(n)' BY <1>1, <1>2, ViewKept
<1> QED BY <1>3, <1>4, <1>5, <1>6 DEF UploadInv

-----------------------------------------------------------------------------
(* The ledger: what is reserved on a node covers all that may still be put  *)
(* there, and a node that keeps up has room for every session it has or     *)
(* will have once it has worked through its next p frames.                  *)

Present(n, s) == s \in open[n] \/ s \in stored[n]
Occupies(n, s, p) ==
    /\ Present(n, s) \/ Before(n, "init_session", s, p)
    /\ ~Before(n, "delete_object", s, p)

(* Sessions that are, or may yet be, committed *)
Standing(s) ==
    \/ Row(s).status = "COMMITTED"
    \/ Row(s).status = "UPLOADING" /\ (MayFinalize(s) \/ Finalizing(s))

Held(n, s) ==
    On(n, s) /\ (Standing(s) \/ (n \notin lossy /\ Occupies(n, s, Len(toNode[n]))))
Takes(n, s, p) == On(n, s) /\ Occupies(n, s, p)

HeldSizes(n) == [s \in Sessions |-> IF Held(n, s) THEN Row(s).size ELSE 0]
TakenSizes(n, p) == [s \in Sessions |-> IF Takes(n, s, p) THEN Row(s).size ELSE 0]

Covered(n) == TotalOf(HeldSizes(n)) <= reserved[n] /\ reserved[n] <= Capacity[n]
Room(n) ==
    n \notin lossy =>
        \A p \in 0 .. Len(toNode[n]) : TotalOf(TakenSizes(n, p)) <= Capacity[n]
Ledger == \A n \in Nodes : Covered(n) /\ Room(n)

LEMMA FiniteSessions == /\ IsFiniteSet(Sessions) /\ Sessions \subseteq AnySession
                        /\ \A n \in Nodes : Capacity[n] \in Nat
<1>1. IsFiniteSet(Uploads) BY UploadAssumption
<1>2. Max(Sizes) \in Nat BY LargestSize
<1>3. IsFiniteSet(Parts)
  <2>1. PICK k : k = Max(Sizes) OBVIOUS
  <2>2. IsFiniteSet(1 .. k) BY <1>2, <2>1, FS_Interval
  <2> QED BY <2>1, <2>2 DEF Parts
<1>4. IsFiniteSet(Uploads \X Parts) BY <1>1, <1>3, FS_Product
<1>5. Sessions \subseteq AnySession BY <1>2 DEF Sessions, Parts, AnySession
<1> QED BY <1>4, <1>5, UploadAssumption DEF Sessions

LEMMA SizesTyped ==
    ASSUME Typed
    PROVE  \A n : /\ HeldSizes(n) \in [Sessions -> Nat]
                  /\ \A p : TakenSizes(n, p) \in [Sessions -> Nat]
<1>1. ASSUME NEW s \in Sessions, Exists(s) PROVE Row(s).size \in Nat
  <2>1. Row(s) \in RowType BY <1>1, FiniteSessions, RowOfType
  <2> QED BY <2>1 DEF RowType
<1> QED BY <1>1 DEF HeldSizes, TakenSizes, Held, Takes, On

LEMMA SizesKept ==
    ASSUME Typed, RowsKept
    PROVE  \A n : /\ HeldSizes(n)' \in [Sessions -> Nat]
                  /\ \A p : TakenSizes(n, p)' \in [Sessions -> Nat]
<1>1. ASSUME NEW s \in Sessions, Exists(s)' PROVE Row(s)'.size \in Nat
  <2>1. Exists(s) /\ s \in AnySession /\ Row(s)'.size = Row(s).size
    BY <1>1, FiniteSessions DEF RowsKept
  <2>2. Row(s) \in RowType BY <2>1, RowOfType
  <2> QED BY <2>1, <2>2 DEF RowType
<1> QED BY <1>1 DEF HeldSizes, TakenSizes, Held, Takes, On

LEMMA TotalsTyped ==
    ASSUME Typed
    PROVE  \A n : /\ TotalOf(HeldSizes(n)) \in Nat
                  /\ \A p : TotalOf(TakenSizes(n, p)) \in Nat
<1>1. IsFiniteSet(Sessions) BY FiniteSessions
<1>2. ASSUME NEW n
      PROVE  /\ TotalOf(HeldSizes(n)) \in Nat
             /\ \A p : TotalOf(TakenSizes(n, p)) \in Nat
  <2>1. /\ HeldSizes(n) \in [Sessions -> Nat] /\ \A p : TakenSizes(n, p) \in [Sessions -> Nat]
    BY SizesTyped
  <2>2. ASSUME NEW f \in [Sessions -> Nat] PROVE TotalOf(f) \in Nat BY <1>1, TotalType
  <2> QED BY <2>1, <2>2
<1> QED BY <1>2

(* Fewer sessions take less. *)
LEMMA FewerHeld ==
    ASSUME Typed, RowsKept, NEW n, \A s \in Sessions : Held(n, s)' => Held(n, s)
    PROVE  TotalOf(HeldSizes(n)') <= TotalOf(HeldSizes(n))
<1>1. PICK f : f = HeldSizes(n) OBVIOUS
<1>2. PICK g : g = HeldSizes(n)' OBVIOUS
<1>3. f \in [Sessions -> Nat] BY <1>1, SizesTyped
<1>4. g \in [Sessions -> Nat] BY <1>2, SizesKept
<1>5. \A s \in Sessions : g[s] <= f[s]
  <2>1. ASSUME NEW s \in Sessions, Held(n, s)' PROVE g[s] = f[s]
    <3>1. Held(n, s) /\ Exists(s) BY <2>1 DEF Held, On
    <3>2. Row(s)'.size = Row(s).size BY <3>1, FiniteSessions DEF RowsKept
    <3> QED BY <1>1, <1>2, <2>1, <3>1, <3>2 DEF HeldSizes
  <2>2. ASSUME NEW s \in Sessions, ~Held(n, s)' PROVE g[s] = 0
    BY <1>2, <2>2 DEF HeldSizes
  <2>3. ASSUME NEW s \in Sessions PROVE f[s] \in Nat BY <1>3
  <2>4. ASSUME NEW s \in Sessions PROVE g[s] <= f[s] BY <2>1, <2>2, <2>3
  <2> QED BY <2>4
<1>6. IsFiniteSet(Sessions) BY FiniteSessions
<1>7. TotalOf(g) <= TotalOf(f) BY <1>3, <1>4, <1>5, <1>6, TotalMonotone
<1> QED BY <1>1, <1>2, <1>7

LEMMA FewerTake ==
    ASSUME Typed, RowsKept, NEW n, NEW p, NEW q,
           \A s \in Sessions : Takes(n, s, q)' => Takes(n, s, p)
    PROVE  TotalOf(TakenSizes(n, q)') <= TotalOf(TakenSizes(n, p))
<1>1. PICK f : f = TakenSizes(n, p) OBVIOUS
<1>2. PICK g : g = TakenSizes(n, q)' OBVIOUS
<1>3. f \in [Sessions -> Nat] BY <1>1, SizesTyped
<1>4. g \in [Sessions -> Nat] BY <1>2, SizesKept
<1>5. \A s \in Sessions : g[s] <= f[s]
  <2>1. ASSUME NEW s \in Sessions, Takes(n, s, q)' PROVE g[s] = f[s]
    <3>1. Takes(n, s, p) /\ Exists(s) BY <2>1 DEF Takes, On
    <3>2. Row(s)'.size = Row(s).size BY <3>1, FiniteSessions DEF RowsKept
    <3> QED BY <1>1, <1>2, <2>1, <3>1, <3>2 DEF TakenSizes
  <2>2. ASSUME NEW s \in Sessions, ~Takes(n, s, q)' PROVE g[s] = 0
    BY <1>2, <2>2 DEF TakenSizes
  <2>3. ASSUME NEW s \in Sessions PROVE f[s] \in Nat BY <1>3
  <2>4. ASSUME NEW s \in Sessions PROVE g[s] <= f[s] BY <2>1, <2>2, <2>3
  <2> QED BY <2>4
<1>6. IsFiniteSet(Sessions) BY FiniteSessions
<1>7. TotalOf(g) <= TotalOf(f) BY <1>3, <1>4, <1>5, <1>6, TotalMonotone
<1> QED BY <1>1, <1>2, <1>7

(* One session less, of those held *)
LEMMA OneLessHeld ==
    ASSUME Typed, RowsKept, NEW n, NEW s \in Sessions, Held(n, s), ~Held(n, s)',
           \A t \in Sessions \ {s} : Held(n, t)' => Held(n, t)
    PROVE  TotalOf(HeldSizes(n)') + Row(s).size <= TotalOf(HeldSizes(n))
<1>1. PICK f : f = HeldSizes(n) OBVIOUS
<1>2. PICK g : g = HeldSizes(n)' OBVIOUS
<1>3. f \in [Sessions -> Nat] BY <1>1, SizesTyped
<1>4. g \in [Sessions -> Nat] BY <1>2, SizesKept
<1>5. PICK h : h = [f EXCEPT ![s] = 0] OBVIOUS
<1>6. h \in [Sessions -> Nat] /\ h[s] = 0 /\ \A t \in Sessions \ {s} : h[t] = f[t]
  BY <1>3, <1>5
<1>7. f[s] = Row(s).size /\ g[s] = 0 BY <1>1, <1>2 DEF HeldSizes
<1>8. \A t \in Sessions : g[t] <= h[t]
  <2>1. ASSUME NEW t \in Sessions \ {s}, Held(n, t)' PROVE g[t] = h[t]
    <3>1. Held(n, t) /\ Exists(t) BY <2>1 DEF Held, On
    <3>2. Row(t)'.size = Row(t).size BY <3>1, FiniteSessions DEF RowsKept
    <3>3. g[t] = f[t] BY <1>1, <1>2, <2>1, <3>1, <3>2 DEF HeldSizes
    <3> QED BY <1>6, <3>3
  <2>2. ASSUME NEW t \in Sessions, ~Held(n, t)' PROVE g[t] = 0
    BY <1>2, <2>2 DEF HeldSizes
  <2>3. ASSUME NEW t \in Sessions PROVE h[t] \in Nat BY <1>6
  <2>4. ASSUME NEW t \in Sessions PROVE g[t] <= h[t] BY <1>6, <1>7, <2>1, <2>2, <2>3
  <2> QED BY <2>4
<1>9. IsFiniteSet(Sessions) BY FiniteSessions
<1>10. TotalOf(g) <= TotalOf(h) BY <1>4, <1>6, <1>8, <1>9, TotalMonotone
<1>11. TotalOf(h) = TotalOf(f) - f[s] + h[s] BY <1>3, <1>6, <1>9, TotalChange
<1>12. TotalOf(g) \in Nat /\ TotalOf(h) \in Nat /\ TotalOf(f) \in Nat /\ f[s] \in Nat
  BY <1>3, <1>4, <1>6, <1>9, TotalType
<1>13. TotalOf(g) + f[s] <= TotalOf(f) BY <1>6, <1>10, <1>11, <1>12
<1> QED BY <1>1, <1>2, <1>7, <1>13

(* A node that keeps up, and is at most sent one frame more: no init_session *)
Carry(n) ==
    n \notin lossy' =>
        /\ n \notin lossy
        /\ open'[n] = open[n] /\ tmp'[n] = tmp[n] /\ stored'[n] = stored[n]
        /\ \/ toNode'[n] = toNode[n]
           \/ \E f \in FrameType : /\ f.op # "init_session"
                                   /\ toNode'[n] = Append(toNode[n], f)

LEMMA CarryOccupies ==
    ASSUME Typed, NEW n \in Nodes, Carry(n), n \notin lossy', NEW p \in 0 .. Len(toNode'[n])
    PROVE  \E q \in 0 .. Len(toNode[n]) :
             /\ p = Len(toNode'[n]) => q = Len(toNode[n])
             /\ \A s : Occupies(n, s, p)' => Occupies(n, s, q)
<1>1. toNode[n] \in Seq(FrameType) /\ Len(toNode[n]) \in Nat BY TypedQueues
<1>2. /\ open'[n] = open[n] /\ tmp'[n] = tmp[n] /\ stored'[n] = stored[n]
      /\ \/ toNode'[n] = toNode[n]
         \/ \E f \in FrameType : f.op # "init_session" /\ toNode'[n] = Append(toNode[n], f)
  BY DEF Carry
<1>3. \A s : Present(n, s)' <=> Present(n, s) BY <1>2 DEF Present
<1>4. CASE toNode'[n] = toNode[n]
  <2>1. \A op, s : Before(n, op, s, p)' <=> Before(n, op, s, p) BY <1>4 DEF Before
  <2>2. \A s : Occupies(n, s, p)' => Occupies(n, s, p) BY <1>3, <2>1 DEF Occupies
  <2> QED BY <1>4, <2>2
<1>5. CASE toNode'[n] # toNode[n]
  <2>1. PICK f \in FrameType : f.op # "init_session" /\ toNode'[n] = Append(toNode[n], f)
    BY <1>2, <1>5
  <2>2. PICK L : L = Len(toNode[n]) OBVIOUS
  <2>3. PICK x : x = toNode[n] OBVIOUS
  <2>4. PICK y : y = toNode'[n] OBVIOUS
  <2>5. /\ x \in Seq(FrameType) /\ L = Len(x) /\ y = Append(x, f) /\ L \in Nat
    BY <1>1, <2>1, <2>2, <2>3, <2>4
  <2>6. Len(y) = L + 1 /\ y[L + 1] = f /\ \A k \in 1 .. L : y[k] = x[k] BY <2>5
  <2>7. p \in 0 .. L + 1 BY <2>4, <2>6
  <2>8. CASE p <= L
    <3>1. \A k \in 1 .. p : y[k] = x[k] BY <2>5, <2>6, <2>7, <2>8
    <3>2. \A op, s : Before(n, op, s, p)' <=> Before(n, op, s, p)
      BY <2>3, <2>4, <3>1 DEF Before
    <3>3. \A s : Occupies(n, s, p)' => Occupies(n, s, p) BY <1>3, <3>2 DEF Occupies
    <3>4. p \in 0 .. L /\ p # Len(y) BY <2>5, <2>6, <2>7, <2>8
    <3> QED BY <2>2, <2>4, <3>3, <3>4
  <2>9. CASE p = L + 1
    <3>1. \A k \in 1 .. p : k \in 1 .. L \/ k = L + 1 BY <2>5, <2>9
    <3>2. \A k \in 1 .. L : k \in 1 .. p BY <2>5, <2>9
    <3>3. \A s : Before(n, "init_session", s, p)' => Before(n, "init_session", s, L)
      BY <2>1, <2>3, <2>4, <2>6, <3>1 DEF Before, Is
    <3>4. \A s : Before(n, "delete_object", s, L) => Before(n, "delete_object", s, p)'
      BY <2>3, <2>4, <2>6, <3>2 DEF Before
    <3>5. \A s : Occupies(n, s, p)' => Occupies(n, s, L) BY <1>3, <3>3, <3>4 DEF Occupies
    <3>6. L \in 0 .. L BY <2>5
    <3> QED BY <2>2, <3>5, <3>6
  <2>10. p <= L \/ p = L + 1 BY <2>5, <2>7
  <2> QED BY <2>8, <2>9, <2>10
<1> QED BY <1>4, <1>5

LEMMA CarryRoom ==
    ASSUME Typed, RowsKept, NEW n \in Nodes, Carry(n), Room(n)
    PROVE  Room(n)'
<1> SUFFICES ASSUME n \notin lossy', NEW p \in 0 .. Len(toNode'[n])
             PROVE  TotalOf(TakenSizes(n, p)') <= Capacity[n]
  BY DEF Room
<1>1. PICK q \in 0 .. Len(toNode[n]) : \A s : Occupies(n, s, p)' => Occupies(n, s, q)
  BY CarryOccupies
<1>2. \A s \in Sessions : Takes(n, s, p)' => Takes(n, s, q)
  BY <1>1, OnKept, FiniteSessions DEF Takes
<1>3. TotalOf(TakenSizes(n, p)') <= TotalOf(TakenSizes(n, q)) BY <1>2, FewerTake
<1>4. TotalOf(TakenSizes(n, q)) <= Capacity[n] BY DEF Room, Carry
<1>5. /\ TotalOf(TakenSizes(n, p)') \in Nat /\ TotalOf(TakenSizes(n, q)) \in Nat
      /\ Capacity[n] \in Nat
  <2>1. TakenSizes(n, p)' \in [Sessions -> Nat] BY SizesKept
  <2>2. TotalOf(TakenSizes(n, p)') \in Nat
    <3>1. PICK g : g = TakenSizes(n, p)' OBVIOUS
    <3>2. TotalOf(g) \in Nat BY <2>1, <3>1, TotalType, FiniteSessions
    <3> QED BY <3>1, <3>2
  <2> QED BY <2>2, TotalsTyped, FiniteSessions
<1> QED BY <1>3, <1>4, <1>5

LEMMA CarryHeld ==
    ASSUME Typed, RowsKept, NEW n \in Nodes, Carry(n), NEW s \in Sessions,
           Standing(s)' => Standing(s) \/ ~On(n, s)
    PROVE  Held(n, s)' => Held(n, s)
<1> SUFFICES ASSUME Held(n, s)' PROVE Held(n, s) OBVIOUS
<1>1. On(n, s) /\ On(n, s)'
  <2>1. On(n, s)' BY DEF Held
  <2> QED BY <2>1, OnKept, FiniteSessions
<1>2. CASE Standing(s)' BY <1>1, <1>2 DEF Held
<1>3. CASE ~Standing(s)'
  <2>1. n \notin lossy' /\ Occupies(n, s, Len(toNode[n]))' BY <1>3 DEF Held
  <2>2. PICK p : p = Len(toNode'[n]) OBVIOUS
  <2>3. Occupies(n, s, p)' BY <2>1, <2>2 DEF Occupies, Before
  <2>4. p \in 0 .. Len(toNode'[n])
    <3>1. toNode'[n] \in Seq(FrameType)
      <4>1. toNode[n] \in Seq(FrameType) BY TypedQueues
      <4> QED BY <2>1, <4>1 DEF Carry
    <3> QED BY <2>2, <3>1
  <2>5. PICK q \in 0 .. Len(toNode[n]) :
             /\ p = Len(toNode'[n]) => q = Len(toNode[n])
             /\ \A t : Occupies(n, t, p)' => Occupies(n, t, q)
    BY <2>1, <2>4, CarryOccupies
  <2>6. Occupies(n, s, q) /\ q = Len(toNode[n]) BY <2>2, <2>3, <2>5
  <2>7. n \notin lossy BY <2>1 DEF Carry
  <2> QED BY <1>1, <2>6, <2>7 DEF Held
<1> QED BY <1>2, <1>3

LEMMA CarryCovered ==
    ASSUME Typed, MoreTyped, RowsKept, NEW n \in Nodes, Carry(n), Covered(n), reserved'[n] = reserved[n],
           \A s \in Sessions : Standing(s)' => Standing(s) \/ ~On(n, s)
    PROVE  Covered(n)'
<1>1. \A s \in Sessions : Held(n, s)' => Held(n, s) BY CarryHeld
<1>2. TotalOf(HeldSizes(n)') <= TotalOf(HeldSizes(n)) BY <1>1, FewerHeld
<1>3. TotalOf(HeldSizes(n)) <= reserved[n] /\ reserved[n] <= Capacity[n] BY DEF Covered
<1>4. TotalOf(HeldSizes(n)') \in Nat /\ TotalOf(HeldSizes(n)) \in Nat /\ reserved[n] \in Nat
  <2>1. HeldSizes(n)' \in [Sessions -> Nat] BY SizesKept
  <2>2. PICK g : g = HeldSizes(n)' OBVIOUS
  <2>3. TotalOf(g) \in Nat BY <2>1, <2>2, TotalType, FiniteSessions
  <2>4. TotalOf(HeldSizes(n)') \in Nat BY <2>2, <2>3
  <2> QED BY <2>4, TotalsTyped DEF MoreTyped
<1>5. TotalOf(HeldSizes(n)') <= reserved[n] BY <1>2, <1>3, <1>4
<1> QED BY <1>3, <1>5 DEF Covered

(* Still frames, frames asked for, a round begun, a commit, losses *)
LEMMA SentCarries ==
    ASSUME NEW n \in Nodes, NEW ns, NEW f \in FrameType, f.op # "init_session",
           toNode' = SentTo(ns, f), UNCHANGED <<open, tmp, stored, lossy>>
    PROVE  Carry(n)
<1>1. /\ n \in ns => toNode'[n] = Append(toNode[n], f)
      /\ n \notin ns => toNode'[n] = toNode[n]
  BY SentToNode
<1> QED BY <1>1 DEF Carry

LEMMA QuietCarries ==
    ASSUME AtomicInv, MoreTyped,
           \/ Still \/ Loses
           \/ \E s \in AnySession : \/ BeginsRound(s) \/ Commits(s)
                                    \/ \E f \in FrameType : Asks(s, f)
    PROVE  /\ RowsKept /\ UNCHANGED reserved
           /\ \A n \in Nodes : Carry(n)
           /\ \A s \in Sessions : Standing(s)' => Standing(s)
<1>0. Typed BY DEF AtomicInv, Base
<1>1. ASSUME UNCHANGED rows, FewerToFinalize, FewerFinalizing
      PROVE  RowsKept /\ \A s \in Sessions : Standing(s)' => Standing(s)
  <2>1. \A s : Row(s)' = Row(s) BY <1>1 DEF Row
  <2> QED BY <1>1, <2>1, StillRows, FiniteSessions DEF Standing, FewerToFinalize, FewerFinalizing
<1>2. CASE Still
  <2>1. \A n \in Nodes : Carry(n) BY <1>2 DEF Still, Carry
  <2> QED BY <1>1, <1>2, <2>1 DEF Still
<1>3. CASE Loses
  <2>1. ASSUME NEW n \in Nodes PROVE Carry(n) BY <1>3 DEF Loses, Carry
  <2> QED BY <1>1, <1>3, <2>1 DEF Loses
<1>4. ASSUME NEW s \in AnySession, NEW f \in FrameType, Asks(s, f)
      PROVE  /\ RowsKept /\ UNCHANGED reserved
             /\ \A n \in Nodes : Carry(n)
             /\ \A t \in Sessions : Standing(t)' => Standing(t)
  <2>1. /\ toNode' = SentTo(Row(s).nodes, f) /\ f.op # "init_session"
        /\ UNCHANGED <<rows, reserved, open, tmp, stored, lossy>>
        /\ FewerToFinalize /\ FewerFinalizing
    BY <1>4 DEF Asks
  <2>2. \A n \in Nodes : Carry(n) BY <2>1, SentCarries
  <2> QED BY <1>1, <2>1, <2>2
<1>5. ASSUME NEW s \in AnySession, BeginsRound(s)
      PROVE  /\ RowsKept /\ UNCHANGED reserved
             /\ \A n \in Nodes : Carry(n)
             /\ \A t \in Sessions : Standing(t)' => Standing(t)
  <2>1. PICK f : f = F("commit_finalize", s, 0, TRUE) OBVIOUS
  <2>2. f \in FrameType /\ f.op # "init_session" BY <2>1 DEF F, FrameType
  <2>3. /\ toNode' = SentTo(Row(s).nodes, f) /\ MayFinalize(s) /\ Exists(s)
        /\ UNCHANGED <<rows, reserved, open, tmp, stored, lossy>>
        /\ FewerToFinalize /\ \A t \in AnySession : Finalizing(t)' => t = s
    BY <1>5, <2>1 DEF BeginsRound
  <2>4. \A n \in Nodes : Carry(n) BY <2>2, <2>3, SentCarries
  <2>5. RowsKept BY <2>3, StillRows
  <2>6. ASSUME NEW t \in Sessions, Standing(t)' PROVE Standing(t)
    <3>1. Row(t)' = Row(t) /\ t \in AnySession BY <2>3, FiniteSessions DEF Row
    <3> QED BY <2>3, <2>6, <3>1 DEF Standing, FewerToFinalize
  <2> QED BY <2>3, <2>4, <2>5, <2>6
<1>6. ASSUME NEW s \in AnySession, Commits(s)
      PROVE  /\ RowsKept /\ UNCHANGED reserved
             /\ \A n \in Nodes : Carry(n)
             /\ \A t \in Sessions : Standing(t)' => Standing(t)
  <2>1. /\ Exists(s) /\ Finalizing(s) /\ busy' = Idle
        /\ rows' = [rows EXCEPT ![s[1]][s[2]].status = "COMMITTED"]
        /\ UNCHANGED <<reserved, open, tmp, stored, lossy, toNode>>
        /\ FewerToFinalize
    BY <1>6 DEF Commits
  <2>2. \A n \in Nodes : Carry(n) BY <2>1 DEF Carry
  <2>3. RowsKept BY <1>0, <2>1, EndedRows
  <2>4. Row(s).status = "UPLOADING" BY <2>1 DEF AtomicInv, SessionInv, RepliesTrue
  <2>5. ASSUME NEW t \in Sessions, Standing(t)' PROVE Standing(t)
    <3>1. CASE t = s BY <2>1, <2>4, <3>1 DEF Standing
    <3>2. CASE t # s
      <4>1. t \in AnySession BY FiniteSessions
      <4>2. ~Finalizing(t)' BY <2>1 DEF Finalizing
      <4>3. Row(t)'.status = Row(t).status
        <5>1. t[1] = s[1] /\ t[2] = s[2] => t = s BY <4>1 DEF AnySession
        <5>2. t[1] \in Uploads /\ s[1] \in Uploads BY <4>1 DEF AnySession
        <5>3. Row(t)' = Row(t) BY <1>0, <2>1, <3>2, <5>1, <5>2 DEF Row, Typed
        <5> QED BY <5>3
      <4> QED BY <2>1, <2>5, <4>1, <4>2, <4>3 DEF Standing, FewerToFinalize
    <3> QED BY <3>1, <3>2
  <2> QED BY <2>1, <2>2, <2>3, <2>5
<1> QED BY <1>2, <1>3, <1>4, <1>5, <1>6

LEMMA QuietLedger ==
    ASSUME AtomicInv, MoreTyped, Ledger,
           \/ Still \/ Loses
           \/ \E s \in AnySession : \/ BeginsRound(s) \/ Commits(s)
                                    \/ \E f \in FrameType : Asks(s, f)
    PROVE  Ledger'
<1>1. /\ RowsKept /\ UNCHANGED reserved /\ \A n \in Nodes : Carry(n)
      /\ \A s \in Sessions : Standing(s)' => Standing(s)
  BY QuietCarries
<1>2. Typed BY DEF AtomicInv, Base
<1>3. ASSUME NEW n \in Nodes PROVE Covered(n)' /\ Room(n)'
  <2>1. Covered(n) /\ Room(n) /\ Carry(n) BY <1>1 DEF Ledger
  <2>2. Covered(n)' BY <1>1, <1>2, <2>1, CarryCovered
  <2>3. Room(n)' BY <1>1, <1>2, <2>1, CarryRoom
  <2> QED BY <2>2, <2>3
<1> QED BY <1>3 DEF Ledger

(* What is released was held, and is held no longer. *)
LEMMA AbortLedger ==
    ASSUME AtomicInv, MoreTyped, BookInv, Ledger, NEW s \in AnySession, Aborts(s)
    PROVE  Ledger'
<1>1. /\ Typed /\ Exists(s) /\ Finalizing(s) /\ busy' = Idle
      /\ reserved' = Released(Row(s)) /\ UNCHANGED <<open, tmp, stored>> /\ FewerToFinalize
      /\ \/ /\ UNCHANGED rows \/ rows' = [rows EXCEPT ![s[1]][s[2]].status = "ABORTED"]
            /\ toNode' = SentTo(Row(s).nodes, F("delete_object", s, 0, TRUE))
            /\ UNCHANGED lossy
         \/ lossy' = lossy \cup Row(s).nodes /\ UNCHANGED <<rows, toNode>>
  BY DEF Aborts, AtomicInv, Base
<1>2. s \in Sessions BY <1>1, KnownSessions
<1>3. /\ Row(s) \in RowType /\ Row(s).status = "UPLOADING" /\ ~MayFinalize(s)
  BY <1>1, RowOfType DEF AtomicInv, SessionInv, RepliesTrue, NothingEnded
<1>4. PICK f : f = F("delete_object", s, 0, TRUE) OBVIOUS
<1>5. f \in FrameType /\ f.op # "init_session" /\ Is(f, "delete_object", s)
  BY <1>4 DEF F, FrameType, Is
<1>6. RowsKept
  <2>1. UNCHANGED rows => RowsKept BY StillRows
  <2> QED BY <1>1, <2>1, EndedRows
<1>7. \A t \in Sessions : Standing(t)' => Standing(t) /\ t # s
  <2>1. ASSUME NEW t \in Sessions PROVE Row(t)' = Row(t) \/ (t = s /\ Row(t)'.status = "ABORTED")
    <3>1. CASE UNCHANGED rows BY <3>1 DEF Row
    <3>2. CASE rows' = [rows EXCEPT ![s[1]][s[2]].status = "ABORTED"]
      <4>1. t \in AnySession BY FiniteSessions
      <4>2. CASE t = s BY <1>1, <3>2, <4>2, RowEnded
      <4>3. CASE t # s
        <5>1. t[1] = s[1] /\ t[2] = s[2] => t = s BY <4>1 DEF AnySession
        <5>2. t[1] \in Uploads /\ s[1] \in Uploads BY <4>1 DEF AnySession
        <5> QED BY <1>1, <3>2, <4>3, <5>1, <5>2 DEF Row, Typed
      <4> QED BY <4>2, <4>3
    <3> QED BY <1>1, <3>1, <3>2
  <2>2. \A t : ~Finalizing(t)' BY <1>1 DEF Finalizing
  <2>3. ASSUME NEW t \in Sessions, Standing(t)' PROVE Standing(t) /\ t # s
    <3>1. MayFinalize(t)' => MayFinalize(t) BY <1>1, FiniteSessions DEF FewerToFinalize
    <3>2. Row(t)' = Row(t) BY <2>1, <2>3 DEF Standing
    <3>3. CASE Row(t).status = "COMMITTED" BY <1>3, <3>3 DEF Standing
    <3>4. CASE Row(t).status # "COMMITTED"
      <4>1. Row(t).status = "UPLOADING" /\ MayFinalize(t)
        BY <2>2, <2>3, <3>1, <3>2, <3>4 DEF Standing
      <4> QED BY <1>3, <4>1 DEF Standing
    <3> QED BY <3>3, <3>4
  <2> QED BY <2>3
<1>8. ASSUME NEW n \in Nodes PROVE Carry(n)
  <2>1. CASE lossy' = lossy \cup Row(s).nodes /\ UNCHANGED toNode BY <1>1, <2>1 DEF Carry
  <2>2. CASE toNode' = SentTo(Row(s).nodes, f) /\ UNCHANGED lossy
    BY <1>1, <1>5, <2>2, SentCarries
  <2> QED BY <1>1, <1>4, <2>1, <2>2
<1>9. ASSUME NEW n \in Nodes PROVE Room(n)'
  BY <1>1, <1>6, <1>8, CarryRoom DEF Ledger
<1>10. /\ \A n \in Nodes : /\ reserved'[n] \in Nat /\ reserved[n] \in Nat
                           /\ reserved'[n] <= reserved[n]
                           /\ reserved[n] <= reserved'[n] + Row(s).size
       /\ \A n \in Nodes : n \notin Row(s).nodes => reserved'[n] = reserved[n]
  BY <1>1, <1>3, ReleasedTyped DEF MoreTyped
<1>11. ASSUME NEW n \in Nodes, n \notin Row(s).nodes PROVE Covered(n)'
  <2>1. Covered(n) /\ Carry(n) /\ reserved'[n] = reserved[n] BY <1>8, <1>10, <1>11 DEF Ledger
  <2> QED BY <1>1, <1>6, <1>7, <2>1, CarryCovered
<1>12. ASSUME NEW n \in Nodes, n \in Row(s).nodes PROVE Covered(n)'
  <2>1. Held(n, s) BY <1>1, <1>3, <1>12 DEF Held, On, Standing
  <2>2. ~Held(n, s)'
    <3>1. ~Standing(s)' BY <1>2, <1>7
    <3>2. n \notin lossy' => ~Occupies(n, s, Len(toNode[n]))'
      <4> SUFFICES ASSUME n \notin lossy' PROVE ~Occupies(n, s, Len(toNode[n]))' OBVIOUS
      <4>1. toNode' = SentTo(Row(s).nodes, f) BY <1>1, <1>4, <1>12
      <4>2. toNode'[n] = Append(toNode[n], f) BY <1>12, <4>1, SentToNode
      <4>3. PICK y : y = toNode'[n] OBVIOUS
      <4>4. Len(y) \in 1 .. Len(y) /\ y[Len(y)] = f
        <5>1. toNode[n] \in Seq(FrameType) BY <1>1, TypedQueues
        <5> QED BY <1>5, <4>2, <4>3, <5>1
      <4>5. \E k \in 1 .. Len(toNode'[n]) : Is(toNode'[n][k], "delete_object", s)
        BY <1>5, <4>3, <4>4
      <4> QED BY <4>5 DEF Occupies, Before
    <3> QED BY <3>1, <3>2 DEF Held
  <2>3. \A t \in Sessions \ {s} : Held(n, t)' => Held(n, t)
    BY <1>1, <1>6, <1>7, <1>8, CarryHeld
  <2>4. TotalOf(HeldSizes(n)') + Row(s).size <= TotalOf(HeldSizes(n))
    BY <1>1, <1>2, <1>6, <2>1, <2>2, <2>3, OneLessHeld
  <2>5. TotalOf(HeldSizes(n)) <= reserved[n] /\ reserved[n] <= Capacity[n]
    BY DEF Ledger, Covered
  <2>6. TotalOf(HeldSizes(n)') \in Nat
    <3>1. HeldSizes(n)' \in [Sessions -> Nat] BY <1>1, <1>6, SizesKept
    <3>2. PICK g : g = HeldSizes(n)' OBVIOUS
    <3>3. TotalOf(g) \in Nat BY <3>1, <3>2, TotalType, FiniteSessions
    <3> QED BY <3>2, <3>3
  <2>7. TotalOf(HeldSizes(n)) \in Nat /\ Row(s).size \in Nat /\ Capacity[n] \in Nat
    BY <1>1, <1>3, TotalsTyped, FiniteSessions DEF RowType
  <2>8. TotalOf(HeldSizes(n)') <= reserved'[n] BY <1>10, <2>4, <2>5, <2>6, <2>7
  <2>9. reserved'[n] <= Capacity[n] BY <1>10, <2>5, <2>7
  <2> QED BY <2>8, <2>9 DEF Covered
<1> QED BY <1>9, <1>11, <1>12 DEF Ledger

(* What a node works through it had room for already. *)
LEMMA NodePresent ==
    ASSUME Typed, MoreTyped, NEW n \in Nodes, NodeNext(n), NEW f, f = Head(toNode[n])
    PROVE  /\ \A s : Present(n, s)' => Present(n, s) \/ Is(f, "init_session", s)
           /\ f.op = "delete_object" => open'[n] = open[n] /\ f.s \notin stored'[n]
           /\ \E op : Got(n, op)
           /\ \A m \in Nodes \ {n} : SameNode(m)
<1> USE DEF Got
<1>1. CASE NodeInitSession(n)
  <2>1. /\ f.op = "init_session" /\ open' = [open EXCEPT ![n] = @ \cup {f.s}]
        /\ UNCHANGED <<tmp, stored>> /\ toNode' = [toNode EXCEPT ![n] = Tail(@)]
    BY <1>1 DEF NodeInitSession
  <2>2. /\ open'[n] = open[n] \cup {f.s}
        /\ \A m \in Nodes \ {n} : open'[m] = open[m] /\ toNode'[m] = toNode[m]
    BY <2>1 DEF MoreTyped, Typed
  <2> QED BY <1>1, <2>1, <2>2 DEF Present, Is, SameNode, NodeInitSession
<1>2. CASE NodeData(n)
  <2>1. /\ f.op = "data" /\ UNCHANGED <<open, stored>> /\ toNode' = [toNode EXCEPT ![n] = Tail(@)]
        /\ \/ UNCHANGED tmp
           \/ f.s \in open[n] /\ tmp' = [tmp EXCEPT ![n] = @ \cup {<<f.s, f.chunk>>}]
    BY <1>2 DEF NodeData
  <2>2. /\ tmp'[n] = tmp[n] \/ (f.s \in open[n] /\ tmp'[n] = tmp[n] \cup {<<f.s, f.chunk>>})
        /\ \A m \in Nodes \ {n} : tmp'[m] = tmp[m] /\ toNode'[m] = toNode[m]
    BY <2>1 DEF MoreTyped, Typed
  <2> QED BY <1>2, <2>1, <2>2 DEF Present, SameNode, NodeData
<1>3. CASE NodeCommitCheck(n)
  <2>1. /\ f.op = "commit_check" /\ UNCHANGED <<open, tmp, stored>>
        /\ toNode' = [toNode EXCEPT ![n] = Tail(@)]
    BY <1>3 DEF NodeCommitCheck, nodeVars
  <2>2. \A m \in Nodes \ {n} : toNode'[m] = toNode[m] BY <2>1 DEF Typed
  <2> QED BY <1>3, <2>1, <2>2 DEF Present, SameNode, NodeCommitCheck
<1>4. CASE NodeCommitFinalize(n)
  <2>0. PICK ok \in BOOLEAN, X \in SUBSET ({f.s} \X Int) : Finalized(n, f.s, ok, X)
    BY <1>4, FinalizeEnds
  <2>1. /\ Got(n, "commit_finalize") /\ open' = [open EXCEPT ![n] = @ \ {f.s}]
        /\ stored' = IF ok THEN [stored EXCEPT ![n] = @ \cup {f.s}] ELSE stored
        /\ ok => f.s \in open[n]
        /\ UNCHANGED tmp \/ tmp' = [tmp EXCEPT ![n] = @ \ X]
    BY <2>0 DEF Finalized
  <2>2. /\ open'[n] \subseteq open[n]
        /\ stored'[n] = stored[n] \/ (f.s \in open[n] /\ stored'[n] = stored[n] \cup {f.s})
    BY <2>1 DEF MoreTyped, Typed
  <2>3. \A m \in Nodes \ {n} : SameNode(m)
    <3>1. \A m \in Nodes \ {n} : open'[m] = open[m] /\ tmp'[m] = tmp[m]
      BY <2>1 DEF MoreTyped
    <3>2. \A m \in Nodes \ {n} : stored'[m] = stored[m] /\ toNode'[m] = toNode[m]
      BY <2>1 DEF Typed
    <3> QED BY <3>1, <3>2 DEF SameNode
  <2>4. f.op = "commit_finalize" BY <2>1
  <2> QED BY <2>1, <2>2, <2>3, <2>4 DEF Present
<1>5. CASE NodeDeleteObject(n)
  <2>1. /\ f.op = "delete_object" /\ stored' = [stored EXCEPT ![n] = @ \ {f.s}]
        /\ UNCHANGED <<open, tmp>> /\ toNode' = [toNode EXCEPT ![n] = Tail(@)]
    BY <1>5 DEF NodeDeleteObject
  <2>2. stored'[n] = stored[n] \ {f.s} BY <2>1 DEF Typed
  <2>3. \A m \in Nodes \ {n} : SameNode(m) BY <2>1 DEF Typed, SameNode
  <2> QED BY <1>5, <2>1, <2>2, <2>3 DEF Present, NodeDeleteObject
<1> QED BY <1>1, <1>2, <1>3, <1>4, <1>5 DEF NodeNext

LEMMA NodeOccupies ==
    ASSUME Typed, MoreTyped, NEW n \in Nodes, NodeView(n), NodeNext(n), n \notin lossy,
           NEW s \in AnySession, NEW p \in 0 .. Len(toNode[n]) - 1, Occupies(n, s, p)'
    PROVE  Occupies(n, s, p + 1)
<1>1. PICK f : f = Head(toNode[n]) OBVIOUS
<1>2. /\ Present(n, s)' => Present(n, s) \/ Is(f, "init_session", s)
      /\ f.op = "delete_object" => open'[n] = open[n] /\ f.s \notin stored'[n]
  BY <1>1, NodePresent
<1>3. PICK op : Got(n, op) BY <1>1, NodePresent
<1>4. PICK L : L = Len(toNode[n]) OBVIOUS
<1>5. /\ L \in Nat \ {0} /\ f = toNode[n][1] /\ Len(toNode'[n]) = L - 1
      /\ \A k \in 1 .. L - 1 : toNode'[n][k] = toNode[n][k + 1]
  BY <1>1, <1>3, <1>4, HeadTaken
<1>6. p \in Nat /\ p <= L - 1 BY <1>4, <1>5
<1>7. \A o : Before(n, o, s, p)' => Before(n, o, s, p + 1)
  <2>1. \A k \in 1 .. p : k \in 1 .. L - 1 /\ k + 1 \in 1 .. p + 1 BY <1>5, <1>6
  <2>2. \A k \in 1 .. p : toNode'[n][k] = toNode[n][k + 1] /\ k + 1 \in 1 .. p + 1
    BY <1>5, <2>1
  <2> QED BY <2>2 DEF Before
<1>8. Is(f, "init_session", s) => Before(n, "init_session", s, p + 1)
  <2>1. 1 \in 1 .. p + 1 BY <1>6
  <2> QED BY <1>5, <2>1 DEF Before
<1>9. Before(n, "delete_object", s, p + 1)
        => Before(n, "delete_object", s, p)' \/ Is(f, "delete_object", s)
  <2> SUFFICES ASSUME NEW k \in 1 .. p + 1, Is(toNode[n][k], "delete_object", s), k # 1
               PROVE  Before(n, "delete_object", s, p)'
    BY <1>5 DEF Before
  <2>1. k - 1 \in 1 .. p /\ k - 1 \in 1 .. L - 1 /\ (k - 1) + 1 = k BY <1>5, <1>6
  <2>2. PICK j \in 1 .. p : j = k - 1 BY <2>1
  <2>3. toNode'[n][j] = toNode[n][k] BY <1>5, <2>1, <2>2
  <2> QED BY <2>3 DEF Before
<1>10. ~Is(f, "delete_object", s)
  <2> SUFFICES ASSUME Is(f, "delete_object", s) PROVE FALSE OBVIOUS
  <2>1. Gone(n, s)
    <3>1. Erasable(n, s) BY DEF NodeView, SessionOn
    <3>2. PICK i : i = 1 OBVIOUS
    <3>3. i \in 1 .. Len(toNode[n]) /\ Is(toNode[n][i], "delete_object", s)
      BY <1>4, <1>5, <3>2
    <3>4. Before(n, "commit_finalize", s, i - 1) \/ Gone(n, s) BY <3>1, <3>3 DEF Erasable
    <3>5. 1 .. i - 1 = {} BY <3>2
    <3> QED BY <3>4, <3>5 DEF Before
  <2>2. ~Present(n, s)'
    <3>1. s \notin open[n] BY <2>1 DEF Gone
    <3>2. open'[n] = open[n] /\ s \notin stored'[n] BY <1>2 DEF Is
    <3> QED BY <3>1, <3>2 DEF Present
  <2>3. ~Before(n, "init_session", s, p)'
    <3>1. ~Has(toNode[n], "init_session", s) BY <2>1 DEF Gone
    <3>2. \A k \in 1 .. p + 1 : k \in 1 .. Len(toNode[n]) BY <1>4, <1>5, <1>6
    <3>3. ~Before(n, "init_session", s, p + 1) BY <3>1, <3>2 DEF Before, Has, Is
    <3> QED BY <1>7, <3>3
  <2> QED BY <2>2, <2>3 DEF Occupies
<1>11. Present(n, s)' \/ Before(n, "init_session", s, p)' BY DEF Occupies
<1>12. ~Before(n, "delete_object", s, p)' BY DEF Occupies
<1>13. Present(n, s) \/ Before(n, "init_session", s, p + 1) BY <1>2, <1>7, <1>8, <1>11
<1>14. ~Before(n, "delete_object", s, p + 1) BY <1>9, <1>10, <1>12
<1> QED BY <1>13, <1>14 DEF Occupies

LEMMA NodeLedger ==
    ASSUME AtomicInv, MoreTyped, Ledger, NEW n \in Nodes, NodeView(n), NodeNext(n)
    PROVE  Ledger'
<1>1. /\ Typed /\ UNCHANGED <<rows, reserved, busy, client, lossy>>
  BY NodeStepBooks DEF AtomicInv, Base
<1>2. RowsKept BY <1>1, StillRows
<1>3. \A s : Standing(s)' <=> Standing(s)
  BY <1>1 DEF Standing, Row, MayFinalize, Finalizing
<1>4. PICK f : f = Head(toNode[n]) OBVIOUS
<1>5. ASSUME NEW m \in Nodes \ {n} PROVE Covered(m)' /\ Room(m)'
  <2>2. SameNode(m) BY <1>1, <1>4, NodePresent
  <2>3. Carry(m) BY <1>1, <2>2 DEF Carry, SameNode
  <2>4. Covered(m) /\ Room(m) BY DEF Ledger
  <2>5. Covered(m)' BY <1>1, <1>2, <1>3, <2>3, <2>4, CarryCovered
  <2>6. Room(m)' BY <1>1, <1>2, <2>3, <2>4, CarryRoom
  <2> QED BY <2>5, <2>6
<1>6. PICK L : L = Len(toNode[n]) OBVIOUS
<1>7. L \in Nat \ {0} /\ Len(toNode'[n]) = L - 1
  <2>1. PICK op : Got(n, op) BY <1>1, <1>4, NodePresent
  <2> QED BY <1>1, <1>4, <1>6, <2>1, HeadTaken
<1>8. ASSUME n \notin lossy, NEW p \in 0 .. L - 1, NEW s \in Sessions, Takes(n, s, p)'
      PROVE  Takes(n, s, p + 1)
  <2>1. s \in AnySession /\ On(n, s)' /\ Occupies(n, s, p)' BY <1>8, FiniteSessions DEF Takes
  <2>2. On(n, s) BY <1>2, <2>1, OnKept
  <2>3. p \in 0 .. Len(toNode[n]) - 1 BY <1>6
  <2>4. Occupies(n, s, p + 1) BY <1>1, <1>8, <2>1, <2>3, NodeOccupies
  <2> QED BY <2>2, <2>4 DEF Takes
<1>9. Room(n)'
  <2> SUFFICES ASSUME n \notin lossy, NEW p \in 0 .. L - 1
               PROVE  TotalOf(TakenSizes(n, p)') <= Capacity[n]
    BY <1>1, <1>7 DEF Room
  <2>1. PICK q : q = p + 1 OBVIOUS
  <2>2. q \in 0 .. Len(toNode[n]) BY <1>6, <1>7, <2>1
  <2>3. \A s \in Sessions : Takes(n, s, p)' => Takes(n, s, q) BY <1>8, <2>1
  <2>4. TotalOf(TakenSizes(n, p)') <= TotalOf(TakenSizes(n, q)) BY <1>1, <1>2, <2>3, FewerTake
  <2>5. TotalOf(TakenSizes(n, q)) <= Capacity[n] BY <2>2 DEF Ledger, Room
  <2>6. TakenSizes(n, p)' \in [Sessions -> Nat] BY <1>1, <1>2, SizesKept
  <2>7. TotalOf(TakenSizes(n, p)') \in Nat
    <3>1. PICK g : g = TakenSizes(n, p)' OBVIOUS
    <3>2. TotalOf(g) \in Nat BY <2>6, <3>1, TotalType, FiniteSessions
    <3> QED BY <3>1, <3>2
  <2>8. TotalOf(TakenSizes(n, q)) \in Nat /\ Capacity[n] \in Nat
    BY <1>1, TotalsTyped, FiniteSessions
  <2> QED BY <2>4, <2>5, <2>7, <2>8
<1>10. Covered(n)'
  <2>1. ASSUME NEW s \in Sessions, Held(n, s)' PROVE Held(n, s)
    <3>1. On(n, s) BY <1>2, <2>1, OnKept, FiniteSessions DEF Held
    <3>2. CASE Standing(s)' BY <1>3, <3>1, <3>2 DEF Held
    <3>3. CASE ~Standing(s)'
      <4>1. n \notin lossy /\ Occupies(n, s, Len(toNode[n]))' BY <1>1, <2>1, <3>3 DEF Held
      <4>2. PICK p : p = Len(toNode'[n]) OBVIOUS
      <4>3. Occupies(n, s, p)' BY <4>1, <4>2 DEF Occupies, Before
      <4>4. p \in 0 .. Len(toNode[n]) - 1 /\ p + 1 = Len(toNode[n]) BY <1>6, <1>7, <4>2
      <4>5. Occupies(n, s, p + 1) BY <1>1, <4>1, <4>3, <4>4, NodeOccupies, FiniteSessions
      <4> QED BY <3>1, <4>1, <4>4, <4>5 DEF Held
    <3> QED BY <3>2, <3>3
  <2>2. TotalOf(HeldSizes(n)') <= TotalOf(HeldSizes(n)) BY <1>1, <1>2, <2>1, FewerHeld
  <2>3. TotalOf(HeldSizes(n)) <= reserved[n] /\ reserved[n] <= Capacity[n]
    BY DEF Ledger, Covered
  <2>4. TotalOf(HeldSizes(n)') \in Nat
    <3>1. HeldSizes(n)' \in [Sessions -> Nat] BY <1>1, <1>2, SizesKept
    <3>2. PICK g : g = HeldSizes(n)' OBVIOUS
    <3>3. TotalOf(g) \in Nat BY <3>1, <3>2, TotalType, FiniteSessions
    <3> QED BY <3>2, <3>3
  <2>5. TotalOf(HeldSizes(n)) \in Nat /\ reserved[n] \in Nat BY <1>1, TotalsTyped DEF MoreTyped
  <2>6. TotalOf(HeldSizes(n)') <= reserved[n] BY <2>2, <2>3, <2>4, <2>5
  <2> QED BY <1>1, <2>3, <2>6 DEF Covered
<1> QED BY <1>5, <1>9, <1>10 DEF Ledger

(* The same, for the beginning of a list of counters *)
Extends(S, f, T, g) ==
    /\ T \in SUBSET S /\ f \in [S -> Nat] /\ g \in [T -> Nat]
    /\ \A x \in T : g[x] = f[x]
    /\ \A y \in S \ T : f[y] = 0

LEMMA ExtendsTotal ==
    ASSUME NEW S, NEW f, NEW T, NEW g, Extends(S, f, T, g)
    PROVE  TotalOf(f) = TotalOf(g)
BY TotalExtended DEF Extends

(* An upload that begins adds what its plan puts on a node, which it fits.  *)
LEMMA OnNodeGrows ==
    ASSUME NEW plan, PlanType(plan), NEW n, NEW c \in Nat, NEW d \in 0 .. Len(plan), c <= d
    PROVE  OnNode(plan, c, n) <= OnNode(plan, d, n)
<1>1. PICK w : w = [i \in 1 .. d |-> IF n \in plan[i].nodes THEN plan[i].size ELSE 0] OBVIOUS
<1>2. PICK v : v = [i \in 1 .. d |-> IF i <= c THEN w[i] ELSE 0] OBVIOUS
<1>3. PICK g : g = [i \in 1 .. c |-> IF n \in plan[i].nodes THEN plan[i].size ELSE 0] OBVIOUS
<1>4. d \in Nat /\ \A i \in 1 .. d : i \in 1 .. Len(plan) /\ plan[i].size \in Nat
  BY DEF PlanType
<1>5. w \in [1 .. d -> Nat] BY <1>1, <1>4
<1>6. v \in [1 .. d -> Nat] /\ \A i \in 1 .. d : v[i] <= w[i]
  <2>1. \A i \in 1 .. d : w[i] \in Nat BY <1>5
  <2> QED BY <1>2, <2>1
<1>7. \A i \in 1 .. c : i \in 1 .. d /\ i <= c BY <1>4
<1>8. g \in [1 .. c -> Nat] BY <1>3, <1>4, <1>7
<1>9. TotalOf(v) = TotalOf(g)
  <2>1. \A i \in 1 .. c : g[i] = v[i] BY <1>1, <1>2, <1>3, <1>7
  <2>2. \A i \in (1 .. d) \ (1 .. c) : v[i] = 0 BY <1>2, <1>4
  <2>3. (1 .. c) \in SUBSET (1 .. d) BY <1>7
  <2>4. Extends(1 .. d, v, 1 .. c, g) BY <1>6, <1>8, <2>1, <2>2, <2>3 DEF Extends
  <2> QED BY <2>4, ExtendsTotal
<1>10. IsFiniteSet(1 .. d) BY <1>4, FS_Interval
<1>11. TotalOf(v) <= TotalOf(w) BY <1>5, <1>6, <1>10, TotalMonotone
<1>12. TotalOf(w) = OnNode(plan, d, n) /\ TotalOf(g) = OnNode(plan, c, n)
  BY <1>1, <1>3 DEF OnNode
<1> QED BY <1>9, <1>11, <1>12

(* The sessions of upload u, counted by their parts *)
LEMMA PlannedTotal ==
    ASSUME NEW u \in Uploads, NEW plan, PlanType(plan), NEW c \in 0 .. Len(plan), NEW n,
           NEW g \in [Sessions -> Nat],
           \A s \in Sessions : g[s] = IF /\ s[1] = u /\ s[2] \in 1 .. c
                                         /\ n \in plan[s[2]].nodes
                                      THEN plan[s[2]].size ELSE 0
    PROVE  TotalOf(g) <= OnNode(plan, c, n)
<1>1. c \in Nat /\ \A i \in 1 .. c : plan[i].size \in Nat
  <2>1. \A i \in 1 .. c : i \in 1 .. Len(plan) BY DEF PlanType
  <2> QED BY <2>1 DEF PlanType
<1>2. PICK T : T = {s \in Sessions : s[1] = u /\ s[2] \in 1 .. c} OBVIOUS
<1>3. PICK f : f = [s \in T |-> g[s]] OBVIOUS
<1>4. T \in SUBSET Sessions /\ f \in [T -> Nat] BY <1>2, <1>3
<1>5. TotalOf(g) = TotalOf(f)
  <2>1. \A s \in T : f[s] = g[s] BY <1>3
  <2>2. \A s \in Sessions \ T : g[s] = 0 BY <1>2
  <2> QED BY <1>4, <2>1, <2>2, TotalExtended
<1>6. PICK w : w = [i \in 1 .. c |-> IF n \in plan[i].nodes THEN plan[i].size ELSE 0] OBVIOUS
<1>7. w \in [1 .. c -> Nat] /\ IsFiniteSet(1 .. c) BY <1>1, <1>6, FS_Interval
<1>8. PICK h : h = [s \in T |-> s[2]] OBVIOUS
<1>9. h \in [T -> 1 .. c] /\ \A s \in T : f[s] <= w[h[s]]
  <2>1. h \in [T -> 1 .. c] BY <1>2, <1>8
  <2>2. ASSUME NEW s \in T PROVE f[s] = w[h[s]]
    <3>1. s \in Sessions /\ s[1] = u /\ s[2] \in 1 .. c /\ h[s] = s[2] /\ f[s] = g[s]
      BY <1>2, <1>3, <1>8
    <3> QED BY <1>6, <3>1
  <2>3. ASSUME NEW s \in T PROVE f[s] \in Nat BY <1>4
  <2>4. ASSUME NEW s \in T PROVE f[s] <= w[h[s]] BY <2>2, <2>3
  <2> QED BY <2>1, <2>4
<1>10. \A s, t \in T : h[s] = h[t] => s = t
  <2> SUFFICES ASSUME NEW s \in T, NEW t \in T, h[s] = h[t] PROVE s = t OBVIOUS
  <2>1. /\ s \in Sessions /\ t \in Sessions /\ s[1] = u /\ t[1] = u /\ s[2] = t[2]
    BY <1>2, <1>8
  <2> QED BY <2>1 DEF Sessions
<1>11. TotalOf(f) <= TotalOf(w) BY <1>4, <1>7, <1>9, <1>10, TotalReindexed
<1>12. TotalOf(w) = OnNode(plan, c, n) BY <1>6 DEF OnNode
<1> QED BY <1>5, <1>11, <1>12

LEMMA OpensHeld ==
    ASSUME AtomicInv, MoreTyped, NEW n \in Nodes, NodeView(n), NEW u \in Uploads, NEW plan,
           NEW c, NEW d, Opens(u, plan, c, d)
    PROVE  /\ Len(toNode[n]) \in Nat /\ Len(toNode'[n]) \in Nat
           /\ Len(toNode[n]) <= Len(toNode'[n])
           /\ \A s \in AnySession : s[1] = u => ~Held(n, s)
           /\ \A s \in AnySession : s[1] # u => (Held(n, s)' => Held(n, s))
           /\ n \notin lossy => \A p \in 0 .. Len(toNode'[n]), s \in AnySession :
                /\ p <= Len(toNode[n]) => (Takes(n, s, p)' => Takes(n, s, p))
                /\ p >= Len(toNode[n]) => (Takes(n, s, p)' => Held(n, s)')
<1>0. /\ Typed /\ Addressed(n) /\ UNCHANGED <<toServer, open, tmp, stored, lossy>>
  BY DEF AtomicInv, Base, NodeView, Opens
<1>1. /\ \A t \in AnySession : t[1] # u => (Exists(t)' <=> Exists(t)) /\ Row(t)' = Row(t)
      /\ \A t \in AnySession : t[1] = u => ~Exists(t)
      /\ c \in Nat
  BY OpensRows
<1>2. /\ FewerToFinalize /\ \A t \in AnySession : ~Finalizing(t)' /\ ~Finalizing(t)
  BY OpensWaits
<1>3. PICK z : Starts(u, plan, c, n, z) /\ toNode'[n] = toNode[n] \o z
  BY DEF Opens
<1>4. PICK x : x = toNode[n] OBVIOUS
<1>5. PICK y : y = toNode'[n] OBVIOUS
<1>6. PICK L : L = Len(x) OBVIOUS
<1>7. PICK M : M = Len(z) OBVIOUS
<1>8. /\ L \in Nat /\ M \in Nat /\ Len(y) = L + M
      /\ \A k \in 1 .. L : y[k] = x[k]
      /\ \A k \in 1 .. M : y[L + k] = z[k]
      /\ \A k \in 1 .. L + M : k \in 1 .. L \/ \E j \in 1 .. M : k = L + j
  <2>1. x \in Frames /\ z \in Frames BY <1>0, <1>3, <1>4 DEF Typed, Starts
  <2>2. y = x \o z BY <1>3, <1>4, <1>5
  <2>3. /\ Len(x) \in Nat /\ Len(z) \in Nat /\ Len(x \o z) = Len(x) + Len(z)
        /\ \A k \in 1 .. Len(x) : (x \o z)[k] = x[k]
        /\ \A k \in 1 .. Len(z) : (x \o z)[Len(x) + k] = z[k]
        /\ \A k \in 1 .. Len(x) + Len(z) :
             k \in 1 .. Len(x) \/ \E j \in 1 .. Len(z) : k = Len(x) + j
    BY <2>1, Joint
  <2> QED BY <1>6, <1>7, <2>2, <2>3
<1>9. \A k \in 1 .. M : z[k].op = "init_session" /\ z[k].s[1] = u
  BY <1>3, <1>7 DEF Starts
(* Nothing of upload u is there yet. *)
<1>10. \A s \in AnySession : s[1] = u =>
         /\ ~On(n, s) /\ ~Present(n, s)
         /\ \A op : \A k \in 1 .. L : ~Is(x[k], op, s)
  <2>1. \A k \in 1 .. L : On(n, x[k].s)
    BY <1>0, <1>4, <1>6 DEF Addressed, QueueRight, Right
  <2> QED BY <1>0, <1>1, <2>1 DEF On, Present, Is, Addressed, FilesRight
<1>11. \A s \in AnySession : s[1] = u => ~Held(n, s) BY <1>10 DEF Held
<1>12. \A s \in AnySession : s[1] # u => (On(n, s)' <=> On(n, s)) BY <1>1 DEF On
<1>13. \A s \in AnySession : Present(n, s)' <=> Present(n, s) BY <1>0 DEF Present
<1>14. ASSUME NEW p \in 0 .. L PROVE \A op, s : Before(n, op, s, p)' <=> Before(n, op, s, p)
  <2>1. \A k \in 1 .. p : y[k] = x[k]
    <3>1. \A k \in 1 .. p : k \in 1 .. L BY <1>8
    <3> QED BY <1>8, <3>1
  <2> QED BY <1>4, <1>5, <2>1 DEF Before
<1>15. ASSUME NEW p \in L .. L + M
       PROVE  /\ \A op, s : Before(n, op, s, L) => Before(n, op, s, p)'
              /\ \A op, s : Before(n, op, s, p)' => Before(n, op, s, L) \/ (op = "init_session" /\ s[1] = u)
              /\ \A op, s : Before(n, op, s, p)' => Before(n, op, s, L + M)'
  <2>1. /\ \A k \in 1 .. L : k \in 1 .. p
        /\ \A k \in 1 .. p : k \in 1 .. L + M
    BY <1>8
  <2>2. \A op, s : Before(n, op, s, L) => Before(n, op, s, p)'
    BY <1>4, <1>5, <1>8, <2>1 DEF Before
  <2>3. \A op, s : Before(n, op, s, p)' => Before(n, op, s, L) \/ (op = "init_session" /\ s[1] = u)
    <3> SUFFICES ASSUME NEW op, NEW s, NEW k \in 1 .. p, Is(y[k], op, s)
                 PROVE  Before(n, op, s, L) \/ (op = "init_session" /\ s[1] = u)
      BY <1>5 DEF Before
    <3>1. CASE k \in 1 .. L BY <1>4, <1>8, <3>1 DEF Before
    <3>2. CASE k \notin 1 .. L
      <4>1. PICK j \in 1 .. M : k = L + j BY <1>8, <2>1, <3>2
      <4> QED BY <1>8, <1>9, <4>1 DEF Is
    <3> QED BY <3>1, <3>2
  <2>4. \A op, s : Before(n, op, s, p)' => Before(n, op, s, L + M)' BY <2>1 DEF Before
  <2> QED BY <2>2, <2>3, <2>4
<1>16. \A s \in AnySession : s[1] # u => (Standing(s)' => Standing(s))
  BY <1>1, <1>2 DEF Standing, FewerToFinalize
<1>17. ASSUME NEW s \in AnySession, s[1] # u, Held(n, s)' PROVE Held(n, s)
  <2>1. On(n, s) BY <1>12, <1>17 DEF Held
  <2>2. CASE Standing(s)' BY <1>16, <1>17, <2>1, <2>2 DEF Held
  <2>3. CASE ~Standing(s)'
    <3>1. n \notin lossy /\ Occupies(n, s, Len(toNode[n]))' BY <1>0, <1>17, <2>3 DEF Held
    <3>2. PICK p : p = L + M OBVIOUS
    <3>3. Occupies(n, s, p)' BY <1>5, <1>8, <3>1, <3>2 DEF Occupies, Before
    <3>4. p \in L .. L + M BY <1>8, <3>2
    <3>5. Occupies(n, s, L) BY <1>13, <1>15, <1>17, <3>3, <3>4 DEF Occupies
    <3>6. L = Len(toNode[n]) BY <1>4, <1>6
    <3> QED BY <2>1, <3>1, <3>5, <3>6 DEF Held
  <2> QED BY <2>2, <2>3
<1>18. ASSUME n \notin lossy, NEW p \in 0 .. L + M, NEW s \in AnySession, Takes(n, s, p)', p <= L
       PROVE  Takes(n, s, p)
  <2>1. p \in 0 .. L BY <1>8, <1>18
  <2>2. Occupies(n, s, p) BY <1>13, <1>14, <1>18, <2>1 DEF Takes, Occupies
  <2>3. s[1] # u
    <3>1. \A k \in 1 .. p : k \in 1 .. L BY <1>8, <2>1
    <3>2. SUFFICES ASSUME s[1] = u PROVE FALSE OBVIOUS
    <3>3. ~Present(n, s) BY <1>10, <3>2
    <3>4. \A k \in 1 .. p : ~Is(x[k], "init_session", s) BY <1>10, <3>1, <3>2
    <3>5. ~Before(n, "init_session", s, p) BY <1>4, <3>4 DEF Before
    <3> QED BY <2>2, <3>3, <3>5 DEF Occupies
  <2> QED BY <1>12, <1>18, <2>2, <2>3 DEF Takes
<1>19. ASSUME n \notin lossy, NEW p \in 0 .. L + M, NEW s \in AnySession, Takes(n, s, p)', p >= L
       PROVE  Held(n, s)'
  <2>1. p \in L .. L + M /\ On(n, s)' /\ Occupies(n, s, p)' BY <1>8, <1>19 DEF Takes
  <2>2. PICK q : q = L + M OBVIOUS
  <2>3. q \in L .. L + M BY <1>8, <2>2
  <2>4. /\ Before(n, "delete_object", s, q)' => Before(n, "delete_object", s, p)'
        /\ Before(n, "init_session", s, p)' => Before(n, "init_session", s, q)'
    BY <1>15, <2>1, <2>2, <2>3
  <2>5. Occupies(n, s, q)' BY <2>1, <2>4 DEF Occupies
  <2>6. q = Len(toNode'[n]) BY <1>5, <1>8, <2>2
  <2>7. Occupies(n, s, Len(toNode[n]))' BY <2>5, <2>6 DEF Occupies, Before
  <2> QED BY <1>0, <1>19, <2>1, <2>7 DEF Held
<1>20. Len(toNode[n]) = L /\ Len(toNode'[n]) = L + M /\ L <= L + M /\ L + M \in Nat
  BY <1>4, <1>5, <1>6, <1>8
<1> QED BY <1>8, <1>11, <1>17, <1>18, <1>19, <1>20

LEMMA OpensSizes ==
    ASSUME AtomicInv, NEW u \in Uploads, NEW plan, NEW c, NEW d, Opens(u, plan, c, d)
    PROVE  \A n : /\ HeldSizes(n)' \in [Sessions -> Nat]
                  /\ \A p : TakenSizes(n, p)' \in [Sessions -> Nat]
<1>1. ASSUME NEW s \in Sessions, Exists(s)' PROVE Row(s)'.size \in Nat
  <2>1. s \in AnySession BY FiniteSessions
  <2>2. CASE s[1] = u BY <1>1, <2>1, <2>2, OpensRows
  <2>3. CASE s[1] # u
    <3>1. Exists(s) /\ Row(s)' = Row(s) BY <1>1, <2>1, <2>3, OpensRows
    <3>2. Typed BY DEF AtomicInv, Base
    <3>3. Row(s) \in RowType BY <2>1, <3>1, <3>2, RowOfType
    <3> QED BY <3>1, <3>3 DEF RowType
  <2> QED BY <2>2, <2>3
<1> QED BY <1>1 DEF HeldSizes, TakenSizes, Held, Takes, On

LEMMA OpensCovered ==
    ASSUME AtomicInv, MoreTyped, \A m \in Nodes : Covered(m), NEW n \in Nodes, NodeView(n),
           NEW u \in Uploads, NEW plan, NEW c, NEW d, Opens(u, plan, c, d)
    PROVE  Covered(n)'
<1>1. PlanType(plan) /\ Fits(plan, client[u].size) /\ c \in 0 .. Len(plan) /\ d \in c .. Len(plan)
      /\ reserved' = ReservedUpTo(plan, d)
  BY DEF Opens
<1>2. Typed BY DEF AtomicInv, Base
<1>3. Len(plan) \in Nat /\ c \in Nat /\ d \in 0 .. Len(plan) /\ c <= d
  <2>1. Len(plan) \in Nat BY <1>1 DEF PlanType
  <2> QED BY <1>1, <2>1
<1>4. PICK f : f = HeldSizes(n) OBVIOUS
<1>5. PICK h : h = HeldSizes(n)' OBVIOUS
<1>6. PICK g : g = [s \in Sessions |-> IF /\ s[1] = u /\ s[2] \in 1 .. c
                                         /\ n \in plan[s[2]].nodes
                                      THEN plan[s[2]].size ELSE 0] OBVIOUS
<1>7. f \in [Sessions -> Nat] /\ h \in [Sessions -> Nat]
  BY <1>2, <1>4, <1>5, SizesTyped, OpensSizes
<1>8. g \in [Sessions -> Nat]
  <2>1. \A i \in 1 .. c : i \in 1 .. Len(plan) BY <1>1, <1>3
  <2>2. \A i \in 1 .. c : plan[i].size \in Nat BY <1>1, <2>1 DEF PlanType
  <2> QED BY <1>6, <2>2
<1>9. PICK e : e = [s \in Sessions |-> f[s] + g[s]] OBVIOUS
<1>10. e \in [Sessions -> Nat] /\ \A s \in Sessions : e[s] = f[s] + g[s] BY <1>7, <1>8, <1>9
<1>11. \A s \in Sessions : h[s] <= e[s]
  <2>1. ASSUME NEW s \in Sessions PROVE f[s] \in Nat /\ g[s] \in Nat /\ e[s] = f[s] + g[s]
    BY <1>7, <1>8, <1>10
  <2>2. ASSUME NEW s \in Sessions, ~Held(n, s)' PROVE h[s] = 0
    BY <1>5, <2>2 DEF HeldSizes
  <2>3. ASSUME NEW s \in Sessions, Held(n, s)', s[1] # u PROVE h[s] = f[s]
    <3>1. s \in AnySession BY FiniteSessions
    <3>2. Held(n, s) BY <2>3, <3>1, OpensHeld
    <3>3. Row(s)' = Row(s) BY <2>3, <3>1, OpensRows
    <3> QED BY <1>4, <1>5, <2>3, <3>2, <3>3 DEF HeldSizes
  <2>4. ASSUME NEW s \in Sessions, Held(n, s)', s[1] = u PROVE h[s] = g[s]
    <3>1. s \in AnySession BY FiniteSessions
    <3>2. Exists(s)' /\ n \in Row(s)'.nodes BY <2>4 DEF Held, On
    <3>3. s[2] \in 1 .. c BY <2>4, <3>1, <3>2, OpensRows
    <3>4. Row(s)'.nodes = plan[s[2]].nodes /\ Row(s)'.size = plan[s[2]].size
      BY <2>4, <3>1, <3>3, OpensRows
    <3>5. g[s] = plan[s[2]].size BY <1>6, <2>4, <3>2, <3>3, <3>4
    <3> QED BY <1>5, <2>4, <3>4, <3>5 DEF HeldSizes
  <2>5. ASSUME NEW s \in Sessions PROVE h[s] <= e[s] BY <2>1, <2>2, <2>3, <2>4
  <2> QED BY <2>5
<1>12. IsFiniteSet(Sessions) BY FiniteSessions
<1>13. TotalOf(h) <= TotalOf(e) BY <1>7, <1>10, <1>11, <1>12, TotalMonotone
<1>14. TotalOf(e) = TotalOf(f) + TotalOf(g) BY <1>7, <1>8, <1>10, <1>12, TotalSum
<1>15. TotalOf(g) <= OnNode(plan, c, n)
  <2>1. \A s \in Sessions : g[s] = IF /\ s[1] = u /\ s[2] \in 1 .. c
                                      /\ n \in plan[s[2]].nodes
                                   THEN plan[s[2]].size ELSE 0
    BY <1>6
  <2> QED BY <1>1, <1>8, <2>1, PlannedTotal
<1>16. OnNode(plan, c, n) <= OnNode(plan, d, n) BY <1>1, <1>3, OnNodeGrows
<1>17. /\ OnNode(plan, d, n) \in Nat /\ OnNode(plan, c, n) \in Nat
       /\ reserved'[n] = reserved[n] + OnNode(plan, d, n)
  <2>1. OnNode(plan, d, n) \in Nat /\ reserved'[n] = reserved[n] + OnNode(plan, d, n)
    BY <1>1, <1>3, ReservedTyped
  <2>2. OnNode(plan, c, n) \in Nat BY <1>1, OnNodeOf
  <2> QED BY <2>1, <2>2
<1>18. OnNode(plan, d, n) <= Capacity[n] - reserved[n] BY <1>1, <1>3 DEF Fits, Covered
<1>19. /\ reserved[n] \in Nat /\ Capacity[n] \in Nat
       /\ TotalOf(f) \in Nat /\ TotalOf(g) \in Nat /\ TotalOf(e) \in Nat /\ TotalOf(h) \in Nat
  BY <1>7, <1>8, <1>10, <1>12, FiniteSessions, TotalType DEF MoreTyped
<1>20. TotalOf(f) <= reserved[n] BY <1>4 DEF Covered
<1>21. TotalOf(h) <= reserved'[n]
  BY <1>13, <1>14, <1>15, <1>16, <1>17, <1>19, <1>20
<1>22. reserved'[n] <= Capacity[n] BY <1>17, <1>18, <1>19
<1> QED BY <1>5, <1>21, <1>22 DEF Covered

LEMMA OpensLedger ==
    ASSUME AtomicInv, MoreTyped, Ledger, \A n \in Nodes : NodeView(n), NEW u \in Uploads,
           NEW plan, NEW c, NEW d, Opens(u, plan, c, d)
    PROVE  Ledger'
<1>1. \A n \in Nodes : Covered(n)' BY OpensCovered DEF Ledger
<1>2. ASSUME NEW n \in Nodes, n \notin lossy, NEW p \in 0 .. Len(toNode'[n])
      PROVE  TotalOf(TakenSizes(n, p)') <= Capacity[n]
  <2>0. Typed /\ NodeView(n) /\ IsFiniteSet(Sessions) BY FiniteSessions DEF AtomicInv, Base
  <2>1. /\ Len(toNode[n]) \in Nat /\ Len(toNode'[n]) \in Nat
        /\ \A s \in AnySession : s[1] = u => ~Held(n, s)
        /\ \A s \in AnySession :
             /\ p <= Len(toNode[n]) => (Takes(n, s, p)' => Takes(n, s, p))
             /\ p >= Len(toNode[n]) => (Takes(n, s, p)' => Held(n, s)')
    BY <1>2, <2>0, OpensHeld
  <2>2. PICK g : g = TakenSizes(n, p)' OBVIOUS
  <2>3. g \in [Sessions -> Nat] BY <2>2, OpensSizes
  <2>4. CASE p <= Len(toNode[n])
    <3>1. PICK f : f = TakenSizes(n, p) OBVIOUS
    <3>2. f \in [Sessions -> Nat] BY <2>0, <3>1, SizesTyped
    <3>3. \A s \in Sessions : g[s] <= f[s]
      <4>1. ASSUME NEW s \in Sessions PROVE f[s] \in Nat BY <3>2
      <4>2. ASSUME NEW s \in Sessions, ~Takes(n, s, p)' PROVE g[s] = 0
        BY <2>2, <4>2 DEF TakenSizes
      <4>3. ASSUME NEW s \in Sessions, Takes(n, s, p)' PROVE g[s] = f[s]
        <5>1. s \in AnySession /\ Takes(n, s, p) BY <2>1, <2>4, <4>3, FiniteSessions
        <5>2. Exists(s) BY <5>1 DEF Takes, On
        <5>3. s[1] # u BY <5>1, <5>2, OpensRows
        <5>4. Row(s)' = Row(s) BY <5>1, <5>3, OpensRows
        <5> QED BY <2>2, <3>1, <4>3, <5>1, <5>4 DEF TakenSizes
      <4>4. ASSUME NEW s \in Sessions PROVE g[s] <= f[s] BY <4>1, <4>2, <4>3
      <4> QED BY <4>4
    <3>4. TotalOf(g) <= TotalOf(f) BY <2>0, <2>3, <3>2, <3>3, TotalMonotone
    <3>5. p \in 0 .. Len(toNode[n]) BY <2>1, <2>4
    <3>6. TotalOf(f) <= Capacity[n] BY <1>2, <3>1, <3>5 DEF Ledger, Room
    <3>7. TotalOf(g) \in Nat /\ TotalOf(f) \in Nat /\ Capacity[n] \in Nat
      BY <2>0, <2>3, <3>2, TotalType, FiniteSessions
    <3> QED BY <2>2, <3>4, <3>6, <3>7
  <2>5. CASE p >= Len(toNode[n])
    <3>1. PICK f : f = HeldSizes(n)' OBVIOUS
    <3>2. f \in [Sessions -> Nat] BY <3>1, OpensSizes
    <3>3. \A s \in Sessions : g[s] <= f[s]
      <4>1. ASSUME NEW s \in Sessions PROVE f[s] \in Nat BY <3>2
      <4>2. ASSUME NEW s \in Sessions, ~Takes(n, s, p)' PROVE g[s] = 0
        BY <2>2, <4>2 DEF TakenSizes
      <4>3. ASSUME NEW s \in Sessions, Takes(n, s, p)' PROVE g[s] = f[s]
        <5>1. Held(n, s)' BY <2>1, <2>5, <4>3, FiniteSessions
        <5> QED BY <2>2, <3>1, <4>3, <5>1 DEF TakenSizes, HeldSizes
      <4>4. ASSUME NEW s \in Sessions PROVE g[s] <= f[s] BY <4>1, <4>2, <4>3
      <4> QED BY <4>4
    <3>4. TotalOf(g) <= TotalOf(f) BY <2>0, <2>3, <3>2, <3>3, TotalMonotone
    <3>5. PICK r : r = reserved'[n] OBVIOUS
    <3>6. TotalOf(f) <= r /\ r <= Capacity[n] BY <1>1, <3>1, <3>5 DEF Covered
    <3>7. r \in Nat
      <4>1. PlanType(plan) /\ d \in 0 .. Len(plan) /\ reserved' = ReservedUpTo(plan, d)
        <5>1. PlanType(plan) /\ c \in 0 .. Len(plan) /\ d \in c .. Len(plan)
              /\ reserved' = ReservedUpTo(plan, d)
          BY DEF Opens
        <5>2. Len(plan) \in Nat BY <5>1 DEF PlanType
        <5> QED BY <5>1, <5>2
      <4>2. reserved' \in [Nodes -> Nat] BY <4>1, ReservedTyped
      <4> QED BY <3>5, <4>2
    <3>8. TotalOf(g) \in Nat /\ TotalOf(f) \in Nat /\ Capacity[n] \in Nat
      BY <2>0, <2>3, <3>2, TotalType, FiniteSessions
    <3> QED BY <2>2, <3>4, <3>6, <3>7, <3>8
  <2>6. p <= Len(toNode[n]) \/ p >= Len(toNode[n]) BY <2>1
  <2> QED BY <2>4, <2>5, <2>6
<1>3. \A n \in Nodes : Room(n)'
  <2>1. UNCHANGED lossy BY DEF Opens
  <2> QED BY <1>2, <2>1 DEF Room
<1> QED BY <1>1, <1>3 DEF Ledger

(* Whatever a step does, the ledger still agrees. *)
LEMMA LedgerKept ==
    ASSUME UploadInv, Ledger, [Next]_vars
    PROVE  Ledger'
<1>1. AtomicInv /\ MoreTyped /\ BookInv /\ \A n \in Nodes : NodeView(n) BY DEF UploadInv
<1>2. \A u \in Uploads : client[u].size >= 1
  <2>1. \A u \in Uploads : client[u].size \in Sizes BY <1>1 DEF BookInv, Book
  <2>2. \A z \in Sizes : z \in Nat \ {0} BY UploadAssumption
  <2> QED BY <2>1, <2>2
<1>3. CASE QuietStep
  <2>1. CASE Still \/ Loses BY <1>1, <2>1, QuietLedger
  <2>2. ASSUME NEW s \in AnySession, BeginsRound(s) \/ \E f \in FrameType : Asks(s, f)
        PROVE  Ledger'
    BY <1>1, <2>2, QuietLedger
  <2>3. ASSUME NEW s \in AnySession, Aborts(s) PROVE Ledger' BY <1>1, <2>3, AbortLedger
  <2> QED BY <1>3, <2>1, <2>2, <2>3 DEF QuietStep
<1>4. ASSUME NEW u \in Uploads, NEW plan, NEW c, NEW d, Opens(u, plan, c, d) PROVE Ledger'
  BY <1>1, <1>4, OpensLedger
<1>5. ASSUME NEW u \in Uploads, Finishes(u) PROVE Ledger'
  <2>1. Still BY <1>5 DEF Finishes
  <2> QED BY <1>1, <2>1, QuietLedger
<1>6. ASSUME Commits(busy.s) PROVE Ledger'
  <2>1. PICK s : s = busy.s OBVIOUS
  <2>2. s \in AnySession /\ Commits(s) BY <1>6, <2>1 DEF Commits
  <2> QED BY <1>1, <2>2, QuietLedger
<1>7. ASSUME NEW n \in Nodes, NodeNext(n) PROVE Ledger' BY <1>1, <1>7, NodeLedger
<1> QED BY <1>1, <1>2, <1>3, <1>4, <1>5, <1>6, <1>7, StepShape DEF Begins

LEMMA LedgerBegins ==
    ASSUME Init
    PROVE  Ledger
<1>1. \A s \in Sessions : ~Exists(s) BY DEF Init, Exists, Sessions
<1>2. ASSUME NEW n \in Nodes PROVE Covered(n) /\ Room(n)
  <2>1. PICK z : z = [s \in Sessions |-> 0] OBVIOUS
  <2>2. HeldSizes(n) = z BY <1>1, <2>1 DEF HeldSizes, Held, On
  <2>3. \A p : TakenSizes(n, p) = z BY <1>1, <2>1 DEF TakenSizes, Takes, On
  <2>4. TotalOf(z) = 0
    <3>1. z \in [Sessions -> Nat] /\ \A s \in Sessions : z[s] = 0 BY <2>1
    <3> QED BY <3>1, TotalZero
  <2>5. reserved[n] = 0 /\ Capacity[n] \in Nat BY FiniteSessions DEF Init
  <2> QED BY <2>2, <2>3, <2>4, <2>5 DEF Covered, Room
<1> QED BY <1>2 DEF Ledger

LEMMA CommittedOnly ==
    ASSUME Typed, NEW s \in AnySession
    PROVE  /\ Outcome(s) = "committed" <=> Exists(s) /\ Row(s).status = "COMMITTED"
           /\ Outcome(s) = "aborted" <=> Aborted(s)
<1>1. CASE ~Exists(s) BY <1>1, OutcomeOf DEF Aborted
<1>2. CASE Exists(s)
  <2>1. Row(s) \in RowType BY <1>2, RowOfType
  <2>2. Row(s).status \in {"UPLOADING", "COMMITTED", "ABORTED"} BY <2>1 DEF RowType
  <2> QED BY <1>2, <2>2, OutcomeOf DEF Aborted
<1> QED BY <1>1, <1>2

(* What a set of sessions has on a node, as counters of all sessions *)
LEMMA SizeOnSessions ==
    ASSUME Typed, NEW n, NEW S, \A s \in S : s \in Sessions /\ Exists(s)
    PROVE  \E f \in [Sessions -> Nat] :
             /\ TotalOf(f) = SizeOn(n, S)
             /\ \A s \in Sessions : f[s] = IF s \in S /\ n \in Row(s).nodes
                                           THEN Row(s).size ELSE 0
<1>1. PICK T : T = {s \in S : n \in Row(s).nodes} OBVIOUS
<1>2. PICK g : g = [s \in T |-> Row(s).size] OBVIOUS
<1>3. \A s \in T : s \in Sessions /\ Row(s).size \in Nat
  <2>1. ASSUME NEW s \in T PROVE s \in Sessions /\ Row(s).size \in Nat
    <3>1. s \in Sessions /\ Exists(s) /\ s \in AnySession BY <1>1, FiniteSessions
    <3>2. Row(s) \in RowType BY <3>1, RowOfType
    <3> QED BY <3>1, <3>2 DEF RowType
  <2> QED BY <2>1
<1>4. PICK f : f = [s \in Sessions |-> IF s \in T THEN Row(s).size ELSE 0] OBVIOUS
<1>5. f \in [Sessions -> Nat] BY <1>3, <1>4
<1>6. TotalOf(f) = TotalOf(g)
  <2>1. T \in SUBSET Sessions BY <1>3
  <2>2. g \in [T -> Nat] BY <1>2, <1>3
  <2>3. \A s \in T : g[s] = f[s] BY <1>2, <1>3, <1>4
  <2>4. \A s \in Sessions \ T : f[s] = 0 BY <1>4
  <2> QED BY <1>5, <2>1, <2>2, <2>3, <2>4, TotalExtended
<1>7. TotalOf(g) = SizeOn(n, S) BY <1>1, <1>2 DEF SizeOn
<1>8. \A s \in Sessions : f[s] = IF s \in S /\ n \in Row(s).nodes THEN Row(s).size ELSE 0
  BY <1>1, <1>4
<1> QED BY <1>5, <1>6, <1>7, <1>8

LEMMA LedgerReserves ==
    ASSUME UploadInv, Ledger
    PROVE  ReservationsSound
<1>1. Typed BY DEF UploadInv, AtomicInv, Base
<1>2. ASSUME NEW n \in Nodes
      PROVE  SizeOn(n, {s \in Sessions : Outcome(s) = "committed"}) <= reserved[n]
  <2>1. PICK S : S = {s \in Sessions : Outcome(s) = "committed"} OBVIOUS
  <2>2. \A s \in S : /\ s \in Sessions /\ Exists(s)
                     /\ Row(s).status = "COMMITTED"
    BY <1>1, <2>1, CommittedOnly, FiniteSessions
  <2>3. PICK f \in [Sessions -> Nat] :
             /\ TotalOf(f) = SizeOn(n, S)
             /\ \A s \in Sessions : f[s] = IF s \in S /\ n \in Row(s).nodes
                                           THEN Row(s).size ELSE 0
    BY <1>1, <2>2, SizeOnSessions
  <2>4. PICK h : h = HeldSizes(n) OBVIOUS
  <2>5. h \in [Sessions -> Nat] BY <1>1, <2>4, SizesTyped
  <2>6. \A s \in Sessions : f[s] <= h[s]
    <3>1. ASSUME NEW s \in Sessions, s \in S, n \in Row(s).nodes PROVE f[s] = h[s]
      <4>1. Held(n, s) BY <2>2, <3>1 DEF Held, On, Standing
      <4> QED BY <2>3, <2>4, <3>1, <4>1 DEF HeldSizes
    <3>2. ASSUME NEW s \in Sessions PROVE h[s] \in Nat BY <2>5
    <3>3. ASSUME NEW s \in Sessions PROVE f[s] <= h[s] BY <2>3, <3>1, <3>2
    <3> QED BY <3>3
  <2>7. IsFiniteSet(Sessions) BY FiniteSessions
  <2>8. TotalOf(f) <= TotalOf(h) BY <2>5, <2>6, <2>7, TotalMonotone
  <2>9. TotalOf(h) <= reserved[n] BY <2>4 DEF Ledger, Covered
  <2>10. TotalOf(f) \in Nat /\ TotalOf(h) \in Nat /\ reserved[n] \in Nat
    <3>1. reserved[n] \in Nat BY DEF UploadInv, MoreTyped
    <3> QED BY <2>5, <2>7, <3>1, TotalType
  <2>11. TotalOf(f) <= reserved[n] BY <2>8, <2>9, <2>10
  <2> QED BY <2>1, <2>3, <2>11
<1>3. \A n \in Nodes : reserved[n] <= Capacity[n] BY DEF Ledger, Covered
<1> QED BY <1>2, <1>3 DEF ReservationsSound

(* Sessions whose sizes a list of counters covers *)
LEMMA CountedSize ==
    ASSUME Typed, NEW n, NEW S, \A s \in S : s \in Sessions /\ Exists(s),
           NEW h \in [Sessions -> Nat], \A s \in S : h[s] = Row(s).size
    PROVE  SizeOn(n, S) \in Nat /\ TotalOf(h) \in Nat /\ SizeOn(n, S) <= TotalOf(h)
<1>1. PICK f \in [Sessions -> Nat] :
           /\ TotalOf(f) = SizeOn(n, S)
           /\ \A s \in Sessions : f[s] = IF s \in S /\ n \in Row(s).nodes
                                         THEN Row(s).size ELSE 0
  BY SizeOnSessions
<1>2. ASSUME NEW s \in Sessions PROVE f[s] <= h[s]
  <2>1. f[s] \in Nat /\ h[s] \in Nat OBVIOUS
  <2> QED BY <1>1, <2>1
<1>3. IsFiniteSet(Sessions) BY FiniteSessions
<1>4. TotalOf(f) <= TotalOf(h) BY <1>2, <1>3, TotalMonotone
<1>5. TotalOf(f) \in Nat /\ TotalOf(h) \in Nat BY <1>3, TotalType
<1> QED BY <1>1, <1>4, <1>5

LEMMA LedgerHolds ==
    ASSUME UploadInv, Ledger
    PROVE  HeldIsReserved
<1>1. Typed /\ MoreTyped /\ BookInv BY DEF UploadInv, AtomicInv, Base
<1>2. ASSUME NEW n \in Nodes \ lossy
      PROVE  /\ SizeOn(n, NodeHolds(n)) <= reserved[n]
             /\ SizeOn(n, open[n] \cup stored[n]) <= Capacity[n]
  <2>1. FilesRight(n) BY DEF UploadInv, NodeView, Addressed
  <2>2. \A s \in open[n] \cup stored[n] : s \in AnySession BY <1>1 DEF Typed, MoreTyped
  <2>3. \A s \in open[n] \cup stored[n] : s \in Sessions /\ Exists(s) /\ On(n, s)
    BY <1>1, <2>1, <2>2, KnownSessions DEF FilesRight, On
  <2>4. Len(toNode[n]) \in Nat /\ DOMAIN toNode[n] = 1 .. Len(toNode[n])
    BY <1>1, TypedQueues
  <2>5. reserved[n] \in Nat /\ Capacity[n] \in Nat BY <1>1, FiniteSessions DEF MoreTyped
  <2>6. SizeOn(n, NodeHolds(n)) <= reserved[n]
    <3>1. PICK S : S = NodeHolds(n) OBVIOUS
    <3>2. ASSUME NEW s \in S PROVE s \in Sessions /\ Exists(s) /\ Held(n, s)
      <4>1. s \in open[n] \cup stored[n] BY <3>1 DEF NodeHolds
      <4>2. ~Before(n, "delete_object", s, Len(toNode[n]))
        BY <2>4, <3>1 DEF NodeHolds, Before, Is
      <4>3. Occupies(n, s, Len(toNode[n])) BY <4>1, <4>2 DEF Occupies, Present
      <4> QED BY <2>3, <4>1, <4>3 DEF Held
    <3>3. PICK h : h = HeldSizes(n) OBVIOUS
    <3>4. h \in [Sessions -> Nat] BY <1>1, <3>3, SizesTyped
    <3>5. \A s \in S : h[s] = Row(s).size BY <3>2, <3>3 DEF HeldSizes
    <3>6. /\ SizeOn(n, S) \in Nat /\ TotalOf(h) \in Nat
          /\ SizeOn(n, S) <= TotalOf(h)
      BY <1>1, <3>2, <3>4, <3>5, CountedSize
    <3>7. TotalOf(h) <= reserved[n] BY <3>3 DEF Ledger, Covered
    <3>8. SizeOn(n, S) <= reserved[n] BY <2>5, <3>6, <3>7
    <3> QED BY <3>1, <3>8
  <2>7. SizeOn(n, open[n] \cup stored[n]) <= Capacity[n]
    <3>1. PICK S : S = open[n] \cup stored[n] OBVIOUS
    <3>2. ASSUME NEW s \in S PROVE s \in Sessions /\ Exists(s) /\ Takes(n, s, 0)
      <4>1. ~Before(n, "delete_object", s, 0) BY DEF Before
      <4> QED BY <2>3, <3>1, <4>1 DEF Takes, Occupies, Present
    <3>3. PICK h : h = TakenSizes(n, 0) OBVIOUS
    <3>4. h \in [Sessions -> Nat] BY <1>1, <3>3, SizesTyped
    <3>5. \A s \in S : h[s] = Row(s).size BY <3>2, <3>3 DEF TakenSizes
    <3>6. /\ SizeOn(n, S) \in Nat /\ TotalOf(h) \in Nat
          /\ SizeOn(n, S) <= TotalOf(h)
      BY <1>1, <3>2, <3>4, <3>5, CountedSize
    <3>7. TotalOf(h) <= Capacity[n]
      <4>1. 0 \in 0 .. Len(toNode[n]) BY <2>4
      <4> QED BY <3>3, <4>1 DEF Ledger, Room
    <3>8. SizeOn(n, S) <= Capacity[n] BY <2>5, <3>6, <3>7
    <3> QED BY <3>1, <3>8
  <2> QED BY <2>6, <2>7
<1> QED BY <1>2 DEF HeldIsReserved

-----------------------------------------------------------------------------
(* What the invariant says *)

LEMMA BookCompletes ==
    ASSUME UploadInv
    PROVE  ItemComplete
<1>1. Typed /\ BookInv /\ MoreTyped BY DEF UploadInv, AtomicInv, Base
<1>2. ASSUME NEW u \in Uploads, item[u] # {}
      PROVE  /\ item[u] = DOMAIN rows[u]
             /\ \A i \in item[u] : Outcome(<<u, i>>) = "committed"
             /\ client[u].size = TotalOf([i \in item[u] |-> rows[u][i].size])
  <2>1. /\ item[u] = DOMAIN rows[u] /\ client[u].size = Recorded(u)
        /\ \A i \in item[u] : rows[u][i].status = "COMMITTED"
    BY <1>1, <1>2 DEF BookInv, Book
  <2>2. ASSUME NEW i \in item[u] PROVE Outcome(<<u, i>>) = "committed"
    <3>1. PICK s : s = <<u, i>> OBVIOUS
    <3>2. Exists(s) /\ Row(s).status = "COMMITTED" BY <2>1, <3>1 DEF Exists, Row
    <3>3. Outcome(s) = "committed" BY <3>2, OutcomeOf
    <3> QED BY <3>1, <3>3
  <2>3. client[u].size = TotalOf([i \in item[u] |-> rows[u][i].size]) BY <2>1 DEF Recorded
  <2> QED BY <2>1, <2>2, <2>3
<1> QED BY <1>2 DEF ItemComplete

LEMMA BookMeters ==
    ASSUME UploadInv
    PROVE  IngressMetered
<1>1. BookInv BY DEF UploadInv
<1>2. ASSUME NEW s \in metered PROVE Outcome(s) = "committed"
  <2>1. Exists(s) /\ Row(s).status = "COMMITTED" BY <1>1 DEF BookInv
  <2> QED BY <2>1, OutcomeOf
<1>3. ASSUME NEW u \in Uploads, client[u].state = "done"
      PROVE  \A i \in item[u] : <<u, i>> \in metered
  BY <1>1, <1>3 DEF BookInv, Book
<1> QED BY <1>2, <1>3 DEF IngressMetered

LEMMA ViewErases ==
    ASSUME UploadInv
    PROVE  AbortedErased
<1>1. Typed BY DEF UploadInv, AtomicInv, Base
<1>2. SUFFICES ASSUME NEW s \in Sessions, NEW n \in Nodes, Outcome(s) = "aborted",
                      s \in stored[n], n \notin lossy
               PROVE  \E i \in DOMAIN toNode[n] :
                        toNode[n][i].op = "delete_object" /\ toNode[n][i].s = s
  BY DEF AbortedErased
<1>3. s \in AnySession BY FiniteSessions
<1>4. Aborted(s) BY <1>1, <1>2, <1>3, CommittedOnly
<1>5. Erased(n, s) BY <1>3 DEF UploadInv, NodeView, SessionOn
<1>6. Has(toNode[n], "delete_object", s) BY <1>2, <1>4, <1>5 DEF Erased
<1>7. toNode[n] \in Seq(FrameType) BY <1>1, TypedQueues
<1>8. DOMAIN toNode[n] = 1 .. Len(toNode[n]) BY <1>7
<1> QED BY <1>6, <1>8 DEF Has

-----------------------------------------------------------------------------
LEMMA AlwaysUploadInv == Spec => []UploadInv
<1>1. Init => UploadInv BY InitInv
<1>2. UploadInv /\ [Next]_vars => UploadInv' BY NextInv
<1> QED BY <1>1, <1>2, PTL DEF Spec

LEMMA AlwaysLedger == Spec => []Ledger
<1>1. Init => Ledger BY LedgerBegins
<1>2. UploadInv /\ Ledger /\ [Next]_vars => Ledger' BY LedgerKept
<1> QED BY <1>1, <1>2, AlwaysUploadInv, PTL DEF Spec

(* Every variable keeps its type: no upload has more parts than its file    *)
(* has chunks, and no frame names a session that was not planned.           *)
THEOREM UploadTypeCorrect == Spec => []TypeOK
<1>1. UploadInv => TypeOK BY WellTyped
<1> QED BY <1>1, AlwaysUploadInv, PTL

(* However a commit, a restart of the server and the client's deadline      *)
(* follow each other: an item consists of all parts of its upload, each of  *)
(* them committed, and they add up to the file.                             *)
THEOREM ItemsComplete == Spec => []ItemComplete
<1>1. UploadInv => ItemComplete BY BookCompletes
<1> QED BY <1>1, AlwaysUploadInv, PTL

(* Ingress is metered for committed sessions only, and for all of a file    *)
(* whose client was told that it is uploaded.                               *)
THEOREM IngressAlwaysMetered == Spec => []IngressMetered
<1>1. UploadInv => IngressMetered BY BookMeters
<1> QED BY <1>1, AlwaysUploadInv, PTL

(* A copy of an aborted session is on its way out on every node that lost   *)
(* no frames: a delete_object is behind every commit_finalize of it.        *)
THEOREM AbortedAlwaysErased == Spec => []AbortedErased
<1>1. UploadInv => AbortedErased BY ViewErases
<1> QED BY <1>1, AlwaysUploadInv, PTL

(* However uploads interleave, restart and abort, what a node has reserved  *)
(* covers everything committed on it and never exceeds what it offers.      *)
THEOREM ReservationsAlwaysSound == Spec => []ReservationsSound
<1>1. UploadInv /\ Ledger => ReservationsSound BY LedgerReserves
<1> QED BY <1>1, AlwaysUploadInv, AlwaysLedger, PTL

(* What a node that lost no frames has of sessions it was not told to       *)
(* erase is reserved on it, and what it has at all is within its capacity,  *)
(* in the server's units and for every order of commits, aborts, deadlines  *)
(* and failures of commit_finalize.                                         *)
THEOREM HeldIsAlwaysReserved == Spec => []HeldIsReserved
<1>1. UploadInv /\ Ledger => HeldIsReserved BY LedgerHolds
<1> QED BY <1>1, AlwaysUploadInv, AlwaysLedger, PTL
-----------------------------------------------------------------------------
(* Failures: as long as nothing went wrong outside, no client is refused an *)
(* answer, every chunk is on its way in front of the commit_check that asks *)
(* for it, and every node confirms.                                         *)

(* The client of s has sent chunk c. *)
Begun(s, c) ==
    /\ s[2] = client[s[1]].part
    /\ \/ c < client[s[1]].chunk
       \/ /\ busy # Idle /\ busy.op = "chunk_ack" /\ busy.s = s
          /\ c = client[s[1]].chunk

(* Once node n has taken its next i frames it has chunk c. *)
Reaches(n, s, c, i) ==
    \/ <<s, c>> \in tmp[n]
    \/ \E k \in 1 .. i : Is(toNode[n][k], "data", s) /\ toNode[n][k].chunk = c

AllSent(n, s) ==
    \A c \in 1 .. Row(s).size : Begun(s, c) => Reaches(n, s, c, Len(toNode[n]))
ChecksBacked(n, s) ==
    \A k \in 1 .. Len(toNode[n]) : Is(toNode[n][k], "commit_check", s)
        => \A c \in 1 .. Row(s).size : Reaches(n, s, c, k - 1)
Agreed(n, op, s) ==
    \A k \in 1 .. Len(toServer[n]) : Is(toServer[n][k], op, s) => toServer[n][k].ok

Complete(n, s) ==
    /\ MayFinalize(s) /\ On(n, s) => /\ AllSent(n, s) /\ ChecksBacked(n, s)
                                     /\ Agreed(n, "commit_check_reply", s)
    /\ Finalizing(s) => Agreed(n, "commit_finalize_reply", s)

Unharmed(u) ==
    /\ client[u].state # "failed"
    /\ client[u].state = "idle" => client[u].chunk = 1
    /\ client[u].state = "waiting" => InHandler(u)
    /\ Serving(u) => \A s \in AnySession : s[1] = u /\ Exists(s) => s \in known

AllWell ==
    /\ lossy = {} /\ \A u \in Uploads : Unharmed(u)
    /\ busy # Idle /\ busy.op # "chunk_ack" => busy.ok
    /\ \A n \in Nodes, s \in AnySession : Complete(n, s)

FailInv == ~troubled => AllWell

(* What every step leaves of rounds and rows *)
LEMMA StepProgress ==
    ASSUME UploadInv, [Next]_vars
    PROVE  /\ FewerToFinalize
           /\ \A t \in AnySession : Finalizing(t)' => Finalizing(t) \/ MayFinalize(t)
           /\ Begins \/ RowsKept
<1>0. AtomicInv /\ MoreTyped /\ BookInv /\ Typed BY DEF UploadInv, AtomicInv, Base
<1>1. \A u \in Uploads : client[u].size >= 1
  <2>1. \A u \in Uploads : client[u].size \in Sizes BY <1>0 DEF BookInv, Book
  <2>2. \A z \in Sizes : z \in Nat \ {0} BY UploadAssumption
  <2> QED BY <2>1, <2>2
<1>2. ASSUME Still \/ Loses \/ \E s \in AnySession, f \in FrameType : Asks(s, f)
      PROVE  FewerToFinalize /\ FewerFinalizing /\ RowsKept
  <2>1. FewerToFinalize /\ FewerFinalizing /\ UNCHANGED rows BY <1>2 DEF Still, Loses, Asks
  <2> QED BY <2>1, StillRows
<1>3. ASSUME NEW s \in AnySession, BeginsRound(s)
      PROVE  /\ FewerToFinalize /\ RowsKept
             /\ \A t \in AnySession : Finalizing(t)' => MayFinalize(t)
  <2>1. /\ FewerToFinalize /\ UNCHANGED rows /\ MayFinalize(s)
        /\ \A t \in AnySession : Finalizing(t)' => t = s
    BY <1>3 DEF BeginsRound
  <2> QED BY <2>1, StillRows
<1>4. ASSUME NEW s \in AnySession, Aborts(s)
      PROVE  FewerToFinalize /\ RowsKept /\ \A t \in AnySession : ~Finalizing(t)'
  <2>1. /\ FewerToFinalize /\ busy' = Idle /\ Exists(s)
        /\ UNCHANGED rows \/ rows' = [rows EXCEPT ![s[1]][s[2]].status = "ABORTED"]
    BY <1>4 DEF Aborts
  <2>2. RowsKept BY <1>0, <2>1, StillRows, EndedRows
  <2> QED BY <2>1, <2>2 DEF Finalizing
<1>5. ASSUME Commits(busy.s)
      PROVE  FewerToFinalize /\ RowsKept /\ \A t \in AnySession : ~Finalizing(t)'
  <2>1. PICK s : s = busy.s OBVIOUS
  <2>2. /\ FewerToFinalize /\ busy' = Idle /\ Exists(s) /\ s \in AnySession
        /\ rows' = [rows EXCEPT ![s[1]][s[2]].status = "COMMITTED"]
    BY <1>5, <2>1 DEF Commits
  <2>3. RowsKept BY <1>0, <2>2, EndedRows
  <2> QED BY <2>2, <2>3 DEF Finalizing
<1>6. ASSUME NEW n \in Nodes, NodeNext(n)
      PROVE  FewerToFinalize /\ FewerFinalizing /\ RowsKept
  <2>1. UNCHANGED <<rows, busy, client>> BY <1>6, NodeStepBooks
  <2>2. RowsKept BY <2>1, StillRows
  <2> QED BY <2>1, <2>2 DEF FewerToFinalize, FewerFinalizing, MayFinalize, Finalizing
<1>7. ASSUME Begins
      PROVE  FewerToFinalize /\ \A t \in AnySession : ~Finalizing(t)'
  <2>1. PICK u \in Uploads : \E plan, c, d : Opens(u, plan, c, d) BY <1>7 DEF Begins
  <2>2. PICK plan, c, d : Opens(u, plan, c, d) BY <2>1
  <2> QED BY <1>0, <2>2, OpensWaits
<1>8. ASSUME NEW u \in Uploads, Finishes(u)
      PROVE  FewerToFinalize /\ FewerFinalizing /\ RowsKept
  BY <1>2, <1>8 DEF Finishes
<1>9. CASE QuietStep
  <2>1. \/ Still \/ Loses \/ \E s \in AnySession, f \in FrameType : Asks(s, f)
        \/ \E s \in AnySession : BeginsRound(s) \/ Aborts(s)
    BY <1>9 DEF QuietStep
  <2> QED BY <1>2, <1>3, <1>4, <2>1 DEF FewerFinalizing
<1> QED BY <1>0, <1>1, <1>5, <1>6, <1>7, <1>8, <1>9, StepShape DEF FewerFinalizing

(* The server sends to a node, or takes what came from it. *)
LEMMA SentComplete ==
    ASSUME UploadInv, [Next]_vars, TookFrames,
           NEW n \in Nodes, NEW s \in AnySession, Complete(n, s),
           On(n, s)' => On(n, s) /\ Row(s)'.size = Row(s).size,
           UNCHANGED tmp, Len(toNode'[n]) \in Nat, Len(toNode[n]) <= Len(toNode'[n]),
           \A k \in 1 .. Len(toNode[n]) : toNode'[n][k] = toNode[n][k],
           MayFinalize(s) /\ On(n, s) /\ AllSent(n, s) =>
             /\ \A k \in 1 .. Len(toNode'[n]) :
                  k > Len(toNode[n]) /\ Is(toNode'[n][k], "commit_check", s)
                  => \A c \in 1 .. Row(s).size : Reaches(n, s, c, k - 1)'
             /\ \A c \in 1 .. Row(s).size : Begun(s, c)' =>
                  Begun(s, c) \/ Reaches(n, s, c, Len(toNode[n]))'
    PROVE  Complete(n, s)'
<1>0. /\ Typed /\ Len(toNode[n]) \in Nat /\ toServer[n] \in Seq(FrameType)
      /\ Len(toServer[n]) \in Nat /\ NothingEnded(s)
  BY TypedQueues DEF UploadInv, AtomicInv, Base, SessionInv
<1>1. ASSUME NEW op, Agreed(n, op, s) PROVE Agreed(n, op, s)'
  <2>1. SUFFICES ASSUME NEW k \in 1 .. Len(toServer'[n]), Is(toServer'[n][k], op, s)
                 PROVE  toServer'[n][k].ok
    BY DEF Agreed
  <2>2. CASE toServer'[n] = toServer[n] BY <1>1, <2>1, <2>2 DEF Agreed
  <2>3. CASE toServer'[n] = <<>> BY <2>1, <2>3
  <2>4. CASE toServer[n] # <<>> /\ toServer'[n] = Tail(toServer[n])
    <3>1. /\ Len(Tail(toServer[n])) = Len(toServer[n]) - 1
          /\ \A j \in 1 .. Len(toServer[n]) - 1 : Tail(toServer[n])[j] = toServer[n][j + 1]
      BY <1>0, <2>4
    <3>2. k + 1 \in 1 .. Len(toServer[n]) /\ toServer'[n][k] = toServer[n][k + 1]
      BY <1>0, <2>1, <2>4, <3>1
    <3> QED BY <1>1, <2>1, <3>2 DEF Agreed
  <2> QED BY <2>2, <2>3, <2>4 DEF TookFrames
<1>2. Finalizing(s)' => Agreed(n, "commit_finalize_reply", s)'
  <2>1. CASE Finalizing(s) BY <1>1, <2>1 DEF Complete
  <2>2. CASE MayFinalize(s)
    <3>1. ~Has(toServer[n], "commit_finalize_reply", s) BY <1>0, <2>2 DEF NothingEnded
    <3>2. Agreed(n, "commit_finalize_reply", s) BY <3>1 DEF Agreed, Has, Is
    <3> QED BY <1>1, <3>2
  <2> QED BY <2>1, <2>2, StepProgress
<1>3. ASSUME MayFinalize(s)', On(n, s)'
      PROVE  AllSent(n, s)' /\ ChecksBacked(n, s)' /\ Agreed(n, "commit_check_reply", s)'
  <2>1. MayFinalize(s) /\ On(n, s) /\ Row(s)'.size = Row(s).size
    BY <1>3, StepProgress DEF FewerToFinalize
  <2>2. AllSent(n, s) /\ ChecksBacked(n, s) /\ Agreed(n, "commit_check_reply", s)
    BY <2>1 DEF Complete
  <2>3. PICK size : size = Row(s).size OBVIOUS
  <2>4. \A i \in 0 .. Len(toNode[n]) : \A c : Reaches(n, s, c, i) => Reaches(n, s, c, i)'
    <3>1. ASSUME NEW i \in 0 .. Len(toNode[n]), NEW c, Reaches(n, s, c, i)
          PROVE  Reaches(n, s, c, i)'
      <4>1. \A k \in 1 .. i : toNode'[n][k] = toNode[n][k] BY <1>0
      <4> QED BY <3>1, <4>1 DEF Reaches
    <3> QED BY <3>1
  <2>5. ASSUME NEW c \in 1 .. size, Begun(s, c)'
        PROVE  Reaches(n, s, c, Len(toNode[n]))'
    <3>1. Begun(s, c) \/ Reaches(n, s, c, Len(toNode[n]))' BY <2>1, <2>2, <2>3, <2>5
    <3>2. CASE Begun(s, c)
      <4>1. Reaches(n, s, c, Len(toNode[n])) BY <2>2, <2>3, <3>2 DEF AllSent
      <4>2. PICK L : L = Len(toNode[n]) OBVIOUS
      <4>3. L \in 0 .. L BY <1>0, <4>2
      <4>4. Reaches(n, s, c, L)' BY <2>4, <4>1, <4>2, <4>3
      <4>5. \A k \in 1 .. L : k \in 1 .. Len(toNode'[n]) BY <1>0, <4>2
      <4> QED BY <4>4, <4>5 DEF Reaches
    <3> QED BY <3>1, <3>2
  <2>6. AllSent(n, s)' BY <2>1, <2>3, <2>5 DEF AllSent
  <2>7. ASSUME NEW k \in 1 .. Len(toNode'[n]), Is(toNode'[n][k], "commit_check", s),
               NEW c \in 1 .. size
        PROVE  Reaches(n, s, c, k - 1)'
    <3>1. CASE k > Len(toNode[n]) BY <2>1, <2>2, <2>3, <2>7, <3>1
    <3>2. CASE k <= Len(toNode[n])
      <4>1. k \in 1 .. Len(toNode[n]) /\ k - 1 \in 0 .. Len(toNode[n]) BY <1>0, <3>2
      <4>2. Reaches(n, s, c, k - 1) BY <2>2, <2>3, <2>7, <4>1 DEF ChecksBacked
      <4> QED BY <2>4, <4>1, <4>2
    <3> QED BY <1>0, <3>1, <3>2
  <2>8. ChecksBacked(n, s)' BY <2>1, <2>3, <2>7 DEF ChecksBacked
  <2> QED BY <1>1, <2>2, <2>6, <2>8
<1> QED BY <1>2, <1>3 DEF Complete


(* A node takes the frame f. *)
LEMMA TakenComplete ==
    ASSUME Typed, NEW n \in Nodes, NEW s \in AnySession, Complete(n, s),
           UNCHANGED <<rows, busy, client>>, NEW f, f = toNode[n][1],
           Len(toNode[n]) \in Nat \ {0}, Len(toNode'[n]) = Len(toNode[n]) - 1,
           \A k \in 1 .. Len(toNode[n]) - 1 : toNode'[n][k] = toNode[n][k + 1],
           MayFinalize(s) /\ On(n, s) => \A c \in 1 .. Row(s).size :
             <<s, c>> \in tmp[n] \/ (Is(f, "data", s) /\ f.chunk = c) => <<s, c>> \in tmp'[n],
           \/ toServer'[n] = toServer[n]
           \/ \E g \in FrameType :
                /\ toServer'[n] = Append(toServer[n], g)
                /\ MayFinalize(s) /\ On(n, s) /\ Is(g, "commit_check_reply", s) => g.ok
                /\ Finalizing(s) /\ Is(g, "commit_finalize_reply", s) => g.ok
    PROVE  Complete(n, s)'
<1>0. toServer[n] \in Seq(FrameType) /\ Len(toServer[n]) \in Nat BY TypedQueues
<1>1. /\ MayFinalize(s)' <=> MayFinalize(s)
      /\ Finalizing(s)' <=> Finalizing(s)
      /\ On(n, s)' <=> On(n, s)
      /\ Row(s)' = Row(s) /\ \A c : Begun(s, c)' <=> Begun(s, c)
  BY DEF MayFinalize, Finalizing, On, Exists, Row, Begun
<1>2. ASSUME NEW op, Agreed(n, op, s),
             \A g \in FrameType : toServer'[n] = Append(toServer[n], g) /\ Is(g, op, s) => g.ok
      PROVE  Agreed(n, op, s)'
  <2>1. CASE toServer'[n] = toServer[n] BY <1>2, <2>1 DEF Agreed
  <2>2. ASSUME NEW g \in FrameType, toServer'[n] = Append(toServer[n], g)
        PROVE  Agreed(n, op, s)'
    <3>1. /\ Len(toServer'[n]) = Len(toServer[n]) + 1
          /\ toServer'[n][Len(toServer[n]) + 1] = g
          /\ \A k \in 1 .. Len(toServer[n]) : toServer'[n][k] = toServer[n][k]
      BY <1>0, <2>2
    <3>2. \A k \in 1 .. Len(toServer'[n]) : k \in 1 .. Len(toServer[n]) \/ k = Len(toServer[n]) + 1
      BY <1>0, <3>1
    <3>3. Is(g, op, s) => g.ok BY <1>2, <2>2
    <3> QED BY <1>2, <3>1, <3>2, <3>3 DEF Agreed
  <2> QED BY <2>1, <2>2
<1>3. ASSUME NEW g \in FrameType, NEW h \in FrameType,
             toServer'[n] = Append(toServer[n], g), toServer'[n] = Append(toServer[n], h)
      PROVE  g = h
  <2>1. /\ Append(toServer[n], g)[Len(toServer[n]) + 1] = g
        /\ Append(toServer[n], h)[Len(toServer[n]) + 1] = h
    BY <1>0
  <2> QED BY <1>3, <2>1
<1>4. ASSUME NEW g \in FrameType, toServer'[n] = Append(toServer[n], g)
      PROVE  /\ MayFinalize(s) /\ On(n, s) /\ Is(g, "commit_check_reply", s) => g.ok
             /\ Finalizing(s) /\ Is(g, "commit_finalize_reply", s) => g.ok
  <2>1. CASE toServer'[n] = toServer[n]
    <3>1. Len(toServer'[n]) = Len(toServer[n]) + 1 BY <1>0, <1>4
    <3> QED BY <1>0, <2>1, <3>1
  <2> QED BY <1>3, <1>4, <2>1
<1>5. Finalizing(s)' => Agreed(n, "commit_finalize_reply", s)'
  BY <1>1, <1>2, <1>4 DEF Complete
<1>6. ASSUME MayFinalize(s), On(n, s)
      PROVE  AllSent(n, s)' /\ ChecksBacked(n, s)' /\ Agreed(n, "commit_check_reply", s)'
  <2>1. AllSent(n, s) /\ ChecksBacked(n, s) /\ Agreed(n, "commit_check_reply", s)
    BY <1>6 DEF Complete
  <2>2. PICK size : size = Row(s).size OBVIOUS
  <2>3. PICK L : L = Len(toNode[n]) OBVIOUS
  <2>4. L \in Nat \ {0} BY <2>3
  <2>5. ASSUME NEW i \in 1 .. L, NEW c \in 1 .. size, Reaches(n, s, c, i)
        PROVE  Reaches(n, s, c, i - 1)'
    <3>1. CASE <<s, c>> \in tmp[n] BY <1>6, <2>2, <3>1 DEF Reaches
    <3>2. ASSUME NEW k \in 1 .. i, Is(toNode[n][k], "data", s), toNode[n][k].chunk = c
          PROVE  Reaches(n, s, c, i - 1)'
      <4>1. CASE k = 1 BY <1>6, <2>2, <3>2, <4>1 DEF Reaches
      <4>2. CASE k # 1
        <5>1. k - 1 \in 1 .. i - 1 /\ k - 1 \in 1 .. L - 1 /\ (k - 1) + 1 = k BY <2>4, <4>2
        <5>2. toNode'[n][k - 1] = toNode[n][k] BY <2>3, <5>1
        <5> QED BY <3>2, <5>1, <5>2 DEF Reaches
      <4> QED BY <4>1, <4>2
    <3> QED BY <2>5, <3>1, <3>2 DEF Reaches
  <2>6. AllSent(n, s)'
    <3>1. L \in 1 .. L BY <2>4
    <3>2. \A c \in 1 .. size : Begun(s, c) => Reaches(n, s, c, L - 1)'
      BY <2>1, <2>2, <2>3, <2>5, <3>1 DEF AllSent
    <3> QED BY <1>1, <2>2, <2>3, <3>2 DEF AllSent
  <2>7. ASSUME NEW k \in 1 .. L - 1, Is(toNode'[n][k], "commit_check", s), NEW c \in 1 .. size
        PROVE  Reaches(n, s, c, k - 1)'
    <3>1. k + 1 \in 1 .. L /\ toNode'[n][k] = toNode[n][k + 1] BY <2>3, <2>4
    <3>2. (k + 1) - 1 = k /\ k \in 1 .. L BY <2>4
    <3>3. Reaches(n, s, c, k) BY <2>1, <2>2, <2>3, <2>7, <3>1, <3>2 DEF ChecksBacked
    <3> QED BY <2>5, <3>2, <3>3
  <2>8. ChecksBacked(n, s)' BY <1>1, <2>2, <2>3, <2>7 DEF ChecksBacked
  <2> QED BY <1>2, <1>4, <1>6, <2>1, <2>6, <2>8
<1> QED BY <1>1, <1>5, <1>6 DEF Complete

(* Another node took a frame. *)
LEMMA OtherComplete ==
    ASSUME UNCHANGED <<rows, busy, client>>, NEW n, NEW s,
           toNode'[n] = toNode[n], tmp'[n] = tmp[n], toServer'[n] = toServer[n], Complete(n, s)
    PROVE  Complete(n, s)'
BY DEF Complete, AllSent, ChecksBacked, Agreed, Begun, Reaches, MayFinalize, Finalizing, On,
       Exists, Row

(* A node that has all chunks fails a commit_finalize only when it is       *)
(* disturbed in the middle of it.                                           *)
LEMMA FinalizeSucceeds ==
    ASSUME NEW n \in Nodes, NodeCommitFinalize(n), ~troubled', NEW s, s = Head(toNode[n]).s,
           s \in open[n], Chunks(s) \subseteq tmp[n], Row(s).size \in Nat
    PROVE  /\ Reply(n, "commit_finalize_reply", s, TRUE)
           /\ tmp' = [tmp EXCEPT ![n] = @ \ Chunks(s)]
<1>1. ~Disturbed BY DEF Disturbed
<1>2. ASSUME NEW k \in 0 .. Row(s).size, k < Row(s).size PROVE <<s, k + 1>> \in tmp[n]
  <2>1. k + 1 \in 1 .. Row(s).size BY <1>2
  <2>2. <<s, k + 1>> \in Chunks(s) BY <2>1 DEF Chunks
  <2> QED BY <2>2
<1>3. \A k \in 0 .. Row(s).size :
        ~ IF k < Row(s).size /\ <<s, k + 1>> \notin tmp[n] THEN Quiet ELSE Disturbed
  BY <1>1, <1>2
<1> QED BY <1>3 DEF NodeCommitFinalize

(* While nothing was lost, nodes find what they are asked for. *)
LEMMA NodeComplete ==
    ASSUME UploadInv, AllWell, NEW n \in Nodes, NodeNext(n), ~troubled'
    PROVE  \A m \in Nodes, s \in AnySession : Complete(m, s)'
<1>0. /\ Typed /\ MoreTyped /\ NodeView(n) /\ lossy = {} /\ UNCHANGED <<rows, busy, client>>
      /\ \A s \in AnySession : SessionInv(s) /\ SessionOn(n, s) /\ Complete(n, s)
  BY NodeStepBooks DEF UploadInv, AtomicInv, Base, AllWell, NodeView
<1>1. PICK f : f = Head(toNode[n]) OBVIOUS
<1>2. PICK op : Got(n, op) /\ op \in {"init_session", "data", "commit_check", "commit_finalize",
                                      "delete_object"}
  BY DEF NodeNext, NodeInitSession, NodeData, NodeCommitCheck, NodeCommitFinalize,
         NodeDeleteObject
<1>3. /\ Len(toNode[n]) \in Nat \ {0} /\ f \in FrameType /\ f.op = op
      /\ f = toNode[n][1] /\ 1 \in 1 .. Len(toNode[n])
      /\ Len(toNode'[n]) = Len(toNode[n]) - 1
      /\ \A k \in 1 .. Len(toNode[n]) - 1 : toNode'[n][k] = toNode[n][k + 1]
      /\ \A m \in Nodes \ {n} : toNode'[m] = toNode[m]
  BY <1>0, <1>1, <1>2, HeadTaken
<1>4. f.s \in AnySession /\ On(n, f.s) BY <1>0, <1>1, <1>2, HeadRight
<1>5. ASSUME NEW s \in AnySession,
             \A c \in 1 .. Row(s).size : MayFinalize(s) /\ On(n, s)
               /\ (<<s, c>> \in tmp[n] \/ (Is(f, "data", s) /\ f.chunk = c))
                   => <<s, c>> \in tmp'[n],
             \/ toServer'[n] = toServer[n]
             \/ \E g \in FrameType :
                  /\ toServer'[n] = Append(toServer[n], g)
                  /\ MayFinalize(s) /\ On(n, s) /\ Is(g, "commit_check_reply", s) => g.ok
                  /\ Finalizing(s) /\ Is(g, "commit_finalize_reply", s) => g.ok
      PROVE  Complete(n, s)'
  BY <1>0, <1>3, <1>5, TakenComplete
<1>6. ASSUME NEW rop \in {"chunk_ack", "commit_check_reply", "commit_finalize_reply"},
             NEW ok \in BOOLEAN, Reply(n, rop, f.s, ok)
      PROVE  /\ \E g \in FrameType : /\ toServer'[n] = Append(toServer[n], g)
                                     /\ g.op = rop /\ g.s = f.s /\ g.ok = ok
             /\ \A m \in Nodes \ {n} : toServer'[m] = toServer[m]
  <2>1. PICK g : g = F(rop, f.s, 0, ok) OBVIOUS
  <2>2. g \in FrameType /\ g.op = rop /\ g.s = f.s /\ g.ok = ok BY <1>4, <2>1, FrameTyped
  <2>3. toServer' = [toServer EXCEPT ![n] = Append(toServer[n], g)] BY <1>6, <2>1 DEF Reply
  <2>4. toServer'[n] = Append(toServer[n], g) /\ \A m \in Nodes \ {n} : toServer'[m] = toServer[m]
    BY <1>0, <2>3 DEF Typed
  <2> QED BY <2>2, <2>4
<1>7. ASSUME NEW m \in Nodes \ {n}, NEW s \in AnySession,
             tmp'[m] = tmp[m], toServer'[m] = toServer[m]
      PROVE  Complete(m, s)'
  BY <1>0, <1>3, <1>7, OtherComplete DEF AllWell
<1>8. CASE op \in {"init_session", "delete_object"}
  <2>1. tmp' = tmp /\ toServer' = toServer
    BY <1>2, <1>8 DEF NodeNext, NodeInitSession, NodeData, NodeCommitCheck, NodeCommitFinalize,
                      NodeDeleteObject, Got
  <2>2. \A s : ~Is(f, "data", s) BY <1>3, <1>8 DEF Is
  <2> QED BY <1>5, <1>7, <2>1, <2>2
<1>9. CASE op = "data"
  <2>1. NodeData(n)
    BY <1>2, <1>9 DEF NodeNext, NodeInitSession, NodeData, NodeCommitCheck, NodeCommitFinalize,
                      NodeDeleteObject, Got
  <2>2. /\ Reply(n, "chunk_ack", f.s, TRUE)
        /\ tmp' = IF f.s \in open[n] THEN [tmp EXCEPT ![n] = @ \cup {<<f.s, f.chunk>>}] ELSE tmp
    BY <1>1, <2>1 DEF NodeData, Disturbed
  <2>3. /\ tmp'[n] = IF f.s \in open[n] THEN tmp[n] \cup {<<f.s, f.chunk>>} ELSE tmp[n]
        /\ \A m \in Nodes \ {n} : tmp'[m] = tmp[m]
    BY <1>0, <2>2 DEF MoreTyped
  <2>4. ASSUME MayFinalize(f.s) PROVE f.s \in open[n]
    <3>1. f.s \in open[n] \/ Has(toNode[n], "init_session", f.s)
      BY <1>0, <1>4, <2>4 DEF SessionOn, Joined
    <3>2. ASSUME NEW k \in 1 .. Len(toNode[n]), toNode[n][k].op = "init_session",
                 toNode[n][k].s = f.s
          PROVE  FALSE
      <4>1. k # 1 BY <1>3, <1>9, <3>2
      <4>2. 1 \in 1 .. k - 1 BY <1>3, <4>1
      <4> QED BY <1>0, <1>3, <3>2, <4>2 DEF NodeView, InitFirst
    <3> QED BY <3>1, <3>2 DEF Has
  <2>5. PICK g \in FrameType : /\ toServer'[n] = Append(toServer[n], g)
                               /\ g.op = "chunk_ack"
    BY <1>6, <2>2
  <2>6. \A s : ~Is(g, "commit_check_reply", s) /\ ~Is(g, "commit_finalize_reply", s)
    BY <2>5 DEF Is
  <2>7. ASSUME NEW s \in AnySession PROVE Complete(n, s)'
    <3>1. ASSUME NEW c \in 1 .. Row(s).size, MayFinalize(s),
                 <<s, c>> \in tmp[n] \/ (Is(f, "data", s) /\ f.chunk = c)
          PROVE  <<s, c>> \in tmp'[n]
      BY <2>3, <2>4, <3>1 DEF Is
    <3> QED BY <1>5, <2>5, <2>6, <3>1
  <2>8. \A m \in Nodes \ {n} : toServer'[m] = toServer[m] BY <1>6, <2>2
  <2> QED BY <1>7, <2>3, <2>7, <2>8
<1>10. CASE op = "commit_check"
  <2>1. NodeCommitCheck(n)
    BY <1>2, <1>10 DEF NodeNext, NodeInitSession, NodeData, NodeCommitCheck, NodeCommitFinalize,
                       NodeDeleteObject, Got
  <2>2. PICK ok : ok = (f.s \in open[n] => Chunks(f.s) \subseteq tmp[n]) OBVIOUS
  <2>3. ok \in BOOLEAN /\ Reply(n, "commit_check_reply", f.s, ok) /\ UNCHANGED tmp
    BY <1>1, <2>1, <2>2 DEF NodeCommitCheck, nodeVars
  <2>4. ASSUME MayFinalize(f.s) PROVE ok
    <3>1. ChecksBacked(n, f.s) BY <1>0, <1>4, <2>4 DEF Complete
    <3>2. Is(toNode[n][1], "commit_check", f.s) BY <1>3, <1>10 DEF Is
    <3>3. \A c \in 1 .. Row(f.s).size : Reaches(n, f.s, c, 1 - 1)
      BY <1>3, <3>1, <3>2 DEF ChecksBacked
    <3>4. \A k \in 1 .. (1 - 1) : FALSE OBVIOUS
    <3>5. \A c \in 1 .. Row(f.s).size : <<f.s, c>> \in tmp[n] BY <3>3, <3>4 DEF Reaches
    <3> QED BY <2>2, <3>5 DEF Chunks
  <2>5. PICK g \in FrameType : /\ toServer'[n] = Append(toServer[n], g)
                               /\ g.op = "commit_check_reply" /\ g.s = f.s /\ g.ok = ok
    BY <1>6, <2>3
  <2>6. /\ \A s : ~Is(f, "data", s) /\ ~Is(g, "commit_finalize_reply", s)
        /\ \A s : Is(g, "commit_check_reply", s) => s = f.s
    BY <1>3, <1>10, <2>5 DEF Is
  <2>7. \A s \in AnySession : Complete(n, s)' BY <1>5, <2>3, <2>4, <2>5, <2>6
  <2>8. \A m \in Nodes \ {n} : toServer'[m] = toServer[m] BY <1>6, <2>3
  <2> QED BY <1>7, <2>3, <2>7, <2>8
<1>11. CASE op = "commit_finalize"
  <2>1. NodeCommitFinalize(n)
    BY <1>2, <1>11 DEF NodeNext, NodeInitSession, NodeData, NodeCommitCheck, NodeCommitFinalize,
                       NodeDeleteObject, Got
  <2>2. PICK t : t = f.s OBVIOUS
  <2>5. Has(toNode[n], "commit_finalize", f.s) BY <1>3, <1>11 DEF Has
  <2>12. t \in open[n] /\ Chunks(t) \subseteq tmp[n]
    BY <1>0, <1>4, <2>2, <2>5 DEF SessionOn, FinalReady
  <2>13. Row(t).size \in Nat
    <3>1. t \in AnySession /\ Exists(t) BY <1>4, <2>2 DEF On
    <3>2. Row(t) \in RowType BY <1>0, <3>1, RowOfType
    <3> QED BY <3>2 DEF RowType
  <2>3. /\ Reply(n, "commit_finalize_reply", t, TRUE)
        /\ tmp' = [tmp EXCEPT ![n] = @ \ Chunks(t)]
    BY <1>1, <2>1, <2>2, <2>12, <2>13, FinalizeSucceeds
  <2>4. /\ \A m \in Nodes \ {n} : tmp'[m] = tmp[m]
        /\ \A s, c : s # f.s /\ <<s, c>> \in tmp[n] => <<s, c>> \in tmp'[n]
    <3>1. \A m \in Nodes \ {n} : tmp'[m] = tmp[m] BY <1>0, <2>3 DEF MoreTyped
    <3>2. tmp'[n] = tmp[n] \ Chunks(t) BY <1>0, <2>3 DEF MoreTyped
    <3> QED BY <2>2, <3>1, <3>2 DEF Chunks
  <2>7. ~MayFinalize(f.s) BY <1>0, <1>4, <2>5 DEF SessionInv, NothingEnded
  <2>8. PICK g \in FrameType : /\ toServer'[n] = Append(toServer[n], g)
                               /\ g.op = "commit_finalize_reply" /\ g.s = f.s /\ g.ok = TRUE
    BY <1>6, <2>2, <2>3
  <2>9. /\ \A s : ~Is(f, "data", s) /\ ~Is(g, "commit_check_reply", s) /\ g.ok
    BY <1>3, <1>11, <2>8 DEF Is
  <2>10. \A s \in AnySession : Complete(n, s)' BY <1>5, <2>4, <2>7, <2>8, <2>9
  <2>11. \A m \in Nodes \ {n} : toServer'[m] = toServer[m] BY <1>6, <2>2, <2>3
  <2> QED BY <1>7, <2>4, <2>10, <2>11
<1> QED BY <1>2, <1>8, <1>9, <1>10, <1>11


-----------------------------------------------------------------------------
(* Steps of the server *)

LEMMA SameComplete ==
    ASSUME UploadInv, AllWell, [Next]_vars, RowsKept, TookFrames, UNCHANGED <<tmp, toNode>>,
           \A s \in AnySession, c \in Nat \ {0} : Begun(s, c)' => Begun(s, c)
    PROVE  \A n \in Nodes, s \in AnySession : Complete(n, s)'
<1> SUFFICES ASSUME NEW n \in Nodes, NEW s \in AnySession PROVE Complete(n, s)'
  OBVIOUS
<1>1. /\ Complete(n, s) /\ Len(toNode[n]) \in Nat
      /\ On(n, s)' => On(n, s) /\ Row(s)'.size = Row(s).size
  BY TypedQueues, OnKept DEF AllWell, UploadInv, AtomicInv, Base
<1>2. \A z, c : c \in 1 .. z => c \in Nat \ {0} OBVIOUS
<1> QED BY <1>1, <1>2, SentComplete

LEMMA AppendComplete ==
    ASSUME UploadInv, AllWell, [Next]_vars, RowsKept, TookFrames, UNCHANGED tmp,
           NEW t \in AnySession, Exists(t), NEW f \in FrameType, f.s = t,
           toNode' = SentTo(Row(t).nodes, f),
           f.op = "commit_check" => \A c \in 1 .. Row(t).size : Begun(t, c),
           \A s \in AnySession, c \in Nat \ {0} : Begun(s, c)'
             => Begun(s, c) \/ (f.op = "data" /\ s = t /\ c = f.chunk)
    PROVE  \A n \in Nodes, s \in AnySession : Complete(n, s)'
<1> SUFFICES ASSUME NEW n \in Nodes, NEW s \in AnySession PROVE Complete(n, s)'
  OBVIOUS
<1>1. /\ Complete(n, s) /\ Len(toNode[n]) \in Nat /\ toNode[n] \in Seq(FrameType)
      /\ On(n, s)' => On(n, s) /\ Row(s)'.size = Row(s).size
  BY TypedQueues, OnKept DEF AllWell, UploadInv, AtomicInv, Base
<1>2. \A z, c : c \in 1 .. z => c \in Nat \ {0} OBVIOUS
<1>3. PICK L : L = Len(toNode[n]) OBVIOUS
<1>4. CASE n \notin Row(t).nodes
  <2>1. toNode'[n] = toNode[n] BY <1>4, SentToNode
  <2>2. ~(On(n, s) /\ s = t) BY <1>4 DEF On
  <2> QED BY <1>1, <1>2, <2>1, <2>2, SentComplete
<1>5. CASE n \in Row(t).nodes
  <2>1. toNode'[n] = Append(toNode[n], f) BY <1>5, SentToNode
  <2>2. /\ Len(toNode'[n]) = L + 1 /\ L \in Nat /\ toNode'[n][L + 1] = f
        /\ \A k \in 1 .. L : toNode'[n][k] = toNode[n][k]
    BY <1>1, <1>3, <2>1
  <2>3. ASSUME MayFinalize(s), On(n, s), AllSent(n, s), NEW k \in 1 .. Len(toNode'[n]),
               k > L, Is(toNode'[n][k], "commit_check", s), NEW c \in 1 .. Row(s).size
        PROVE  Reaches(n, s, c, k - 1)'
    <3>1. k = L + 1 /\ k - 1 = L /\ s = t /\ f.op = "commit_check" BY <2>2, <2>3 DEF Is
    <3>2. Reaches(n, s, c, L) BY <1>3, <2>3, <3>1 DEF AllSent
    <3>3. Reaches(n, s, c, L)' BY <2>2, <3>2 DEF Reaches
    <3> QED BY <3>1, <3>3
  <2>4. ASSUME NEW c \in 1 .. Row(s).size, Begun(s, c)'
        PROVE  Begun(s, c) \/ Reaches(n, s, c, Len(toNode[n]))'
    <3>1. CASE f.op = "data" /\ s = t /\ c = f.chunk
      <4>1. Is(toNode'[n][L + 1], "data", s) /\ toNode'[n][L + 1].chunk = c
            /\ L + 1 \in 1 .. Len(toNode'[n])
        BY <2>2, <3>1 DEF Is
      <4> QED BY <4>1 DEF Reaches
    <3> QED BY <1>2, <2>4, <3>1
  <2> QED BY <1>1, <1>3, <2>2, <2>3, <2>4, SentComplete
<1> QED BY <1>4, <1>5

(* Another client's request leaves v alone. *)
LEMMA Bystander ==
    ASSUME NEW v \in Uploads, Unharmed(v), client'[v] = client[v], client[v].state # "waiting",
           \A s \in AnySession : s[1] = v => (Exists(s)' <=> Exists(s)),
           \A s \in known : s[1] = v => s \in known'
    PROVE  Unharmed(v)'
BY DEF Unharmed, Serving

(* Who waits, is the one that is served. *)
LEMMA Served ==
    ASSUME UploadInv, AllWell, NEW u \in Uploads
    PROVE  /\ client[u] \in ClientType /\ Unharmed(u)
           /\ busy = Idle => client[u].state # "waiting"
           /\ busy # Idle =>
                /\ busy \in WaitType /\ busy.s \in AnySession /\ Exists(busy.s)
                /\ busy.s[1] # u => client[u].state # "waiting"
                /\ busy.s[1] = u => /\ client[u].state = "waiting" /\ Serving(u)
                                    /\ busy.s = <<u, client[u].part>>
<1>0. Typed /\ OneHandler /\ Unharmed(u) BY DEF UploadInv, AtomicInv, Base, AllWell
<1>1. client[u] \in ClientType BY <1>0 DEF Typed
<1>2. busy # Idle => /\ busy \in WaitType /\ busy.s \in AnySession /\ Exists(busy.s)
                     /\ busy.s = <<busy.s[1], busy.s[2]>>
  BY <1>0 DEF Typed, WaitType, AnySession, OneHandler
<1>3. busy = Idle => client[u].state # "waiting" BY <1>0 DEF Unharmed, InHandler
<1>4. busy # Idle /\ busy.s[1] # u => client[u].state # "waiting"
  BY <1>0 DEF Unharmed, InHandler
<1>5. busy # Idle /\ busy.s[1] = u => /\ client[u].state = "waiting" /\ Serving(u)
                                      /\ client[u].part = busy.s[2]
  BY <1>0 DEF Unharmed, OneHandler, Serving, InHandler
<1> QED BY <1>0, <1>1, <1>2, <1>3, <1>4, <1>5

(* A client that is served sends its next chunk, or asks for the commit. *)
LEMMA RequestWell ==
    ASSUME UploadInv, AllWell, [Next]_vars, NEW u \in Uploads, ClientChunk(u) \/ ClientCommit(u)
    PROVE  AllWell'
<1>1. PICK s : s = <<u, client[u].part>> OBVIOUS
<1>2. /\ Typed /\ client[u] \in ClientType /\ Unharmed(u) /\ client[u].chunk \in Nat
      /\ client[u].chunk >= 1
  BY Served DEF UploadInv, AtomicInv, Base, MoreTyped, ClientType
<1>3. s \in AnySession /\ s[1] = u /\ s[2] = client[u].part /\ Exists(s)
      /\ client[u].state = "active" /\ busy = Idle
  BY <1>1, <1>2 DEF AnySession, ClientType, ClientChunk, ClientCommit
<1>4. s \in known BY <1>2, <1>3 DEF Unharmed, Serving
<1>5. UNCHANGED <<rows, known, toServer, tmp, lossy>> /\ Answer(u, "waiting")
  BY <1>1, <1>4 DEF ClientChunk, ClientCommit, dbVars, nodeVars
<1>6. PICK op \in {"chunk_ack", "commit_check_reply"}, f \in FrameType :
        /\ Wait(op, s) /\ toNode' = SentTo(Row(s).nodes, f) /\ f.s = s
        /\ \/ op = "chunk_ack" /\ f.op = "data" /\ f.chunk = client[u].chunk
           \/ op = "commit_check_reply" /\ f.op = "commit_check" /\ client[u].chunk > Row(s).size
  <2>1. CASE ClientChunk(u)
    <3>1. PICK f : f = F("data", s, client[u].chunk, TRUE) OBVIOUS
    <3>2. f \in FrameType /\ f.op = "data" /\ f.s = s /\ f.chunk = client[u].chunk
      BY <1>2, <1>3, <3>1 DEF F, FrameType
    <3>3. Wait("chunk_ack", s) /\ toNode' = SentTo(Row(s).nodes, f)
      BY <1>1, <1>4, <2>1, <3>1 DEF ClientChunk
    <3> QED BY <3>2, <3>3
  <2>2. CASE ClientCommit(u)
    <3>1. PICK f : f = F("commit_check", s, 0, TRUE) OBVIOUS
    <3>2. f \in FrameType /\ f.op = "commit_check" /\ f.s = s
      BY <1>3, <3>1 DEF F, FrameType
    <3>3. Wait("commit_check_reply", s) /\ toNode' = SentTo(Row(s).nodes, f)
          /\ client[u].chunk > Row(s).size
      BY <1>1, <2>2, <3>1 DEF ClientCommit
    <3> QED BY <3>2, <3>3
  <2> QED BY <2>1, <2>2
<1>7. busy' # Idle /\ busy'.op = op /\ busy'.s = s /\ busy'.ok BY <1>6 DEF Wait, Idle
<1>8. /\ client'[u] = [client[u] EXCEPT !.state = "waiting"]
      /\ \A v \in Uploads \ {u} : client'[v] = client[v]
  BY <1>2, <1>5 DEF Answer, Typed
<1>9. /\ client'[u].state = "waiting" /\ client'[u].part = client[u].part
      /\ client'[u].chunk = client[u].chunk
  BY <1>2, <1>8 DEF ClientType
<1>10. RowsKept /\ TookFrames BY <1>5, StillRows DEF TookFrames
<1>11. ASSUME NEW t \in AnySession, NEW c \in Nat \ {0}, Begun(t, c)'
       PROVE  Begun(t, c) \/ (f.op = "data" /\ t = s /\ c = f.chunk)
  <2>1. t[1] \in Uploads /\ t = <<t[1], t[2]>> BY DEF AnySession
  <2>2. CASE t[1] = u
    <3>1. t[2] = client[u].part /\ t = s BY <1>1, <1>9, <1>11, <2>1, <2>2 DEF Begun
    <3>2. c < client[u].chunk \/ (op = "chunk_ack" /\ c = client[u].chunk)
      BY <1>7, <1>9, <1>11, <2>2 DEF Begun
    <3> QED BY <1>6, <2>2, <3>1, <3>2 DEF Begun
  <2>3. CASE t[1] # u BY <1>3, <1>7, <1>8, <1>11, <2>1, <2>3 DEF Begun
  <2> QED BY <2>2, <2>3
<1>12. f.op = "commit_check" => \A c \in 1 .. Row(s).size : Begun(s, c)
  <2>1. Row(s).size \in Nat BY <1>2, <1>3, RowOfType DEF RowType
  <2> QED BY <1>2, <1>3, <1>6, <2>1 DEF Begun
<1>13. \A n \in Nodes, t \in AnySession : Complete(n, t)'
  BY <1>3, <1>5, <1>6, <1>10, <1>11, <1>12, AppendComplete
<1>14. Unharmed(u)'
  <2>1. Serving(u) BY <1>3 DEF Serving
  <2>2. \A t \in AnySession : Exists(t)' = Exists(t) BY <1>5 DEF Exists
  <2> QED BY <1>2, <1>3, <1>5, <1>7, <1>9, <2>1, <2>2 DEF Unharmed, InHandler
<1>15. ASSUME NEW v \in Uploads \ {u} PROVE Unharmed(v)'
  <2>1. \A t \in AnySession : Exists(t)' = Exists(t) BY <1>5 DEF Exists
  <2> QED BY <1>3, <1>5, <1>8, <2>1, Served, Bystander
<1>16. lossy' = {} BY <1>5 DEF AllWell
<1> QED BY <1>7, <1>13, <1>14, <1>15, <1>16 DEF AllWell

(* All parts of a served client are committed when it has come to the end. *)
LEMMA MultipartWell ==
    ASSUME UploadInv, AllWell, [Next]_vars, NEW u \in Uploads, ClientCommitMultipart(u)
    PROVE  AllWell'
<1>1. /\ Typed /\ BookInv /\ client[u] \in ClientType
      /\ client[u].state = "active" /\ busy = Idle /\ client[u].part > Len(rows[u])
  BY Served DEF UploadInv, AtomicInv, Base, ClientCommitMultipart
<1>2. \A i \in DOMAIN rows[u] : rows[u][i].status = "COMMITTED"
  <2>1. rows[u] \in Seq(RowType) /\ DOMAIN rows[u] = 1 .. Len(rows[u]) /\ Len(rows[u]) \in Nat
    BY <1>1 DEF Typed, Rows
  <2>2. ASSUME NEW i \in DOMAIN rows[u] PROVE rows[u][i].status = "COMMITTED"
    <3>1. i < client[u].part BY <1>1, <2>1 DEF ClientType
    <3>2. <<u, i>> \in metered BY <1>1, <3>1 DEF BookInv, Book, Serving
    <3>3. Row(<<u, i>>).status = "COMMITTED" BY <1>1, <3>2 DEF BookInv
    <3> QED BY <3>3 DEF Row
  <2> QED BY <2>2
<1>3. Answer(u, "done") /\ UNCHANGED <<rows, known, busy, toNode, toServer, tmp, lossy>>
  BY <1>2 DEF ClientCommitMultipart, channels, nodeVars
<1>4. /\ client'[u].state = "done" /\ client'[u].part = client[u].part
      /\ client'[u].chunk = client[u].chunk
      /\ \A v \in Uploads \ {u} : client'[v] = client[v]
  BY <1>1, <1>3 DEF Answer, Typed, ClientType
<1>5. RowsKept /\ TookFrames BY <1>3, StillRows DEF TookFrames
<1>6. \A s \in AnySession, c \in Nat \ {0} : Begun(s, c)' => Begun(s, c)
  BY <1>1, <1>3, <1>4 DEF Begun, AnySession
<1>7. \A n \in Nodes, s \in AnySession : Complete(n, s)' BY <1>3, <1>5, <1>6, SameComplete
<1>8. Unharmed(u)' BY <1>4 DEF Unharmed, Serving
<1>9. ASSUME NEW v \in Uploads \ {u} PROVE Unharmed(v)'
  <2>1. \A t \in AnySession : Exists(t)' = Exists(t) BY <1>3 DEF Exists
  <2> QED BY <1>1, <1>3, <1>4, <2>1, Served, Bystander
<1> QED BY <1>1, <1>3, <1>7, <1>8, <1>9 DEF AllWell


(* An upload begins: nothing of its sessions is known anywhere before. *)
LEMMA InitWell ==
    ASSUME UploadInv, AllWell, [Next]_vars, NEW u \in Uploads, InitUpload(u), ~troubled'
    PROVE  AllWell'
<1>0. /\ AtomicInv /\ MoreTyped /\ Typed /\ BookInv /\ client[u] \in ClientType /\ Unharmed(u)
      /\ client[u].state = "idle" /\ busy = Idle /\ UNCHANGED <<toServer, tmp, lossy>>
  BY Served DEF UploadInv, AtomicInv, Base, InitUpload, nodeVars
<1>1. \/ Answer(u, "refused") /\ UNCHANGED <<rows, known, busy, toNode>>
      \/ Answer(u, "active")
  BY DEF InitUpload, Disturbed
<1>2. TookFrames BY <1>0 DEF TookFrames
<1>3. \A state : Answer(u, state) =>
        /\ client'[u].state = state /\ client'[u].part = client[u].part
        /\ client'[u].chunk = client[u].chunk
        /\ \A v \in Uploads \ {u} : client'[v] = client[v]
  BY <1>0 DEF Answer, Typed, ClientType
<1>4. CASE Answer(u, "refused") /\ UNCHANGED <<rows, known, busy, toNode>>
  <2>1. RowsKept BY <1>4, StillRows
  <2>2. \A s \in AnySession, c \in Nat \ {0} : Begun(s, c)' => Begun(s, c)
    BY <1>0, <1>3, <1>4 DEF Begun, AnySession
  <2>3. \A n \in Nodes, s \in AnySession : Complete(n, s)'
    BY <1>0, <1>2, <1>4, <2>1, <2>2, SameComplete
  <2>4. Unharmed(u)' BY <1>3, <1>4 DEF Unharmed, Serving
  <2>5. ASSUME NEW v \in Uploads \ {u} PROVE Unharmed(v)'
    <3>1. \A t \in AnySession : Exists(t)' = Exists(t) BY <1>4 DEF Exists
    <3> QED BY <1>0, <1>3, <1>4, <3>1, Served, Bystander
  <2> QED BY <1>0, <1>4, <2>3, <2>4, <2>5 DEF AllWell
<1>5. CASE Answer(u, "active")
  <2>1. PICK plan, c, d : Opens(u, plan, c, d)
    <3>1. client[u].size >= 1
      <4>1. client[u].size \in Sizes BY <1>0 DEF BookInv, Book
      <4>2. \A x \in Sizes : x \in Nat /\ x # 0 BY UploadAssumption
      <4>3. \A x \in Nat : x # 0 => x >= 1 OBVIOUS
      <4> QED BY <4>1, <4>2, <4>3
    <3>2. ~ClientsQuiet BY <1>0, <1>3, <1>5 DEF ClientsQuiet, Serving
    <3> QED BY <1>0, <3>1, <3>2, InitShape
  <2>2. /\ \A t \in AnySession : t[1] # u => (Exists(t)' <=> Exists(t)) /\ Row(t)' = Row(t)
        /\ \A t \in AnySession : t[1] = u => ~Exists(t) /\ (Exists(t)' <=> t[2] \in 1 .. c)
    BY <1>0, <2>1, OpensRows
  <2>3. busy' = Idle /\ known' = known \cup {<<u, i>> : i \in 1 .. c}
    <3>1. Answered(u, plan, c) /\ busy' = Idle BY <2>1 DEF Opens
    <3>2. ~Answer(u, "waiting") BY <1>3, <1>5
    <3> QED BY <3>1, <3>2 DEF Answered
  <2>4. /\ client'[u].state = "active" /\ client'[u].part = client[u].part
        /\ client'[u].chunk = 1
        /\ \A v \in Uploads \ {u} : client'[v] = client[v]
    BY <1>0, <1>3, <1>5 DEF Unharmed
  <2>5. ASSUME NEW n \in Nodes, NEW t \in AnySession PROVE Complete(n, t)'
    <3>1. PICK z \in Frames : /\ toNode'[n] = toNode[n] \o z
                              /\ \A k \in 1 .. Len(z) : z[k].op = "init_session"
      <4>1. PICK inits : /\ \A m \in Nodes : Starts(u, plan, c, m, inits[m])
                         /\ toNode' = [m \in Nodes |-> toNode[m] \o inits[m]]
        BY <2>1 DEF Opens
      <4>2. PICK z : z = inits[n] OBVIOUS
      <4>3. z \in Frames /\ \A k \in 1 .. Len(z) : z[k].op = "init_session"
        BY <4>1, <4>2 DEF Starts
      <4>4. toNode'[n] = toNode[n] \o z BY <4>1, <4>2
      <4> QED BY <4>3, <4>4
    <3>2. PICK L : L = Len(toNode[n]) OBVIOUS
    <3>3. /\ L \in Nat /\ Len(toNode'[n]) \in Nat /\ L <= Len(toNode'[n])
          /\ \A k \in 1 .. L : toNode'[n][k] = toNode[n][k]
          /\ \A k \in 1 .. Len(toNode'[n]) : k > L => toNode'[n][k].op = "init_session"
      <4>1. toNode[n] \in Seq(FrameType) /\ z \in Seq(FrameType) BY <1>0, TypedQueues DEF Frames
      <4>2. PICK M : M = Len(z) OBVIOUS
      <4>3. /\ L \in Nat /\ M \in Nat /\ Len(toNode[n] \o z) = L + M
            /\ \A k \in 1 .. L + M :
                 (toNode[n] \o z)[k] = IF k <= L THEN toNode[n][k] ELSE z[k - L]
        BY <3>2, <4>1, <4>2
      <4>4. \A k \in 1 .. L + M : k > L => k - L \in 1 .. M BY <4>3
      <4>5. \A k \in 1 .. L : k \in 1 .. L + M BY <4>3
      <4> QED BY <3>1, <4>2, <4>3, <4>4, <4>5
    <3>4. \A k : k \in 1 .. Len(toNode'[n]) /\ k > L => ~Is(toNode'[n][k], "commit_check", t)
      BY <3>3 DEF Is
    <3>5. CASE t[1] # u
      <4>1. On(n, t)' => On(n, t) /\ Row(t)'.size = Row(t).size BY <2>2, <3>5 DEF On
      <4>2. \A x : Begun(t, x)' => Begun(t, x) BY <1>0, <2>3, <2>4, <3>5 DEF Begun, AnySession
      <4>3. Complete(n, t) BY DEF AllWell
      <4> QED BY <1>0, <1>2, <3>2, <3>3, <3>4, <4>1, <4>2, <4>3, SentComplete
    <3>6. CASE t[1] = u
      <4>1. ~Exists(t) /\ Addressed(n) BY <2>2, <3>6 DEF UploadInv, NodeView
      <4>2. /\ \A k \in 1 .. L : ~Is(toNode[n][k], "commit_check", t)
            /\ \A k \in 1 .. Len(toServer[n]) : toServer[n][k].s # t
        BY <3>2, <4>1 DEF Addressed, QueueRight, ServerOn, Right, On, Is
      <4>3. \A k \in 1 .. Len(toNode'[n]) : ~Is(toNode'[n][k], "commit_check", t)
        BY <3>3, <3>4, <4>2
      <4>4. \A x \in Nat \ {0} : ~Begun(t, x)' BY <2>3, <2>4, <3>6 DEF Begun
      <4>5. \A y, x : x \in 1 .. y => x \in Nat \ {0} OBVIOUS
      <4>6. AllSent(n, t)' BY <4>4, <4>5 DEF AllSent
      <4>7. ChecksBacked(n, t)' BY <4>3 DEF ChecksBacked
      <4>8. Agreed(n, "commit_check_reply", t)' BY <1>0, <4>2 DEF Agreed, Is
      <4>9. ~Finalizing(t)' BY <2>3 DEF Finalizing
      <4> QED BY <4>6, <4>7, <4>8, <4>9 DEF Complete
    <3> QED BY <3>5, <3>6
  <2>6. Unharmed(u)'
    <3>1. ASSUME NEW t \in AnySession, t[1] = u, Exists(t)' PROVE t \in known'
      <4>1. t = <<u, t[2]>> /\ t[2] \in 1 .. c BY <2>2, <3>1 DEF AnySession
      <4> QED BY <2>3, <4>1
    <3> QED BY <2>4, <3>1 DEF Unharmed
  <2>7. ASSUME NEW v \in Uploads \ {u} PROVE Unharmed(v)'
    BY <1>0, <2>2, <2>3, <2>4, Served, Bystander
  <2> QED BY <1>0, <2>3, <2>5, <2>6, <2>7 DEF AllWell
<1> QED BY <1>1, <1>4, <1>5

(* The client of a wait that ends is the one that is served. *)
LEMMA EndsWell ==
    ASSUME UploadInv, AllWell, [Next]_vars, RowsKept, TookFrames, UNCHANGED <<tmp, toNode, lossy, known>>,
           busy # Idle, NEW u, u = busy.s[1], NEW c, Ends(u, c), c \in ClientType,
           \/ c.state = "done"
           \/ c.state = "active" /\ c.part = client[u].part + 1 /\ c.chunk = 1
           \/ /\ c.state = "active" /\ c.part = client[u].part
              /\ busy.op = "chunk_ack" /\ c.chunk = client[u].chunk + 1
    PROVE  AllWell'
<1>1. /\ Typed /\ u \in Uploads /\ client[u] \in ClientType /\ Unharmed(u)
      /\ client[u].state = "waiting" /\ Serving(u) /\ busy.s = <<u, client[u].part>>
      /\ busy' = Idle
  <2>1. Typed /\ busy \in WaitType BY DEF UploadInv, AtomicInv, Base, Typed
  <2>2. u \in Uploads BY <2>1 DEF WaitType, AnySession
  <2> QED BY <2>1, <2>2, Served DEF Ends
<1>2. client'[u] = c /\ \A v \in Uploads \ {u} : client'[v] = client[v]
  BY <1>1 DEF Ends, Typed
<1>3. ASSUME NEW s \in AnySession, NEW x \in Nat \ {0}, Begun(s, x)', c.state # "done"
      PROVE  Begun(s, x)
  <2>1. s[1] \in Uploads /\ s = <<s[1], s[2]>> BY DEF AnySession
  <2>2. x < client'[s[1]].chunk /\ s[2] = client'[s[1]].part BY <1>1, <1>3 DEF Begun
  <2>3. CASE s[1] # u BY <1>2, <2>1, <2>2, <2>3 DEF Begun
  <2>4. CASE s[1] = u
    <3>1. /\ c.part = client[u].part /\ busy.op = "chunk_ack"
          /\ c.chunk = client[u].chunk + 1
      BY <1>2, <1>3, <2>2, <2>4
    <3>2. s = busy.s /\ s[2] = client[u].part BY <1>1, <1>2, <2>1, <2>2, <2>4, <3>1
    <3>3. x < client[u].chunk \/ x = client[u].chunk
      BY <1>1, <1>2, <2>2, <2>4, <3>1 DEF ClientType
    <3> QED BY <2>4, <3>1, <3>2, <3>3 DEF Begun
  <2> QED BY <2>3, <2>4
<1>4. ASSUME NEW s \in AnySession, s[1] = u, MayFinalize(s)' PROVE c.state # "done"
  BY <1>1, <1>2, <1>4 DEF MayFinalize
<1>5. \A s \in AnySession, x \in Nat \ {0} : s[1] # u /\ Begun(s, x)' => Begun(s, x)
  BY <1>1, <1>2 DEF Begun, AnySession
<1>6. ASSUME NEW n \in Nodes, NEW s \in AnySession PROVE Complete(n, s)'
  <2>1. /\ Complete(n, s) /\ Len(toNode[n]) \in Nat
        /\ On(n, s)' => On(n, s) /\ Row(s)'.size = Row(s).size
    BY <1>1, TypedQueues, OnKept DEF AllWell
  <2>2. \A z, x : x \in 1 .. z => x \in Nat \ {0} OBVIOUS
  <2>3. CASE s[1] # u \/ c.state # "done"
    <3>1. \A x \in Nat \ {0} : Begun(s, x)' => Begun(s, x) BY <1>3, <1>5, <2>3
    <3> QED BY <2>1, <2>2, <3>1, SentComplete
  <2>4. CASE s[1] = u /\ c.state = "done"
    <3>1. ~MayFinalize(s)' /\ ~Finalizing(s)' BY <1>1, <1>4, <2>4 DEF Finalizing
    <3> QED BY <3>1 DEF Complete
  <2> QED BY <2>3, <2>4
<1>7. \A t \in AnySession : Exists(t)' <=> Exists(t) BY DEF RowsKept
<1>8. Unharmed(u)'
  <2>1. c.state \in {"active", "done"} OBVIOUS
  <2> QED BY <1>1, <1>2, <1>7, <2>1 DEF Unharmed, Serving
<1>9. ASSUME NEW v \in Uploads \ {u} PROVE Unharmed(v)'
  BY <1>1, <1>2, <1>7, Served, Bystander
<1> QED BY <1>1, <1>6, <1>8, <1>9 DEF AllWell


(* An answer the server waits for, of the rounds of a commit, is a yes. *)
LEMMA AnswersAgree ==
    ASSUME UploadInv, AllWell, NEW n \in Nodes, Taken(n), Awaited(n), busy.op # "chunk_ack"
    PROVE  Replied(n).ok /\ Replied(n).s = busy.s /\ Replied(n).op = busy.op
           /\ Replied(n) \in WaitType
<1>1. /\ Typed /\ busy # Idle /\ busy \in WaitType /\ busy.s \in AnySession /\ NodeView(n)
      /\ Head(toServer[n]).op = busy.op /\ Head(toServer[n]).s = busy.s /\ busy.ok
      /\ Complete(n, busy.s) /\ toServer[n] # <<>>
  <2>1. Typed /\ busy # Idle /\ busy \in WaitType
    BY DEF UploadInv, AtomicInv, Base, Typed, Awaited
  <2>2. busy.s \in AnySession BY <2>1 DEF WaitType
  <2> QED BY <2>1, <2>2 DEF UploadInv, AllWell, Awaited, Taken
<1>2. toServer[n] \in Seq(FrameType) BY <1>1, TypedQueues
<1>3. /\ Head(toServer[n]) = toServer[n][1] /\ 1 \in 1 .. Len(toServer[n])
      /\ toServer[n][1] \in FrameType
  BY <1>1, <1>2
<1>4. On(n, busy.s) BY <1>1, <1>3 DEF NodeView, Addressed, ServerOn
<1>5. busy.op \in {"commit_check_reply", "commit_finalize_reply"} BY <1>1 DEF WaitType
<1>6. Agreed(n, busy.op, busy.s)
  <2>1. CASE busy.op = "commit_check_reply"
    <3>1. MayFinalize(busy.s)
      <4>1. busy.s[2] <= busy.s[2] BY <1>1 DEF AnySession
      <4> QED BY <1>1, <2>1, <4>1 DEF MayFinalize
    <3> QED BY <1>1, <1>4, <2>1, <3>1 DEF Complete
  <2>2. CASE busy.op = "commit_finalize_reply"
    BY <1>1, <2>2 DEF Complete, Finalizing
  <2> QED BY <1>5, <2>1, <2>2
<1>7. Head(toServer[n]).ok BY <1>1, <1>3, <1>6 DEF Agreed, Is
<1> QED BY <1>1, <1>7 DEF Replied, WaitType

(* The server counts one more answer; its client goes on waiting. *)
LEMMA CountedWell ==
    ASSUME UploadInv, AllWell, [Next]_vars, TookFrames, UNCHANGED <<rows, known, client, tmp, lossy>>,
           busy # Idle, busy' # Idle, busy'.s = busy.s, busy.op # "chunk_ack",
           busy'.op # "chunk_ack", busy'.ok,
           \/ UNCHANGED toNode
           \/ toNode' = SentTo(Row(busy.s).nodes, F("commit_finalize", busy.s, 0, TRUE))
    PROVE  AllWell'
<1>1. /\ busy.s \in AnySession /\ Exists(busy.s)
      /\ RowsKept
  <2>1. Typed /\ OneHandler BY DEF UploadInv, AtomicInv, Base
  <2> QED BY <2>1, StillRows DEF Typed, WaitType, OneHandler
<1>2. \A s, x : Begun(s, x)' => Begun(s, x) BY DEF Begun
<1>3. \A n \in Nodes, s \in AnySession : Complete(n, s)'
  <2>1. CASE UNCHANGED toNode BY <1>1, <1>2, <2>1, SameComplete
  <2>2. CASE toNode' = SentTo(Row(busy.s).nodes, F("commit_finalize", busy.s, 0, TRUE))
    <3>1. PICK f : f = F("commit_finalize", busy.s, 0, TRUE) OBVIOUS
    <3>2. f \in FrameType /\ f.s = busy.s /\ f.op = "commit_finalize"
      <4> 0 \in Nat /\ TRUE \in BOOLEAN OBVIOUS
      <4> QED BY <1>1, <3>1, FrameTyped DEF F
    <3>3. toNode' = SentTo(Row(busy.s).nodes, f) BY <2>2, <3>1
    <3>4. PICK t : t = busy.s OBVIOUS
    <3> QED BY <1>1, <1>2, <3>2, <3>3, <3>4, AppendComplete
  <2> QED BY <2>1, <2>2
<1>4. ASSUME NEW v \in Uploads PROVE Unharmed(v)'
  <2>1. Unharmed(v) BY DEF AllWell
  <2>2. \A s : Exists(s)' <=> Exists(s) BY DEF Exists
  <2>3. InHandler(v)' <=> InHandler(v) BY DEF InHandler
  <2> QED BY <2>1, <2>2, <2>3 DEF Unharmed, Serving
<1> QED BY <1>3, <1>4 DEF AllWell

LEMMA ReceiveWell ==
    ASSUME UploadInv, AllWell, [Next]_vars, NEW n \in Nodes, Receive(n), ~troubled'
    PROVE  AllWell'
<1>1. /\ Typed /\ Taken(n)
  BY DEF UploadInv, AtomicInv, Base, Receive, ReceiveOther, ReceiveAck, ReceiveCheck,
         ReceiveFinalize
<1>2. TookFrames BY <1>1 DEF Typed, Taken, TookFrames
<1>3. busy # Idle => /\ busy.s[1] \in Uploads /\ client[busy.s[1]] \in ClientType
                     /\ busy \in WaitType /\ busy.s \in AnySession /\ Exists(busy.s)
  BY <1>1 DEF Typed, WaitType, AnySession, UploadInv, AtomicInv, Base, OneHandler
<1>4. CASE ReceiveOther(n)
  <2>1. UNCHANGED <<rows, known, busy, client, toNode, tmp, lossy>>
    BY <1>4 DEF ReceiveOther, dbVars, nodeVars, history
  <2>2. RowsKept /\ \A s, x : Begun(s, x)' => Begun(s, x) BY <2>1, StillRows DEF Begun
  <2>3. \A m \in Nodes, s \in AnySession : Complete(m, s)'
    BY <1>2, <2>1, <2>2, SameComplete
  <2>4. ASSUME NEW v \in Uploads PROVE Unharmed(v)'
    BY <2>1 DEF AllWell, Unharmed, Serving, InHandler, Exists
  <2> QED BY <2>1, <2>3, <2>4 DEF AllWell
<1>5. CASE ReceiveAck(n)
  <2>1. PICK u : u = busy.s[1] OBVIOUS
  <2>2. PICK c : c = GoesOn(client[u], client[u].part, client[u].chunk + 1) OBVIOUS
  <2>3. /\ busy # Idle /\ busy.op = "chunk_ack" /\ Ends(u, c)
        /\ UNCHANGED <<rows, known, toNode, tmp, lossy>>
    BY <1>5, <2>1, <2>2 DEF ReceiveAck, Awaited, dbVars, nodeVars, history
  <2>4. /\ c \in ClientType /\ c.state = "active" /\ c.part = client[u].part
        /\ c.chunk = client[u].chunk + 1
    <3>1. client[u] \in ClientType BY <1>3, <2>1, <2>3
    <3> QED BY <2>2, <3>1 DEF GoesOn, ClientType
  <2>5. RowsKept BY <2>3, StillRows
  <2> QED BY <1>2, <2>1, <2>3, <2>4, <2>5, EndsWell
<1>6. CASE ReceiveCheck(n)
  <2>1. PICK b : b = Replied(n) OBVIOUS
  <2>2. /\ Awaited(n) /\ busy.op = "commit_check_reply" /\ busy # Idle
        /\ UNCHANGED <<rows, known, tmp, lossy>>
    BY <1>6 DEF ReceiveCheck, Awaited, dbVars, nodeVars, history
  <2>3. b.ok /\ b.s = busy.s /\ b.op = busy.op /\ b \in WaitType
    BY <1>1, <2>1, <2>2, AnswersAgree
  <2>4. \/ b.replied # Row(b.s).nodes /\ busy' = b /\ UNCHANGED <<client, toNode>>
        \/ /\ b.replied = Row(b.s).nodes
           /\ toNode' = SentTo(b.replied, F("commit_finalize", b.s, 0, TRUE))
           /\ Wait("commit_finalize_reply", b.s) /\ UNCHANGED client
    BY <1>6, <2>1, <2>3 DEF ReceiveCheck
  <2>5. /\ busy' # Idle /\ busy'.s = busy.s /\ busy'.op # "chunk_ack" /\ busy'.ok
        /\ UNCHANGED client
        /\ \/ UNCHANGED toNode
           \/ toNode' = SentTo(Row(busy.s).nodes, F("commit_finalize", busy.s, 0, TRUE))
    <3>1. b # Idle BY <2>3 DEF WaitType, Idle
    <3>2. CASE busy' = b /\ UNCHANGED <<client, toNode>>
      <4>1. b.op # "chunk_ack" BY <2>2, <2>3
      <4> QED BY <2>3, <3>1, <3>2, <4>1
    <3>3. CASE /\ b.replied = Row(b.s).nodes
               /\ toNode' = SentTo(b.replied, F("commit_finalize", b.s, 0, TRUE))
               /\ Wait("commit_finalize_reply", b.s) /\ UNCHANGED client
      <4>1. /\ busy' # Idle /\ busy'.s = b.s /\ busy'.op = "commit_finalize_reply"
            /\ busy'.ok = TRUE
        BY <3>3 DEF Wait, Idle
      <4>2. toNode' = SentTo(Row(busy.s).nodes, F("commit_finalize", busy.s, 0, TRUE))
        BY <2>3, <3>3
      <4> QED BY <2>3, <3>3, <4>1, <4>2
    <3> QED BY <2>4, <3>2, <3>3
  <2> QED BY <1>2, <2>2, <2>5, CountedWell
<1>7. CASE ReceiveFinalize(n)
  <2>1. PICK b : b = Replied(n) OBVIOUS
  <2>2. /\ Awaited(n) /\ busy.op = "commit_finalize_reply" /\ busy # Idle
        /\ UNCHANGED tmp
    BY <1>7 DEF ReceiveFinalize, Awaited, nodeVars
  <2>3. b.ok /\ b.s = busy.s /\ b.op = busy.op /\ b \in WaitType
    BY <1>1, <2>1, <2>2, AnswersAgree
  <2>4. \/ /\ busy' = b /\ UNCHANGED <<rows, known, client, toNode, lossy>>
        \/ Commit(busy.s)
    BY <1>7, <2>1, <2>3 DEF ReceiveFinalize, dbVars, history
  <2>5. CASE busy' = b /\ UNCHANGED <<rows, known, client, toNode, lossy>>
    <3>1. b # Idle BY <2>3 DEF WaitType, Idle
    <3> QED BY <1>2, <2>2, <2>3, <2>5, <3>1, CountedWell
  <2>6. CASE Commit(busy.s)
    <3>1. PICK u : u = busy.s[1] OBVIOUS
    <3>2. PICK s : s = busy.s OBVIOUS
    <3>3. PICK c : /\ Ends(u, c)
                   /\ \/ c = [client[u] EXCEPT !.state = "done"]
                      \/ c = GoesOn(client[u], client[u].part + 1, 1)
      BY <2>6, <3>1 DEF Commit, Disturbed
    <3>4. /\ rows' = [rows EXCEPT ![s[1]][s[2]].status = "COMMITTED"]
          /\ UNCHANGED <<known, toNode, lossy>>
      BY <2>6, <3>2 DEF Commit, Disturbed
    <3>5. RowsKept BY <1>1, <1>3, <2>2, <3>2, <3>4, EndedRows
    <3>6. /\ c \in ClientType
          /\ \/ c.state = "done"
             \/ c.state = "active" /\ c.part = client[u].part + 1 /\ c.chunk = 1
      <4>1. client[u] \in ClientType BY <1>3, <2>2, <3>1
      <4>2. CASE c = [client[u] EXCEPT !.state = "done"] BY <4>1, <4>2 DEF ClientType
      <4>3. CASE c = GoesOn(client[u], client[u].part + 1, 1)
        BY <4>1, <4>3 DEF GoesOn, ClientType
      <4> QED BY <3>3, <4>2, <4>3
    <3> QED BY <1>2, <2>2, <3>1, <3>3, <3>4, <3>5, <3>6, EndsWell
  <2> QED BY <2>4, <2>5, <2>6
<1> QED BY <1>4, <1>5, <1>6, <1>7 DEF Receive

-----------------------------------------------------------------------------
LEMMA FailStep ==
    ASSUME UploadInv, FailInv, [Next]_vars
    PROVE  FailInv'
<1> SUFFICES ASSUME ~troubled' PROVE AllWell'
  BY DEF FailInv
<1>1. ~troubled
  <2>1. Disturbed => troubled' BY DEF Disturbed
  <2>2. \A s, late : Abort(s, late) => troubled' \/ ~troubled
    BY <2>1 DEF Abort
  <2>3. \A s : Commit(s) => troubled' \/ ~troubled
    BY <2>1 DEF Commit, Quiet
  <2>4. ASSUME NEW u \in Uploads, ClientNext(u) \/ ClientTimeout(u) \/ ClientLeaves(u)
        PROVE  ~troubled
    BY <2>1, <2>4 DEF ClientNext, InitUpload, ClientChunk, ClientCommit, ClientCommitMultipart,
                      ClientTimeout, ClientLeaves, Quiet, history
  <2>5. ASSUME NEW n \in Nodes, Receive(n) PROVE ~troubled
    BY <2>2, <2>3, <2>5 DEF Receive, ReceiveOther, ReceiveAck, ReceiveCheck, ReceiveFinalize,
                            history
  <2>6. ASSUME NEW n \in Nodes, NodeNext(n) PROVE ~troubled
    BY <2>1, <2>6 DEF NodeNext, NodeInitSession, NodeData, NodeCommitCheck,
                      NodeCommitFinalize, NodeDeleteObject, Quiet, history
  <2>7. ~WaitTimeout BY <2>1 DEF WaitTimeout, Abort
  <2>8. ~(ServerRestart \/ \E n \in Nodes : NodeRestart(n) \/ LoseFrames(n))
    BY <2>1 DEF ServerRestart, NodeRestart, LoseFrames
  <2>9. UNCHANGED vars => ~troubled BY DEF vars, history
  <2> QED BY <2>4, <2>5, <2>6, <2>7, <2>8, <2>9 DEF Next
<1>2. AllWell BY <1>1 DEF FailInv
<1>3. ASSUME NEW u \in Uploads, ClientNext(u) PROVE AllWell'
  BY <1>2, <1>3, InitWell, RequestWell, MultipartWell DEF ClientNext
<1>4. ASSUME NEW u \in Uploads, ClientTimeout(u) \/ ClientLeaves(u) PROVE FALSE
  <2>1. ~ClientLeaves(u) BY DEF ClientLeaves, Disturbed
  <2>2. ~ClientTimeout(u) BY <1>2 DEF ClientTimeout, AllWell, Unharmed, InHandler
  <2> QED BY <1>4, <2>1, <2>2
<1>5. ASSUME NEW n \in Nodes, Receive(n) PROVE AllWell'
  BY <1>2, <1>5, ReceiveWell
<1>6. ASSUME NEW n \in Nodes, NodeNext(n) PROVE AllWell'
  <2>1. UNCHANGED <<rows, busy, client, known, lossy>> BY <1>6, NodeStepBooks
  <2>2. \A m \in Nodes, s \in AnySession : Complete(m, s)' BY <1>2, <1>6, NodeComplete
  <2>3. ASSUME NEW v \in Uploads PROVE Unharmed(v)'
    BY <1>2, <2>1 DEF AllWell, Unharmed, Serving, InHandler, Exists
  <2> QED BY <1>2, <2>1, <2>2, <2>3 DEF AllWell
<1>7. ~(WaitTimeout \/ ServerRestart \/ \E n \in Nodes : NodeRestart(n) \/ LoseFrames(n))
  BY DEF WaitTimeout, Abort, ServerRestart, NodeRestart, LoseFrames, Disturbed
<1>8. CASE UNCHANGED vars
  <2>1. UNCHANGED <<rows, busy, client, known, lossy, toNode, toServer, tmp>>
    BY <1>8 DEF vars, dbVars, channels, nodeVars, history
  <2>2. ASSUME NEW v \in Uploads PROVE Unharmed(v)'
    BY <1>2, <2>1 DEF AllWell, Unharmed, Serving, InHandler, Exists
  <2>3. \A n \in Nodes, s \in AnySession : Complete(n, s)'
    BY <1>2, <2>1, OtherComplete DEF AllWell
  <2> QED BY <1>2, <2>1, <2>2, <2>3 DEF AllWell
<1> QED BY <1>3, <1>4, <1>5, <1>6, <1>7, <1>8 DEF Next

LEMMA FailBegins ==
    ASSUME Init
    PROVE  FailInv
<1>1. ASSUME NEW u \in Uploads PROVE Unharmed(u)
  <2>1. client[u] \in [state : {"idle"}, size : Sizes, part : {1}, chunk : {1}] BY DEF Init
  <2>2. client[u].state = "idle" /\ client[u].chunk = 1 BY <2>1
  <2> QED BY <2>2 DEF Unharmed, Serving
<1>2. ASSUME NEW n \in Nodes, NEW s \in AnySession PROVE Complete(n, s)
  <2>1. ~Exists(s) /\ ~Finalizing(s) BY DEF Init, Exists, AnySession, Finalizing
  <2> QED BY <2>1 DEF Complete, On
<1>3. lossy = {} /\ busy = Idle BY DEF Init
<1> QED BY <1>1, <1>2, <1>3 DEF FailInv, AllWell

(* Nothing but an outside failure or a missed deadline makes an upload      *)
(* fail: as long as there is none, no check, no commit_finalize and no      *)
(* request of a client is refused, in any interleaving of uploads.          *)
THEOREM FailuresHaveCauses == Spec => []FailureNeedsCause
<1>1. Init => FailInv BY FailBegins
<1>2. UploadInv /\ FailInv /\ [Next]_vars => FailInv' BY FailStep
<1>3. FailInv => FailureNeedsCause BY DEF FailInv, AllWell, Unharmed, FailureNeedsCause
<1> QED BY <1>1, <1>2, <1>3, AlwaysUploadInv, PTL DEF Spec
-----------------------------------------------------------------------------
(* What a client is told: every session was planned for ReplicaCount nodes, *)
(* and an upload that is done has an item.                                  *)

CopyInv ==
    /\ \A s \in AnySession : Exists(s) => Cardinality(Row(s).nodes) = ReplicaCount
    /\ \A u \in Uploads : client[u].state = "done" => item[u] # {}

LEMMA RowsCopied ==
    ASSUME UploadInv, CopyInv, [Next]_vars
    PROVE  \A s \in AnySession : Exists(s)' => Cardinality(Row(s).nodes)' = ReplicaCount
<1> SUFFICES ASSUME NEW s \in AnySession, Exists(s)'
             PROVE  Cardinality(Row(s)'.nodes) = ReplicaCount
  OBVIOUS
<1>1. CASE RowsKept BY <1>1 DEF RowsKept, CopyInv
<1>2. CASE Begins
  <2>1. PICK u \in Uploads : \E plan, c, d : Opens(u, plan, c, d) BY <1>2 DEF Begins
  <2>2. PICK plan, c, d : Opens(u, plan, c, d) BY <2>1
  <2>3. /\ AtomicInv /\ PlanType(plan) /\ c \in 0 .. Len(plan)
        /\ \A i \in 1 .. Len(plan) : Cardinality(plan[i].nodes) = ReplicaCount
    BY <2>2 DEF UploadInv, Opens, Fits
  <2>4. CASE s[1] # u
    <3>1. Exists(s) /\ Row(s)' = Row(s) BY <2>2, <2>3, <2>4, OpensRows
    <3> QED BY <3>1 DEF CopyInv
  <2>5. CASE s[1] = u
    <3>1. s[2] \in 1 .. c /\ Row(s)'.nodes = plan[s[2]].nodes BY <2>2, <2>3, <2>5, OpensRows
    <3>2. s[2] \in 1 .. Len(plan) BY <2>3, <3>1 DEF PlanType
    <3> QED BY <2>3, <3>1, <3>2
  <2> QED BY <2>4, <2>5
<1> QED BY <1>1, <1>2, StepProgress

(* All parts of a cut file become its item, and it has parts. *)
LEMMA FinishesWithItem ==
    ASSUME UploadInv, NEW u \in Uploads, Finishes(u)
    PROVE  item'[u] # {} /\ \A v \in Uploads \ {u} : item'[v] = item[v] /\ client'[v] = client[v]
<1>1. Typed /\ MoreTyped /\ Book(u) /\ client[u].state = "active"
  BY DEF UploadInv, AtomicInv, Base, BookInv, Finishes
<1>2. item' = [item EXCEPT ![u] = DOMAIN rows[u]] /\ \A v \in Uploads \ {u} : client'[v] = client[v]
  BY DEF Finishes
<1>3. DOMAIN rows[u] # {}
  <2> SUFFICES ASSUME DOMAIN rows[u] = {} PROVE FALSE OBVIOUS
  <2>1. Recorded(u) = 0
    <3>1. PICK f : f = [i \in DOMAIN rows[u] |-> rows[u][i].size] OBVIOUS
    <3>2. f \in [{} -> Nat] BY <3>1
    <3>3. TotalOf(f) = 0 BY <3>2, TotalZero
    <3> QED BY <3>1, <3>3 DEF Recorded
  <2>2. client[u].size = Recorded(u) /\ client[u].size \in Sizes BY <1>1 DEF Book, Serving
  <2> QED BY <2>1, <2>2, UploadAssumption
<1> QED BY <1>1, <1>2, <1>3 DEF MoreTyped

(* An upload in one piece is told to be done with its item. *)
LEMMA CommitsWithItem ==
    ASSUME UploadInv, CopyInv, Commits(busy.s), Commit(busy.s), NEW v \in Uploads,
           client'[v].state = "done"
    PROVE  item'[v] # {}
<1>1. PICK s : s = busy.s OBVIOUS
<1>2. PICK u : u = s[1] OBVIOUS
<1>3. /\ Typed /\ MoreTyped /\ u \in Uploads /\ s[2] \in DOMAIN rows[u]
      /\ client[u] \in ClientType
  BY <1>1, <1>2 DEF UploadInv, AtomicInv, Base, Typed, Commits, AnySession, Exists
<1>4. /\ \/ item' = [item EXCEPT ![u] = DOMAIN rows[u]]
         \/ UNCHANGED item /\ multipart[u] # "none"
      /\ \/ Ends(u, IF multipart[u] = "none" THEN [client[u] EXCEPT !.state = "done"]
                     ELSE GoesOn(client[u], client[u].part + 1, 1))
         \/ UNCHANGED client
  BY <1>1, <1>2 DEF Commit
<1>5. CASE item' = [item EXCEPT ![u] = DOMAIN rows[u]] /\ v = u
  BY <1>3, <1>5 DEF MoreTyped
<1>6. ASSUME client[v].state = "done", item'[v] = item[v] PROVE item'[v] # {}
  BY <1>6 DEF CopyInv
<1>7. CASE v # u
  <2>1. item'[v] = item[v] BY <1>3, <1>4, <1>7 DEF MoreTyped
  <2>2. client'[v] = client[v] BY <1>3, <1>4, <1>7 DEF Ends, Typed
  <2> QED BY <1>6, <2>1, <2>2
<1>8. CASE UNCHANGED item /\ multipart[u] # "none" /\ v = u
  <2>1. client'[u].state = "active" \/ client'[u] = client[u]
    <3>1. Ends(u, GoesOn(client[u], client[u].part + 1, 1)) \/ UNCHANGED client BY <1>4, <1>8
    <3> QED BY <1>3, <3>1 DEF Ends, GoesOn, Typed
  <2> QED BY <1>6, <1>8, <2>1
<1> QED BY <1>4, <1>5, <1>7, <1>8

LEMMA DoneWithItem ==
    ASSUME UploadInv, CopyInv, [Next]_vars, NEW v \in Uploads, client'[v].state = "done"
    PROVE  item'[v] # {}
<1>0. AtomicInv /\ MoreTyped /\ \A u \in Uploads : client[u].size >= 1
  <2>1. AtomicInv /\ MoreTyped /\ \A u \in Uploads : client[u].size \in Sizes
    BY DEF UploadInv, BookInv, Book
  <2>2. \A z \in Sizes : z \in Nat \ {0} BY UploadAssumption
  <2> QED BY <2>1, <2>2
<1>1. ASSUME client[v].state = "done", item'[v] = item[v] PROVE item'[v] # {}
  BY <1>1 DEF CopyInv
<1>2. CASE QuietStep
  BY <1>1, <1>2 DEF QuietStep, BookSame, ClientsQuiet
<1>3. CASE Begins
  <2>1. PICK u \in Uploads : \E plan, c, d : Opens(u, plan, c, d) BY <1>3 DEF Begins
  <2>2. PICK plan, c, d : Opens(u, plan, c, d) BY <2>1
  <2>3. item' = item /\ (Answer(u, "active") \/ Answer(u, "waiting"))
    BY <2>2 DEF Opens, Answered
  <2>4. Typed BY <1>0 DEF AtomicInv, Base
  <2>5. client'[u].state # "done" /\ \A w \in Uploads \ {u} : client'[w] = client[w]
    BY <2>3, <2>4 DEF Answer, Typed, ClientType
  <2> QED BY <1>1, <2>3, <2>5
<1>4. CASE \E u \in Uploads : Finishes(u)
  <2>1. PICK u \in Uploads : Finishes(u) BY <1>4
  <2>2. item'[u] # {} /\ \A w \in Uploads \ {u} : item'[w] = item[w] /\ client'[w] = client[w]
    BY <2>1, FinishesWithItem
  <2> QED BY <1>1, <2>2
<1>5. CASE Commits(busy.s) /\ Commit(busy.s) BY <1>5, CommitsWithItem
<1>6. CASE \E n \in Nodes : NodeNext(n)
  <2>1. UNCHANGED <<item, client>> BY <1>6, NodeStepBooks
  <2> QED BY <1>1, <2>1
<1> QED BY <1>0, <1>2, <1>3, <1>4, <1>5, <1>6, StepShape

(* Whatever is lost, restarted, aborted or cut into parts: a client is told *)
(* that its file is uploaded only when there is an item and ReplicaCount    *)
(* nodes store each part of it, and they keep it.                           *)
THEOREM DoneAlwaysStored == Spec => []DoneIsStored
<1>1. Init => CopyInv
  <2> SUFFICES ASSUME Init PROVE CopyInv OBVIOUS
  <2>1. \A s \in AnySession : ~Exists(s) BY DEF Init, Exists, AnySession
  <2>2. ASSUME NEW u \in Uploads PROVE client[u].state = "idle"
    <3>1. client[u] \in [state : {"idle"}, size : Sizes, part : {1}, chunk : {1}] BY DEF Init
    <3> QED BY <3>1
  <2> QED BY <2>1, <2>2 DEF CopyInv
<1>2. UploadInv /\ CopyInv /\ [Next]_vars => CopyInv'
  BY RowsCopied, DoneWithItem DEF CopyInv
<1>3. UploadInv /\ CopyInv => DoneIsStored
  <2> SUFFICES ASSUME UploadInv, CopyInv, NEW u \in Uploads, client[u].state = "done"
               PROVE  /\ item[u] # {}
                      /\ \A i \in item[u] : Cardinality(Holders(<<u, i>>)) >= ReplicaCount
    BY DEF DoneIsStored
  <2>1. item[u] # {} /\ Book(u) /\ Typed BY DEF CopyInv, UploadInv, BookInv, AtomicInv, Base
  <2>2. ASSUME NEW i \in item[u] PROVE Cardinality(Holders(<<u, i>>)) >= ReplicaCount
    <3>1. PICK s : s = <<u, i>> OBVIOUS
    <3>2. i \in DOMAIN rows[u] /\ rows[u][i].status = "COMMITTED" BY <2>1, <2>2 DEF Book
    <3>3. rows[u] \in Seq(RowType) /\ i \in Nat \ {0} BY <2>1, <3>2 DEF Typed, Rows
    <3>4. s \in AnySession /\ Exists(s) /\ Row(s).status = "COMMITTED"
      BY <3>1, <3>2, <3>3 DEF AnySession, Exists, Row
    <3>5. \A n \in Row(s).nodes : s \in stored[n]
      BY <3>4 DEF UploadInv, AtomicInv, SessionInv, CommittedStored
    <3>6. Row(s).nodes \subseteq Nodes
      <4>1. rows[u][i] \in RowType BY <3>2, <3>3
      <4>2. rows[u][i].nodes \in SUBSET Nodes BY <4>1 DEF RowType
      <4>3. Row(s) = rows[u][i] BY <3>1 DEF Row
      <4> QED BY <4>2, <4>3
    <3>7. Row(s).nodes \subseteq Holders(s) /\ Holders(s) \subseteq Nodes BY <3>5, <3>6 DEF Holders
    <3>8. IsFiniteSet(Holders(s)) BY <3>7, UploadAssumption, FS_Subset
    <3>9. /\ Cardinality(Row(s).nodes) <= Cardinality(Holders(s))
          /\ Cardinality(Holders(s)) \in Nat
      BY <3>7, <3>8, FS_Subset, FS_CardinalityType
    <3>10. Cardinality(Row(s).nodes) = ReplicaCount BY <3>4 DEF CopyInv
    <3> QED BY <3>1, <3>9, <3>10, UploadAssumption
  <2> QED BY <2>1, <2>2
<1> QED BY <1>1, <1>2, <1>3, AlwaysUploadInv, PTL DEF Spec
=============================================================================
