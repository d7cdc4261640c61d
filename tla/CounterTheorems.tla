--------------------------- MODULE CounterTheorems ---------------------------
(***************************************************************************)
(* Facts about totals: of one counter that changes, of two functions added *)
(* pointwise, and of bounds on the single counters.                        *)
(***************************************************************************)
EXTENDS Counters, Integers, FiniteSetTheorems, TLAPS

LEMMA UnitsOf ==
    ASSUME NEW S, NEW f \in [S -> Nat]
    PROVE  /\ \A x \in S, k \in Nat : k \in 1 .. f[x] => <<x, k>> \in Units(f)
           /\ \A u \in Units(f) : u[1] \in S /\ u[2] \in 1 .. f[u[1]] /\ u = <<u[1], u[2]>>
BY DEF Units

(* The units of a counter are as many as it says. *)
LEMMA UnitsOfOne ==
    ASSUME NEW x, NEW k \in Nat
    PROVE  IsFiniteSet({x} \X (1 .. k)) /\ Cardinality({x} \X (1 .. k)) = k
<1>1. IsFiniteSet(1 .. k) /\ Cardinality(1 .. k) = k
  <2>1. Cardinality(1 .. k) = IF 1 > k THEN 0 ELSE k - 1 + 1 BY FS_Interval
  <2> QED BY <2>1, FS_Interval
<1>2. IsFiniteSet({x}) /\ Cardinality({x}) = 1 BY FS_Singleton
<1> DEFINE R == 1 .. k
<1> HIDE DEF R
<1>3. IsFiniteSet({x} \X R) /\ Cardinality({x} \X R) = Cardinality({x}) * Cardinality(R)
  BY <1>1, <1>2, FS_Product DEF R
<1>4. Cardinality(R) = k BY <1>1 DEF R
<1>5. Cardinality({x} \X R) = k BY <1>2, <1>3, <1>4
<1> QED BY <1>3, <1>5 DEF R

LEMMA TotalType ==
    ASSUME NEW S, IsFiniteSet(S), NEW f \in [S -> Nat]
    PROVE  IsFiniteSet(Units(f)) /\ TotalOf(f) \in Nat
<1> DEFINE U == {{x} \X (1 .. f[x]) : x \in S}
           g == [x \in S |-> {x} \X (1 .. f[x])]
<1>1. g \in Surjection(S, U) BY DEF Surjection
<1>2. IsFiniteSet(U)
  <2> HIDE DEF g, U
  <2> QED BY <1>1, FS_Surjection
<1>3. ASSUME NEW T \in U PROVE IsFiniteSet(T)
  <2>1. PICK x \in S : T = {x} \X (1 .. f[x]) OBVIOUS
  <2>2. f[x] \in Nat OBVIOUS
  <2> QED BY <2>1, <2>2, UnitsOfOne
<1>4. Units(f) = UNION U BY DEF Units
<1>5. IsFiniteSet(Units(f))
  <2> HIDE DEF U
  <2> QED BY <1>2, <1>3, <1>4, FS_UNION
<1> QED BY <1>5, FS_CardinalityType DEF TotalOf

(* Counters that say nothing have no total. *)
LEMMA TotalZero ==
    ASSUME NEW S, NEW f \in [S -> Nat], \A x \in S : f[x] = 0
    PROVE  TotalOf(f) = 0
<1>1. Units(f) = {} BY UnitsOf
<1> QED BY <1>1, FS_EmptySet DEF TotalOf

(* What changes a total is the one counter that changes. *)
LEMMA TotalChange ==
    ASSUME NEW S, IsFiniteSet(S), NEW f \in [S -> Nat], NEW g \in [S -> Nat],
           NEW x \in S, \A y \in S \ {x} : g[y] = f[y]
    PROVE  TotalOf(g) = TotalOf(f) - f[x] + g[x]
<1> DEFINE Rest(h) == Units(h) \ ({x} \X (1 .. h[x]))
<1>1. ASSUME NEW h \in [S -> Nat]
      PROVE  /\ IsFiniteSet(Rest(h))
             /\ TotalOf(h) = Cardinality(Rest(h)) + h[x]
  <2> DEFINE one == {x} \X (1 .. h[x])
  <2>1. IsFiniteSet(Units(h)) /\ IsFiniteSet(one) /\ Cardinality(one) = h[x]
    BY TotalType, UnitsOfOne
  <2>2. one \subseteq Units(h) BY UnitsOf
  <2>3. Units(h) \cap one = one BY <2>2
  <2> HIDE DEF one
  <2>4. /\ IsFiniteSet(Units(h) \ one)
        /\ Cardinality(Units(h) \ one) = Cardinality(Units(h)) - Cardinality(Units(h) \cap one)
    BY <2>1, FS_Difference
  <2>5. Cardinality(Units(h)) \in Nat BY <2>1, FS_CardinalityType
  <2> QED BY <2>1, <2>3, <2>4, <2>5 DEF TotalOf, one
<1>2. Rest(f) = Rest(g)
  <2>1. ASSUME NEW a \in [S -> Nat], NEW b \in [S -> Nat], \A y \in S \ {x} : a[y] = b[y],
               NEW u \in Rest(a)
        PROVE  u \in Rest(b)
    <3>1. u[1] \in S /\ u[2] \in 1 .. a[u[1]] /\ u = <<u[1], u[2]>> BY UnitsOf
    <3>2. u[1] # x BY <3>1
    <3>3. u[2] \in Nat /\ u[2] \in 1 .. b[u[1]] BY <2>1, <3>1, <3>2
    <3>4. u \in Units(b) BY <3>1, <3>3, UnitsOf
    <3> QED BY <3>1, <3>2, <3>4
  <2>2. \A u \in Rest(f) : u \in Rest(g) BY <2>1
  <2>3. \A u \in Rest(g) : u \in Rest(f) BY <2>1
  <2> QED BY <2>2, <2>3
<1>3. Cardinality(Rest(f)) \in Nat BY <1>1, FS_CardinalityType
<1> HIDE DEF Rest
<1> QED BY <1>1, <1>2, <1>3

(* A smaller function has a smaller total. *)
LEMMA TotalMonotone ==
    ASSUME NEW S, IsFiniteSet(S), NEW f \in [S -> Nat], NEW g \in [S -> Nat],
           \A x \in S : f[x] <= g[x]
    PROVE  TotalOf(f) <= TotalOf(g)
<1>1. Units(f) \subseteq Units(g)
  <2>1. ASSUME NEW u \in Units(f) PROVE u \in Units(g)
    <3>1. u[1] \in S /\ u[2] \in 1 .. f[u[1]] /\ u = <<u[1], u[2]>> BY UnitsOf
    <3>2. u[2] \in Nat /\ u[2] \in 1 .. g[u[1]] BY <3>1
    <3> QED BY <3>1, <3>2, UnitsOf
  <2> QED BY <2>1
<1>2. IsFiniteSet(Units(g)) BY TotalType
<1> QED BY <1>1, <1>2, FS_Subset DEF TotalOf

(* The total of a sum is the sum of the totals. *)
LEMMA TotalSum ==
    ASSUME NEW S, IsFiniteSet(S), NEW f \in [S -> Nat], NEW g \in [S -> Nat],
           NEW h \in [S -> Nat], \A x \in S : h[x] = f[x] + g[x]
    PROVE  TotalOf(h) = TotalOf(f) + TotalOf(g)
<1> DEFINE D == Units(h) \ Units(f)
           move == [u \in Units(g) |-> <<u[1], u[2] + f[u[1]]>>]
<1>1. IsFiniteSet(Units(f)) /\ IsFiniteSet(Units(g)) /\ IsFiniteSet(Units(h)) BY TotalType
<1>2. Units(f) \subseteq Units(h)
  <2>1. ASSUME NEW u \in Units(f) PROVE u \in Units(h)
    <3>1. u[1] \in S /\ u[2] \in 1 .. f[u[1]] /\ u = <<u[1], u[2]>> BY UnitsOf
    <3>2. u[2] \in Nat /\ u[2] \in 1 .. h[u[1]] BY <3>1
    <3> QED BY <3>1, <3>2, UnitsOf
  <2> QED BY <2>1
<1>3. move \in Bijection(Units(g), D)
  <2>1. ASSUME NEW u \in Units(g) PROVE move[u] \in D
    <3>1. u[1] \in S /\ u[2] \in 1 .. g[u[1]] /\ u = <<u[1], u[2]>> BY UnitsOf
    <3> DEFINE k == u[2] + f[u[1]]
    <3>2. k \in Nat /\ k \in 1 .. h[u[1]] /\ k \notin 1 .. f[u[1]] BY <3>1
    <3>3. move[u] = <<u[1], k>> OBVIOUS
    <3> HIDE DEF k
    <3>4. <<u[1], k>> \in Units(h) BY <3>1, <3>2, UnitsOf
    <3>5. <<u[1], k>> \notin Units(f) BY <3>2, UnitsOf
    <3> QED BY <3>3, <3>4, <3>5
  <2>2. ASSUME NEW u \in Units(g), NEW v \in Units(g), move[u] = move[v] PROVE u = v
    <3>1. u[1] \in S /\ u[2] \in Nat /\ u = <<u[1], u[2]>>
          /\ v[1] \in S /\ v[2] \in Nat /\ v = <<v[1], v[2]>> BY UnitsOf
    <3>2. u[1] = v[1] /\ u[2] + f[u[1]] = v[2] + f[v[1]] BY <2>2
    <3>3. u[2] = v[2] BY <3>1, <3>2
    <3> QED BY <3>1, <3>2, <3>3
  <2>3. ASSUME NEW w \in D PROVE \E u \in Units(g) : move[u] = w
    <3>1. w[1] \in S /\ w[2] \in 1 .. h[w[1]] /\ w = <<w[1], w[2]>> BY UnitsOf
    <3>2. ~(w[2] \in 1 .. f[w[1]])
      <4>1. w[2] \in Nat BY <3>1
      <4> QED BY <3>1, <4>1, UnitsOf
    <3> DEFINE k == w[2] - f[w[1]]
    <3>3. k \in Nat /\ k \in 1 .. g[w[1]] /\ k + f[w[1]] = w[2] BY <3>1, <3>2
    <3> HIDE DEF k
    <3>4. <<w[1], k>> \in Units(g) BY <3>1, <3>3, UnitsOf
    <3>5. move[<<w[1], k>>] = w BY <3>1, <3>3, <3>4
    <3> QED BY <3>4, <3>5
  <2> HIDE DEF move, D
  <2>4. move \in [Units(g) -> D] BY <2>1 DEF move
  <2> QED BY <2>2, <2>3, <2>4 DEF Bijection, Injection, Surjection, IsInjective
<1>4. Cardinality(D) = Cardinality(Units(g))
  <2> HIDE DEF move, D
  <2> QED BY <1>1, <1>3, FS_Bijection DEF ExistsBijection
<1>5. Cardinality(D) = Cardinality(Units(h)) - Cardinality(Units(h) \cap Units(f))
  BY <1>1, FS_Difference
<1>6. Units(h) \cap Units(f) = Units(f) BY <1>2
<1>7. Cardinality(Units(f)) \in Nat /\ Cardinality(Units(g)) \in Nat
      /\ Cardinality(Units(h)) \in Nat BY <1>1, FS_CardinalityType
<1> HIDE DEF D, move
<1>8. Cardinality(Units(h)) - Cardinality(Units(f)) = Cardinality(Units(g))
  BY <1>4, <1>5, <1>6
<1>9. Cardinality(Units(h)) = Cardinality(Units(f)) + Cardinality(Units(g))
  BY <1>7, <1>8
<1> QED BY <1>9 DEF TotalOf

(* Counters bounded by b have a total bounded by b each. *)
LEMMA TotalBound ==
    ASSUME NEW S, IsFiniteSet(S), NEW f \in [S -> Nat], NEW b \in Nat,
           \A x \in S : f[x] <= b
    PROVE  TotalOf(f) <= Cardinality(S) * b
<1>1. IsFiniteSet(1 .. b) /\ Cardinality(1 .. b) = b
  <2>1. Cardinality(1 .. b) = IF 1 > b THEN 0 ELSE b - 1 + 1 BY FS_Interval
  <2> QED BY <2>1, FS_Interval
<1>2. Units(f) \subseteq S \X (1 .. b)
  <2>1. ASSUME NEW u \in Units(f) PROVE u \in S \X (1 .. b)
    <3>1. u[1] \in S /\ u[2] \in 1 .. f[u[1]] /\ u = <<u[1], u[2]>> BY UnitsOf
    <3>2. u[2] \in 1 .. b BY <3>1
    <3> QED BY <3>1, <3>2
  <2> QED BY <2>1
<1>3. IsFiniteSet(S \X (1 .. b)) /\ Cardinality(S \X (1 .. b)) = Cardinality(S) * b
  BY <1>1, FS_Product
<1> QED BY <1>2, <1>3, FS_Subset DEF TotalOf
=============================================================================
