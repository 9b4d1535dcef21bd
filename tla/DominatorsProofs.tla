--------------------------- MODULE DominatorsProofs ---------------------------
(***************************************************************************)
(* For any finite graph, however its edges are listed: when the analysis   *)
(* of a function is over, a dominates b by the tree's clock times exactly  *)
(* when every path from the entry to b passes a.                           *)
(*                                                                         *)
(* The argument follows the analysis.  A closure is the least set closed   *)
(* under the edges (ClosureIs), so reachability, what is met on the way up *)
(* the tree of immediate dominators, and dominance itself can each be      *)
(* reasoned about as a least set.  The search leaves every reachable block *)
(* once, each entered from one it leaves later.  A pass keeps the tree an  *)
(* over-approximation of dominance; the edges are seen in reverse          *)
(* postorder, so every pass that changes something finds, for some a, one  *)
(* more place that a does not dominate, and there are too few places for   *)
(* the passes to run out before nothing changes.  A pass that changes      *)
(* nothing has found the tree of dominance.  The walk of that tree then    *)
(* gives a place clock times inside those of the places above it and apart *)
(* from all others.                                                        *)
(*                                                                         *)
(* Places are reverse-postorder indices; m, d and into stand for n,        *)
(* idomIdx and the predecessors by place.                                  *)
(***************************************************************************)
EXTENDS Dominators, FiniteSetTheorems, SequenceTheorems, WellFoundedInduction, TLAPS

\* A nonempty set of numbers has a least.
LEMMA LeastExists ==
  ASSUME NEW S \in SUBSET Nat, S # {}
  PROVE  \E m \in S : \A q \in S : m <= q
<1>1. PICK m \in S : \A y \in S : ~(<<y, m>> \in OpToRel(<, Nat))
  BY NatLessThanWellFounded, WFMin
<1>2. \A y \in S : ~(y < m)
  BY <1>1 DEF OpToRel
<1> QED
  BY <1>2

\* So one of some numbers up to a bound is the greatest.
LEMMA GreatestExists ==
  ASSUME NEW m \in Nat, NEW S \in SUBSET (0..m), S # {}
  PROVE  \E x \in S : \A q \in S : q <= x
<1> DEFINE T == {m - k : k \in S}
<1>1. T \in SUBSET Nat /\ T # {}
  <2>1. \A k \in S : k \in 0..m /\ m - k \in Nat
    OBVIOUS
  <2>2. PICK k \in S : TRUE
    OBVIOUS
  <2> QED
    BY <2>1, <2>2
<1>2. PICK t \in T : \A q \in T : t <= q
  BY <1>1, LeastExists
<1>3. PICK x \in S : t = m - x
  BY <1>2
<1>4. ASSUME NEW q \in S PROVE q <= x
  <2>1. m - q \in T /\ x \in 0..m /\ q \in 0..m
    OBVIOUS
  <2> QED
    BY <1>2, <1>3, <2>1
<1> QED
  BY <1>4

\* Any step can be iterated.
Iterated(f, V, step, v) ==
  f \in [Nat -> V] /\ f[0] = v /\ \A k \in Nat : f[k + 1] = step[f[k]]

LEMMA Iterates ==
  ASSUME NEW V, NEW step \in [V -> V], NEW v \in V
  PROVE  \E f : Iterated(f, V, step, v)
<1> DEFINE Upto(k, g) == /\ g \in [0..k -> V] /\ g[0] = v
                         /\ \A j \in 0..(k - 1) : g[j + 1] = step[g[j]]
<1>1. \A k \in Nat : \E g : Upto(k, g)
  <2> DEFINE T == {k \in Nat : ~\E g : Upto(k, g)}
  <2> SUFFICES ASSUME T # {} PROVE FALSE
    OBVIOUS
  <2>1. PICK k \in T : \A q \in T : k <= q
    <3> HIDE DEF Upto
    <3> QED
      BY LeastExists
  <2>2. Upto(0, [j \in 0..0 |-> v])
    OBVIOUS
  <2>3. k # 0 /\ k \in Nat /\ k - 1 \in Nat /\ k - 1 \notin T
    <3> HIDE DEF Upto
    <3> QED
      BY <2>1, <2>2
  <2>4. PICK g : Upto(k - 1, g)
    <3> HIDE DEF Upto
    <3> QED
      BY <2>3
  <2>5. Upto(k, [j \in 0..k |-> IF j = k THEN step[g[k - 1]] ELSE g[j]])
    <3> DEFINE h == [j \in 0..k |-> IF j = k THEN step[g[k - 1]] ELSE g[j]]
    <3>1. g \in [0..(k - 1) -> V] /\ k - 1 \in 0..(k - 1)
      BY <2>3, <2>4
    <3>2. h \in [0..k -> V] /\ h[0] = v
      BY <2>3, <2>4, <3>1
    <3>3. ASSUME NEW j \in 0..(k - 1) PROVE h[j + 1] = step[h[j]]
      <4>1. j \in 0..k /\ j + 1 \in 0..k /\ j # k
        BY <2>3
      <4>2. h[j] = g[j]
        BY <4>1
      <4>3. CASE j = k - 1
        BY <2>3, <4>1, <4>2, <4>3
      <4>4. CASE j # k - 1
        <5>1. j \in 0..(k - 1 - 1)
          BY <2>3, <4>4
        <5> QED
          BY <2>3, <2>4, <4>1, <4>2, <4>4, <5>1
      <4> QED
        BY <4>3, <4>4
    <3> QED
      BY <3>2, <3>3
  <2> QED
    <3> HIDE DEF Upto
    <3> QED
      BY <2>1, <2>5
<1>2. ASSUME NEW k \in Nat, NEW l \in Nat, NEW g, NEW h, k <= l, Upto(k, g), Upto(l, h)
      PROVE  g[k] = h[k]
  <2> DEFINE T == {j \in 0..k : g[j] # h[j]}
  <2> SUFFICES ASSUME T # {} PROVE FALSE
    OBVIOUS
  <2>1. PICK j \in T : \A q \in T : j <= q
    <3>1. T \in SUBSET Nat
      OBVIOUS
    <3> HIDE DEF T
    <3> QED
      BY <3>1, LeastExists
  <2>2. j # 0
    BY <1>2, <2>1
  <2>3. j - 1 \in 0..(k - 1) /\ j - 1 \in 0..(l - 1) /\ j - 1 \in 0..k
    BY <1>2, <2>1, <2>2
  <2>4. g[j - 1] = h[j - 1]
    BY <2>1, <2>3
  <2>5. g[(j - 1) + 1] = step[g[j - 1]] /\ h[(j - 1) + 1] = step[h[j - 1]]
    BY <1>2, <2>3
  <2> QED
    BY <2>1, <2>4, <2>5
<1> DEFINE run(k) == CHOOSE g : Upto(k, g)
           f == [k \in Nat |-> run(k)[k]]
<1>3. \A k \in Nat : Upto(k, run(k))
  <2> HIDE DEF Upto
  <2> QED
    BY <1>1
<1> HIDE DEF run
<1>4. f \in [Nat -> V]
  BY <1>3
<1>5. f[0] = v
  BY <1>3
<1>6. ASSUME NEW k \in Nat PROVE f[k + 1] = step[f[k]]
  <2>1. Upto(k + 1, run(k + 1)) /\ Upto(k, run(k)) /\ k \in 0..(k + 1 - 1)
    BY <1>3
  <2>2. run(k)[k] = run(k + 1)[k]
    <3> HIDE DEF Upto
    <3> QED
      BY <1>2, <2>1
  <2>3. run(k + 1)[k + 1] = step[run(k + 1)[k]]
    BY <2>1
  <2> QED
    BY <2>2, <2>3
<1> QED
  <2>1. Iterated(f, V, step, v)
    <3> HIDE DEF f
    <3> QED
      BY <1>4, <1>5, <1>6 DEF Iterated
  <2> QED
    BY <2>1

\* f[k] is what S leads to in at most k steps.
Grown(f, edges, S) ==
  /\ f \in [Nat -> SUBSET DOMAIN edges]
  /\ f[0] = S
  /\ \A k \in Nat : f[k + 1] = UNION {{b} \cup edges[b] : b \in f[k]}

\* The steps that Closure takes, as a function of their number.
LEMMA ClosureSteps ==
  ASSUME NEW edges, \A b \in DOMAIN edges : edges[b] \subseteq DOMAIN edges,
         NEW S \in SUBSET DOMAIN edges
  PROVE  \E f : /\ Grown(f, edges, S)
               /\ Closure(edges, S) = f[Cardinality(DOMAIN edges)]
<1> DEFINE V == SUBSET DOMAIN edges
           After(B) == UNION {{b} \cup edges[b] : b \in B}
           step == [B \in V |-> After(B)]
<1>1. step \in [V -> V] /\ S \in V
  OBVIOUS
<1>2. PICK f : Iterated(f, V, step, S)
  <2> HIDE DEF V, step
  <2> QED
    BY <1>1, Iterates
<1>3. f \in [Nat -> V] /\ f[0] = S /\ \A k \in Nat : f[k + 1] = After(f[k])
  BY <1>2 DEF Iterated
<1> DEFINE Is(g) == g = [k \in Nat |-> IF k = 0 THEN S ELSE After(g[k - 1])]
<1>4. Is(f)
  <2>1. ASSUME NEW k \in Nat PROVE f[k] = IF k = 0 THEN S ELSE After(f[k - 1])
    <3>1. CASE k = 0
      BY <1>3, <3>1
    <3>2. CASE k # 0
      <4>1. k - 1 \in Nat /\ (k - 1) + 1 = k
        BY <3>2
      <4> QED
        BY <1>3, <3>2, <4>1
    <3> QED
      BY <3>1, <3>2
  <2> HIDE DEF After
  <2> QED
    BY <1>3, <2>1
<1> DEFINE g == CHOOSE x : Is(x)
<1>5. Is(g)
  <2> HIDE DEF Is
  <2> QED
    BY <1>4
<1>6. Closure(edges, S) = g[Cardinality(DOMAIN edges)]
  BY DEF Closure
<1> HIDE DEF g
<1>7. g[0] = S /\ \A k \in Nat : g[k + 1] = After(g[k])
  <2>1. ASSUME NEW k \in Nat PROVE g[k] = IF k = 0 THEN S ELSE After(g[k - 1])
    <3> HIDE DEF After
    <3> QED
      BY <1>5
  <2>2. \A k \in Nat : k + 1 \in Nat /\ k + 1 # 0 /\ (k + 1) - 1 = k
    OBVIOUS
  <2> HIDE DEF After
  <2> QED
    BY <2>1, <2>2
<1>8. g \in [Nat -> V]
  <2>1. g = [k \in Nat |-> g[k]]
    BY <1>5
  <2> DEFINE T == {k \in Nat : g[k] \notin V}
  <2>2. T = {}
    <3> SUFFICES ASSUME T # {} PROVE FALSE
      OBVIOUS
    <3>1. PICK k \in T : \A q \in T : k <= q
      BY LeastExists
    <3>2. k # 0 /\ k - 1 \in Nat /\ k - 1 \notin T
      BY <1>7, <3>1
    <3>3. g[k - 1] \in V /\ g[(k - 1) + 1] = After(g[k - 1])
      BY <1>7, <3>2
    <3> QED
      BY <3>1, <3>3
  <2> QED
    BY <2>1, <2>2
<1> QED
  BY <1>6, <1>7, <1>8 DEF Grown

\* A closure is the least closed set around S.
LEMMA ClosureIs ==
  ASSUME NEW edges, IsFiniteSet(DOMAIN edges), \A b \in DOMAIN edges : edges[b] \subseteq DOMAIN edges,
         NEW S \in SUBSET DOMAIN edges
  PROVE  /\ S \subseteq Closure(edges, S) /\ Closure(edges, S) \subseteq DOMAIN edges
         /\ \A b \in Closure(edges, S) : edges[b] \subseteq Closure(edges, S)
         /\ \A X : S \subseteq X /\ (\A b \in X \cap DOMAIN edges : edges[b] \subseteq X)
                  => Closure(edges, S) \subseteq X
<1>1. PICK f : Grown(f, edges, S) /\ Closure(edges, S) = f[Cardinality(DOMAIN edges)]
  BY ClosureSteps
<1> DEFINE D == DOMAIN edges
           N == Cardinality(D)
           Shut(B) == \A b \in B : edges[b] \subseteq B
<1>2. N \in Nat /\ Closure(edges, S) = f[N]
  BY <1>1, FS_CardinalityType
<1>3. \A k \in Nat : f[k] \subseteq D /\ f[k + 1] = UNION {{b} \cup edges[b] : b \in f[k]}
  BY <1>1 DEF Grown
<1>4. f[0] = S
  BY <1>1 DEF Grown
<1> HIDE DEF N
<1>5. \A k \in Nat : f[k] \subseteq f[k + 1] /\ (Shut(f[k]) <=> f[k + 1] = f[k])
  <2> SUFFICES ASSUME NEW k \in Nat
               PROVE  f[k] \subseteq f[k + 1] /\ (Shut(f[k]) <=> f[k + 1] = f[k])
    OBVIOUS
  <2>1. f[k + 1] = UNION {{b} \cup edges[b] : b \in f[k]}
    BY <1>3
  <2>2. \A x : x \in f[k + 1] <=> \E b \in f[k] : x = b \/ x \in edges[b]
    BY <2>1
  <2>3. Shut(f[k]) => f[k + 1] = f[k]
    BY <2>2
  <2>4. f[k + 1] = f[k] => Shut(f[k])
    BY <2>2
  <2> QED
    BY <2>2, <2>3, <2>4
<1>6. \A k \in Nat : IsFiniteSet(f[k]) /\ Cardinality(f[k]) \in Nat
  BY <1>3, FS_Subset, FS_CardinalityType
<1>7. \A k \in Nat : S \subseteq f[k]
  <2> DEFINE T == {k \in Nat : ~(S \subseteq f[k])}
  <2> SUFFICES ASSUME T # {} PROVE FALSE
    OBVIOUS
  <2>1. PICK k \in T : \A q \in T : k <= q
    <3>1. T \in SUBSET Nat
      OBVIOUS
    <3> HIDE DEF T
    <3> QED
      BY <3>1, LeastExists
  <2>2. k \in Nat /\ k # 0 /\ k - 1 \in Nat /\ k - 1 \notin T /\ (k - 1) + 1 = k
    BY <1>4, <2>1
  <2>3. f[k - 1] \subseteq f[(k - 1) + 1]
    BY <1>5, <2>2
  <2> QED
    BY <2>1, <2>2, <2>3
<1>8. \A k \in Nat : Shut(f[k]) \/ Cardinality(f[k]) >= k
  <2> DEFINE T == {k \in Nat : ~(Shut(f[k]) \/ Cardinality(f[k]) >= k)}
  <2> SUFFICES ASSUME T # {} PROVE FALSE
    OBVIOUS
  <2>1. PICK k \in T : \A q \in T : k <= q
    <3>1. T \in SUBSET Nat
      OBVIOUS
    <3> HIDE DEF T
    <3> QED
      BY <3>1, LeastExists
  <2>2. k \in Nat /\ k # 0 /\ k - 1 \in Nat /\ k - 1 \notin T /\ (k - 1) + 1 = k
    BY <1>6, <2>1
  <2>3. f[k - 1] \subseteq f[k] /\ (Shut(f[k - 1]) <=> f[k] = f[k - 1])
    BY <1>5, <2>2
  <2>4. ~Shut(f[k]) /\ ~(Cardinality(f[k]) >= k)
    BY <2>1
  <2>5. ~Shut(f[k - 1]) /\ f[k] # f[k - 1] /\ Cardinality(f[k - 1]) >= k - 1
    BY <2>2, <2>3, <2>4
  <2>6. Cardinality(f[k - 1]) < Cardinality(f[k])
    BY <1>6, <2>2, <2>3, <2>5, FS_Subset
  <2> QED
    BY <1>6, <2>2, <2>4, <2>5, <2>6
<1>9. Shut(f[N])
  <2>1. CASE Cardinality(f[N]) >= N
    <3>1. f[N] = D
      BY <1>2, <1>3, <1>6, <2>1, FS_Subset DEF N
    <3> QED
      BY <3>1
  <2>2. Shut(f[N]) \/ Cardinality(f[N]) >= N
    <3> HIDE DEF Shut
    <3> QED
      BY <1>2, <1>8
  <2> QED
    BY <2>1, <2>2
<1>10. ASSUME NEW X, S \subseteq X, \A b \in X \cap D : edges[b] \subseteq X
       PROVE  f[N] \subseteq X
  <2> DEFINE T == {k \in Nat : ~(f[k] \subseteq X)}
  <2> SUFFICES ASSUME T # {} PROVE FALSE
    BY <1>2
  <2>1. PICK k \in T : \A q \in T : k <= q
    <3>1. T \in SUBSET Nat
      OBVIOUS
    <3> HIDE DEF T
    <3> QED
      BY <3>1, LeastExists
  <2>2. k \in Nat /\ k # 0 /\ k - 1 \in Nat /\ k - 1 \notin T /\ (k - 1) + 1 = k
    BY <1>4, <1>10, <2>1
  <2>3. f[k - 1] \subseteq X \cap D /\ f[(k - 1) + 1] = UNION {{b} \cup edges[b] : b \in f[k - 1]}
    BY <1>3, <2>2
  <2>4. f[k] \subseteq X
    BY <1>10, <2>2, <2>3
  <2> QED
    BY <2>1, <2>4
<1> QED
  BY <1>2, <1>3, <1>7, <1>9, <1>10
-----------------------------------------------------------------------------
(* The tree that idomIdx is at any time: m places, and a dominator for the  *)
(* known ones, an earlier one.                                             *)

\* climb, for a tree d of m places: what is met on the way up from x.
Climb(m, d) == [x \in -1..(m - 1) |-> IF x < 1 THEN {} ELSE {d[x]}]
Climbs(m, d, x) == Closure(Climb(m, d), {x})

\* Every known place but the entry has a known place before it above it.
IsTree(m, d) ==
  /\ m \in Nat /\ m >= 1
  /\ d \in [0..(m - 1) -> -1..(m - 1)]
  /\ d[0] = 0
  /\ \A k \in 1..(m - 1) : d[k] # -1 => d[k] \in 0..(k - 1) /\ d[d[k]] # -1

\* What is met on the way up from x, and the least that is closed so.
LEMMA ClimbIs ==
  ASSUME NEW m, NEW d, IsTree(m, d), NEW x \in 0..(m - 1), d[x] # -1
  PROVE  /\ Climbs(m, d, x) \subseteq 0..x
         /\ x \in Climbs(m, d, x)
         /\ \A y \in Climbs(m, d, x) : d[y] # -1 /\ (y >= 1 => d[y] \in Climbs(m, d, x))
         /\ \A X : x \in X /\ (\A y \in X : y \in 1..(m - 1) => d[y] \in X) => Climbs(m, d, x) \subseteq X
<1> DEFINE E == Climb(m, d)
<1>1. m \in Nat /\ m >= 1 /\ d \in [0..(m - 1) -> -1..(m - 1)] /\ d[0] = 0
  BY DEF IsTree
<1>2. DOMAIN E = -1..(m - 1) /\ \A y \in -1..(m - 1) : E[y] = IF y < 1 THEN {} ELSE {d[y]}
  BY DEF Climb
<1>3. IsFiniteSet(DOMAIN E)
  <2>1. -1 \in Int /\ m - 1 \in Int
    BY <1>1
  <2>2. IsFiniteSet(-1..(m - 1))
    BY <2>1, FS_Interval
  <2> QED
    BY <1>2, <2>2
<1>4. \A y \in DOMAIN E : E[y] \subseteq DOMAIN E
  BY <1>1, <1>2
<1>5. {x} \in SUBSET DOMAIN E
  BY <1>1, <1>2
<1> DEFINE C == Closure(E, {x})
<1> HIDE DEF E
<1>6. /\ {x} \subseteq C /\ C \subseteq DOMAIN E
      /\ \A b \in C : E[b] \subseteq C
      /\ \A X : {x} \subseteq X /\ (\A b \in X \cap DOMAIN E : E[b] \subseteq X) => C \subseteq X
  BY <1>3, <1>4, <1>5, ClosureIs
<1>7. C = Climbs(m, d, x)
  BY DEF E, Climbs
<1> HIDE DEF C
<1>8. x \in C /\ \A y \in C : y \in -1..(m - 1) /\ (y >= 1 => d[y] \in C)
  <2>1. \A y \in C : y \in -1..(m - 1) /\ E[y] \subseteq C
    BY <1>2, <1>6
  <2> QED
    BY <1>2, <1>6, <2>1
<1>9. ASSUME NEW X, x \in X, \A y \in X : y \in 1..(m - 1) => d[y] \in X
      PROVE  C \subseteq X
  <2>1. \A b \in X \cap DOMAIN E : E[b] \subseteq X
    BY <1>1, <1>2, <1>9
  <2> QED
    BY <1>6, <1>9, <2>1
<1>10. C \subseteq {y \in 0..x : d[y] # -1}
  <2> DEFINE X == {y \in 0..x : d[y] # -1}
  <2>1. x \in X
    BY <1>1
  <2>2. ASSUME NEW y \in X, y \in 1..(m - 1) PROVE d[y] \in X
    <3>1. d[y] \in 0..(y - 1) /\ d[d[y]] # -1
      BY <2>2 DEF IsTree
    <3> QED
      BY <1>1, <3>1
  <2> HIDE DEF X
  <2>3. C \subseteq X
    BY <1>9, <2>1, <2>2
  <2> QED
    BY <2>3 DEF X
<1> QED
  BY <1>7, <1>8, <1>9, <1>10

\* Every way up ends in the entry.
LEMMA ClimbEnds ==
  ASSUME NEW m, NEW d, IsTree(m, d), NEW x \in 0..(m - 1), d[x] # -1
  PROVE  0 \in Climbs(m, d, x)
<1> DEFINE C == Climbs(m, d, x)
<1>1. C \subseteq 0..x /\ x \in C /\ \A y \in C : d[y] # -1 /\ (y >= 1 => d[y] \in C)
  BY ClimbIs
<1>2. m \in Nat /\ \A k \in 1..(m - 1) : d[k] # -1 => d[k] \in 0..(k - 1)
  BY DEF IsTree
<1> HIDE DEF C
<1>3. PICK y \in C : \A z \in C : y <= z
  <2>1. C \in SUBSET Nat /\ C # {}
    BY <1>1, <1>2
  <2> QED
    BY <2>1, LeastExists
<1>4. y = 0
  <2> SUFFICES ASSUME y # 0 PROVE FALSE
    OBVIOUS
  <2>1. y \in 1..(m - 1) /\ d[y] \in C
    BY <1>1, <1>2, <1>3
  <2>2. d[y] \in 0..(y - 1) /\ y <= d[y]
    BY <1>1, <1>2, <1>3, <2>1
  <2> QED
    BY <1>2, <2>1, <2>2
<1> QED
  BY <1>3, <1>4 DEF C

\* From a place on the way up from x, the way up is the rest of that one.
LEMMA ClimbFurther ==
  ASSUME NEW m, NEW d, IsTree(m, d), NEW x \in 0..(m - 1), d[x] # -1, NEW y \in Climbs(m, d, x)
  PROVE  /\ y \in 0..(m - 1) /\ y <= x /\ d[y] # -1
         /\ Climbs(m, d, y) \subseteq Climbs(m, d, x)
         /\ \A z \in Climbs(m, d, x) : z <= y => z \in Climbs(m, d, y)
<1> DEFINE C(z) == Climbs(m, d, z)
<1>1. m \in Nat /\ \A k \in 1..(m - 1) : d[k] # -1 => d[k] \in 0..(k - 1) /\ d[d[k]] # -1
  BY DEF IsTree
<1>2. C(x) \subseteq 0..x /\ \A z \in C(x) : d[z] # -1 /\ (z >= 1 => d[z] \in C(x))
  BY ClimbIs
<1>3. y \in 0..(m - 1) /\ y <= x /\ d[y] # -1
  BY <1>1, <1>2
<1>4. /\ y \in C(y) /\ \A z \in C(y) : d[z] # -1 /\ (z >= 1 => d[z] \in C(y))
      /\ \A X : y \in X /\ (\A z \in X : z \in 1..(m - 1) => d[z] \in X) => C(y) \subseteq X
  BY <1>3, ClimbIs
<1> HIDE DEF C
<1>5. C(y) \subseteq C(x)
  <2>1. y \in C(x) /\ \A z \in C(x) : z \in 1..(m - 1) => d[z] \in C(x)
    BY <1>1, <1>2 DEF C
  <2> QED
    BY <1>4, <2>1
<1> DEFINE X == {z \in C(x) : z \in C(y) \/ y \in C(z)}
<1>6. C(x) \subseteq X
  <2>1. x \in X
    BY ClimbIs DEF C
  <2>2. ASSUME NEW z \in X, z \in 1..(m - 1) PROVE d[z] \in X
    <3>1. d[z] \in C(x) /\ d[z] \in 0..(z - 1) /\ d[d[z]] # -1 /\ d[z] \in 0..(m - 1)
      BY <1>1, <1>2, <2>2
    <3>2. CASE z \in C(y)
      BY <1>4, <2>2, <3>1, <3>2
    <3>3. CASE z # y /\ y \in C(z)
      <4> DEFINE Z == {z} \cup C(d[z])
      <4>1. /\ d[z] \in C(d[z])
            /\ \A w \in C(d[z]) : w >= 1 => d[w] \in C(d[z])
            /\ \A w \in C(d[z]) : w \in Nat
        BY <1>1, <3>1, ClimbIs DEF C
      <4>2. C(z) \subseteq Z
        <5>1. z \in Z /\ \A w \in Z : w \in 1..(m - 1) => d[w] \in Z
          BY <4>1
        <5>2. d[z] # -1
          BY <1>2, <2>2
        <5> HIDE DEF Z
        <5> QED
          BY <2>2, <5>1, <5>2, ClimbIs DEF C
      <4> QED
        BY <3>1, <3>3, <4>2
    <3>4. z = y => z \in C(y)
      BY <1>4
    <3> QED
      BY <2>2, <3>2, <3>3, <3>4
  <2> HIDE DEF X
  <2> QED
    BY <2>1, <2>2, ClimbIs DEF C
<1>7. ASSUME NEW z \in C(x), z <= y PROVE z \in C(y)
  <2>1. z \in C(y) \/ y \in C(z)
    BY <1>6
  <2>2. CASE y \in C(z)
    <3>1. z \in 0..(m - 1) /\ d[z] # -1
      BY <1>1, <1>2
    <3>2. C(z) \subseteq 0..z
      BY <3>1, ClimbIs DEF C
    <3>3. y = z
      BY <1>3, <1>7, <2>2, <3>1, <3>2
    <3> QED
      BY <1>4, <3>3
  <2> QED
    BY <2>1, <2>2
<1> QED
  BY <1>3, <1>5, <1>7 DEF C

\* One step up.
LEMMA ClimbStep ==
  ASSUME NEW m, NEW d, IsTree(m, d)
  PROVE  /\ Climbs(m, d, 0) = {0}
         /\ \A x \in 1..(m - 1) : d[x] # -1 =>
              /\ d[x] \in 0..(m - 1) /\ d[x] < x /\ d[d[x]] # -1
              /\ Climbs(m, d, x) = {x} \cup Climbs(m, d, d[x])
              /\ x \notin Climbs(m, d, d[x])
<1>1. m \in Nat /\ m >= 1 /\ d[0] = 0
  BY DEF IsTree
<1>2. Climbs(m, d, 0) = {0}
  <2>1. 0 \in Climbs(m, d, 0) /\ Climbs(m, d, 0) \subseteq 0..0
    BY <1>1, ClimbIs
  <2> QED
    BY <2>1
<1>3. ASSUME NEW x \in 1..(m - 1), d[x] # -1
      PROVE  /\ d[x] \in 0..(m - 1) /\ d[x] < x /\ d[d[x]] # -1
             /\ Climbs(m, d, x) = {x} \cup Climbs(m, d, d[x])
             /\ x \notin Climbs(m, d, d[x])
  <2> DEFINE C == Climbs(m, d, x)
             U == Climbs(m, d, d[x])
  <2>1. d[x] \in 0..(m - 1) /\ d[x] < x /\ d[d[x]] # -1 /\ d[x] \in Nat /\ x \in 0..(m - 1)
    BY <1>1, <1>3 DEF IsTree
  <2>2. x \in C /\ d[x] \in C
    BY <1>3, <2>1, ClimbIs
  <2>3. U \subseteq C
    BY <1>3, <2>1, <2>2, ClimbFurther
  <2>4. /\ U \subseteq 0..d[x] /\ d[x] \in U
        /\ \A w \in U : w >= 1 => d[w] \in U
    BY <2>1, ClimbIs
  <2> HIDE DEF U
  <2> DEFINE Z == {x} \cup U
  <2>5. x \in Z /\ \A w \in Z : w \in 1..(m - 1) => d[w] \in Z
    BY <2>4
  <2>6. C \subseteq Z
    <3> HIDE DEF Z
    <3> QED
      BY <1>3, <2>1, <2>5, ClimbIs
  <2>7. x \notin U
    BY <2>1, <2>4
  <2> QED
    BY <2>1, <2>2, <2>3, <2>6, <2>7 DEF U
<1> QED
  BY <1>2, <1>3

\* Two places have as many dominators as they have in common.
LEMMA ClimbSame ==
  ASSUME NEW m, NEW d, IsTree(m, d), NEW x \in 0..(m - 1), NEW y \in 0..(m - 1),
         d[x] # -1, d[y] # -1, Climbs(m, d, x) = Climbs(m, d, y)
  PROVE  x = y
<1>1. x \in Climbs(m, d, x) /\ y \in Climbs(m, d, y)
  BY ClimbIs
<1>2. x <= y /\ y <= x
  BY <1>1, ClimbFurther
<1> QED
  BY <1>2 DEF IsTree

\* Where the ways up from some places meet.
Meets(m, d, x, P) ==
  /\ x \in 0..(m - 1) /\ d[x] # -1
  /\ \A z \in 0..(m - 1) : z \in Climbs(m, d, x) <=> \A p \in P : z \in Climbs(m, d, p)

\* The meeting place is the last of what all the ways up have in common.
LEMMA MeetIs ==
  ASSUME NEW m, NEW d, IsTree(m, d), NEW x \in 0..(m - 1), NEW y \in 0..(m - 1),
         d[x] # -1, d[y] # -1,
         NEW w, w = CHOOSE z \in Climbs(m, d, x) \cap Climbs(m, d, y) :
                      \A q \in Climbs(m, d, x) \cap Climbs(m, d, y) : q <= z
  PROVE  Meets(m, d, w, {x, y})
<1> DEFINE C(z) == Climbs(m, d, z)
           Common == C(x) \cap C(y)
<1>1. m \in Nat
  BY DEF IsTree
<1>2. \A z \in Common : z \in 0..(m - 1) /\ d[z] # -1 /\ C(z) \subseteq C(x) /\ C(z) \subseteq C(y)
  BY ClimbFurther
<1>3. 0 \in Common
  BY ClimbEnds
<1> HIDE DEF C
<1>4. \E z \in Common : \A q \in Common : q <= z
  <2>1. Common \in SUBSET (0..(m - 1)) /\ Common # {} /\ m - 1 \in Nat
    BY <1>1, <1>2, <1>3 DEF IsTree
  <2> HIDE DEF Common
  <2> QED
    BY <2>1, GreatestExists
<1>5. w \in Common /\ \A q \in Common : q <= w
  BY <1>4 DEF C
<1>6. ASSUME NEW z \in Common PROVE z \in C(w)
  <2>1. w \in C(x) /\ z \in C(x) /\ z <= w
    BY <1>5, <1>6
  <2> QED
    BY <2>1, ClimbFurther DEF C
<1> QED
  BY <1>2, <1>5, <1>6 DEF Meets, C

\* When a place gets another dominator, an earlier one: the ways up that do
\* not pass it stay, and those that do go on from the new one.
Regrown(m, d, k, w, e) ==
  /\ IsTree(m, e)
  /\ e[k] = w /\ \A x \in 0..(m - 1) \ {k} : e[x] = d[x]
  /\ \A x \in 0..(m - 1) : d[x] # -1 /\ k \notin Climbs(m, d, x)
                            => Climbs(m, e, x) = Climbs(m, d, x)
  /\ \A x \in 0..(m - 1) : d[x] # -1 /\ k \in Climbs(m, d, x)
       => Climbs(m, e, x) = {z \in Climbs(m, d, x) : z >= k} \cup Climbs(m, d, w)
  /\ Climbs(m, e, w) = Climbs(m, d, w)
  /\ Climbs(m, e, k) = {k} \cup Climbs(m, d, w)

LEMMA ClimbChanged ==
  ASSUME NEW m, NEW d, IsTree(m, d), NEW k \in 1..(m - 1),
         NEW w \in 0..(k - 1), d[w] # -1, NEW e, e = [d EXCEPT ![k] = w]
  PROVE  Regrown(m, d, k, w, e)
<1>1. /\ m \in Nat /\ m >= 1 /\ d \in [0..(m - 1) -> -1..(m - 1)] /\ d[0] = 0
      /\ \A x \in 1..(m - 1) : d[x] # -1 => d[x] \in 0..(x - 1) /\ d[d[x]] # -1
  BY DEF IsTree
<1>2. e[k] = w /\ (\A x \in 0..(m - 1) \ {k} : e[x] = d[x]) /\ w \in 0..(m - 1) /\ w \in Nat /\ w < k /\ w # k
  BY <1>1
<1>3. IsTree(m, e)
  <2>1. e \in [0..(m - 1) -> -1..(m - 1)] /\ e[0] = 0
    BY <1>1, <1>2
  <2>2. ASSUME NEW x \in 1..(m - 1), e[x] # -1
        PROVE  e[x] \in 0..(x - 1) /\ e[e[x]] # -1
    <3>1. CASE x = k
      BY <1>2, <3>1
    <3>2. CASE x # k
      <4>1. e[x] = d[x] /\ d[x] \in 0..(x - 1) /\ d[d[x]] # -1 /\ d[x] \in 0..(m - 1)
        BY <1>1, <1>2, <2>2, <3>2
      <4> QED
        BY <1>2, <4>1
    <3> QED
      BY <3>1, <3>2
  <2> QED
    BY <1>1, <2>1, <2>2 DEF IsTree
<1> DEFINE C(x) == Climbs(m, d, x)
           F(x) == Climbs(m, e, x)
<1>4. ASSUME NEW x \in 0..(m - 1), d[x] # -1
      PROVE  /\ C(x) \subseteq 0..x /\ x \in C(x)
             /\ \A y \in C(x) : d[y] # -1 /\ (y >= 1 => d[y] \in C(x))
             /\ \A X : x \in X /\ (\A y \in X : y \in 1..(m - 1) => d[y] \in X) => C(x) \subseteq X
  BY <1>4, ClimbIs
<1>5. ASSUME NEW x \in 0..(m - 1), e[x] # -1
      PROVE  /\ F(x) \subseteq 0..x /\ x \in F(x)
             /\ \A y \in F(x) : e[y] # -1 /\ (y >= 1 => e[y] \in F(x))
             /\ \A X : x \in X /\ (\A y \in X : y \in 1..(m - 1) => e[y] \in X) => F(x) \subseteq X
  BY <1>3, <1>5, ClimbIs
<1>6. \A x \in 0..(m - 1) : d[x] # -1 => e[x] # -1
  BY <1>2
<1> HIDE DEF C, F
<1>7. ASSUME NEW x \in 0..(m - 1), d[x] # -1, k \notin C(x)
      PROVE  F(x) = C(x)
  <2>1. x \in C(x) /\ \A y \in C(x) : y \in 1..(m - 1) => e[y] \in C(x)
    BY <1>2, <1>4, <1>7
  <2>2. F(x) \subseteq C(x)
    BY <1>5, <1>6, <1>7, <2>1
  <2>3. x \in F(x) /\ \A y \in F(x) : y \in 1..(m - 1) => d[y] \in F(x)
    BY <1>2, <1>5, <1>6, <1>7, <2>2
  <2>4. C(x) \subseteq F(x)
    BY <1>4, <1>7, <2>3
  <2> QED
    BY <2>2, <2>4
<1>8. k \notin C(w)
  BY <1>1, <1>2, <1>4
<1>9. F(w) = C(w)
  BY <1>2, <1>7, <1>8
<1>10. F(k) = {k} \cup C(w)
  <2>1. e[k] # -1 /\ k \in 1..(m - 1)
    BY <1>2
  <2>2. \A x \in 1..(m - 1) : e[x] # -1 => F(x) = {x} \cup F(e[x])
    <3> HIDE DEF F
    <3>1. \A x \in 1..(m - 1) : e[x] # -1 => Climbs(m, e, x) = {x} \cup Climbs(m, e, e[x])
      BY ONLY <1>3, ClimbStep
    <3> QED
      BY <3>1 DEF F
  <2> QED
    BY <1>2, <1>9, <2>2
<1>11. ASSUME NEW x \in 0..(m - 1), d[x] # -1, k \in C(x)
       PROVE  F(x) = {z \in C(x) : z >= k} \cup C(w)
  <2> DEFINE X == {z \in C(x) : z >= k} \cup C(w)
             Y == {z \in C(x) : z \in F(x) \/ z < k}
  <2>1. \A z \in C(x) : z \in 0..(m - 1) /\ d[z] # -1 /\ (z >= 1 => d[z] \in C(x) /\ d[z] < z /\ d[z] \in Nat)
    <3> SUFFICES ASSUME NEW z \in C(x)
                 PROVE  z \in 0..(m - 1) /\ d[z] # -1 /\ (z >= 1 => d[z] \in C(x) /\ d[z] < z /\ d[z] \in Nat)
      OBVIOUS
    <3>1. z \in 0..x /\ d[z] # -1 /\ (z >= 1 => d[z] \in C(x))
      BY <1>4, <1>11
    <3>2. z \in 0..(m - 1)
      BY <1>1, <3>1
    <3>3. z >= 1 => d[z] \in 0..(z - 1)
      BY <1>1, <3>1, <3>2
    <3> QED
      BY <3>1, <3>2, <3>3
  <2>2. F(x) \subseteq X
    <3>1. x \in X
      BY <1>1, <1>4, <1>11
    <3>2. ASSUME NEW z \in X, z \in 1..(m - 1) PROVE e[z] \in X
      <4>1. CASE z = k
        <5>1. w \in C(w)
          BY <1>2, <1>4
        <5> QED
          BY <1>2, <4>1, <5>1
      <4>2. CASE z \in C(x) /\ z > k
        <5>1. e[z] = d[z] /\ d[z] \in C(x) /\ d[z] \in Nat
          BY <1>2, <2>1, <3>2, <4>2
        <5>2. k \in C(z) /\ C(z) = {z} \cup C(d[z]) /\ d[z] \in 0..(m - 1) /\ d[d[z]] # -1
          <6>1. k \in C(z)
            BY <1>11, <4>2, ClimbFurther DEF C
          <6> QED
            BY <2>1, <3>2, <4>2, <6>1, ClimbStep DEF C
        <5>3. k \in C(d[z])
          BY <1>1, <4>2, <5>2
        <5>4. k <= d[z]
          BY <1>4, <5>2, <5>3
        <5> QED
          BY <5>1, <5>4
      <4>3. CASE z \in C(w)
        <5>1. d[z] \in C(w)
          BY <1>2, <1>4, <3>2, <4>3
        <5> QED
          BY <1>2, <1>8, <3>2, <4>3, <5>1
      <4> QED
        BY <1>1, <3>2, <4>1, <4>2, <4>3
    <3> HIDE DEF X
    <3> QED
      BY <1>5, <1>6, <1>11, <3>1, <3>2
  <2>3. C(x) \subseteq Y
    <3>1. x \in Y
      BY <1>4, <1>5, <1>6, <1>11
    <3>2. ASSUME NEW z \in Y, z \in 1..(m - 1) PROVE d[z] \in Y
      <4>1. d[z] \in C(x) /\ d[z] < z /\ d[z] \in Nat
        BY <2>1, <3>2
      <4>2. CASE z \in F(x) /\ z > k
        <5>1. e[z] \in F(x)
          BY <1>5, <1>6, <1>11, <3>2, <4>2
        <5> QED
          BY <1>2, <3>2, <4>1, <4>2, <5>1
      <4>3. CASE z <= k
        BY <1>1, <3>2, <4>1, <4>3
      <4> QED
        BY <1>1, <3>2, <4>2, <4>3
    <3> HIDE DEF Y
    <3> QED
      BY <1>4, <1>11, <3>1, <3>2
  <2>4. k \in F(x)
    BY <1>1, <1>11, <2>3
  <2>5. F(k) \subseteq F(x)
    BY <1>3, <1>6, <1>11, <2>4, ClimbFurther DEF F
  <2>6. X \subseteq F(x)
    <3>1. ASSUME NEW z \in C(x), z >= k PROVE z \in F(x)
      <4>1. z \in F(x) \/ z < k
        BY <2>3
      <4>2. z \in 0..(m - 1)
        BY <2>1
      <4> QED
        BY <1>1, <3>1, <4>1, <4>2
    <3> QED
      BY <1>10, <2>5, <3>1
  <2> QED
    BY <2>2, <2>6
<1> QED
  BY <1>2, <1>3, <1>7, <1>9, <1>10, <1>11 DEF C, F, Regrown
-----------------------------------------------------------------------------
(* The passes, over m places: into[k] holds the places k is entered from.  *)

\* The predecessors of the places: each but the first has one before it.
IsFlow(m, into) ==
  /\ m \in Nat /\ m >= 1
  /\ into \in [0..(m - 1) -> SUBSET (0..(m - 1))]
  /\ \A k \in 1..(m - 1) : \E q \in into[k] : q < k

\* The places reached from the entry without entering j.
Avoid(m, into, j) ==
  Closure([y \in 0..(m - 1) |-> {k \in 0..(m - 1) : y \in into[k] /\ k # j}], {0} \ {j})

\* The places reached from y along places after it.
Beyond(m, into, y) ==
  Closure([x \in 0..(m - 1) |-> {k \in 0..(m - 1) : x \in into[k] /\ k > y}], {y})

\* Both are least closed sets, as every closure is.
LEMMA AvoidIs ==
  ASSUME NEW m, NEW into, IsFlow(m, into), NEW j \in 0..(m - 1)
  PROVE  /\ Avoid(m, into, j) \subseteq 0..(m - 1)
         /\ j # 0 => 0 \in Avoid(m, into, j)
         /\ \A y \in Avoid(m, into, j) : \A k \in 0..(m - 1) :
              y \in into[k] /\ k # j => k \in Avoid(m, into, j)
         /\ \A X : /\ j # 0 => 0 \in X
                   /\ \A y \in X : \A k \in 0..(m - 1) : y \in 0..(m - 1) /\ y \in into[k] /\ k # j => k \in X
                   => Avoid(m, into, j) \subseteq X
<1> DEFINE E == [y \in 0..(m - 1) |-> {k \in 0..(m - 1) : y \in into[k] /\ k # j}]
           S == {0} \ {j}
           A == Closure(E, S)
<1>1. m \in Nat /\ m >= 1
  BY DEF IsFlow
<1>2. DOMAIN E = 0..(m - 1) /\ \A y \in 0..(m - 1) : E[y] = {k \in 0..(m - 1) : y \in into[k] /\ k # j}
  OBVIOUS
<1>3. IsFiniteSet(DOMAIN E)
  BY <1>1, <1>2, FS_Interval
<1>4. (\A b \in DOMAIN E : E[b] \subseteq DOMAIN E) /\ S \in SUBSET DOMAIN E
  BY <1>1, <1>2
<1>5. A = Avoid(m, into, j)
  BY DEF Avoid
<1> HIDE DEF E
<1>6. /\ S \subseteq A /\ A \subseteq DOMAIN E
      /\ \A b \in A : E[b] \subseteq A
      /\ \A X : S \subseteq X /\ (\A b \in X \cap DOMAIN E : E[b] \subseteq X) => A \subseteq X
  <2> HIDE DEF S
  <2> QED
    BY <1>3, <1>4, ClosureIs
<1> HIDE DEF A
<1>7. \A y \in A : \A k \in 0..(m - 1) : y \in into[k] /\ k # j => k \in A
  BY <1>2, <1>6
<1>8. ASSUME NEW X, j # 0 => 0 \in X,
             \A y \in X : \A k \in 0..(m - 1) : y \in 0..(m - 1) /\ y \in into[k] /\ k # j => k \in X
      PROVE  A \subseteq X
  <2>1. S \subseteq X
    BY <1>8
  <2>2. \A b \in X \cap DOMAIN E : E[b] \subseteq X
    BY <1>2, <1>8
  <2> QED
    BY <1>6, <2>1, <2>2
<1> QED
  BY <1>2, <1>5, <1>6, <1>7, <1>8

LEMMA BeyondIs ==
  ASSUME NEW m, NEW into, IsFlow(m, into), NEW y \in 0..(m - 1)
  PROVE  /\ y \in Beyond(m, into, y) /\ Beyond(m, into, y) \subseteq 0..(m - 1)
         /\ \A x \in Beyond(m, into, y) : \A k \in 0..(m - 1) :
              x \in into[k] /\ k > y => k \in Beyond(m, into, y)
         /\ \A X : /\ y \in X
                   /\ \A x \in X : \A k \in 0..(m - 1) : x \in into[k] /\ k > y => k \in X
                   => Beyond(m, into, y) \subseteq X
<1> DEFINE E == [x \in 0..(m - 1) |-> {k \in 0..(m - 1) : x \in into[k] /\ k > y}]
           A == Closure(E, {y})
<1>1. m \in Nat /\ m >= 1
  BY DEF IsFlow
<1>2. DOMAIN E = 0..(m - 1) /\ \A x \in 0..(m - 1) : E[x] = {k \in 0..(m - 1) : x \in into[k] /\ k > y}
  OBVIOUS
<1>3. IsFiniteSet(DOMAIN E)
  BY <1>1, <1>2, FS_Interval
<1>4. (\A b \in DOMAIN E : E[b] \subseteq DOMAIN E) /\ {y} \in SUBSET DOMAIN E
  BY <1>1, <1>2
<1>5. A = Beyond(m, into, y)
  BY DEF Beyond
<1> HIDE DEF E
<1>6. /\ {y} \subseteq A /\ A \subseteq DOMAIN E
      /\ \A b \in A : E[b] \subseteq A
      /\ \A X : {y} \subseteq X /\ (\A b \in X \cap DOMAIN E : E[b] \subseteq X) => A \subseteq X
  BY <1>3, <1>4, ClosureIs
<1> HIDE DEF A
<1>7. \A x \in A : \A k \in 0..(m - 1) : x \in into[k] /\ k > y => k \in A
  BY <1>2, <1>6
<1>8. ASSUME NEW X, y \in X, \A x \in X : \A k \in 0..(m - 1) : x \in into[k] /\ k > y => k \in X
      PROVE  A \subseteq X
  <2>1. \A b \in X \cap DOMAIN E : E[b] \subseteq X
    BY <1>2, <1>8
  <2> QED
    BY <1>6, <1>8, <2>1
<1> QED
  BY <1>2, <1>5, <1>6, <1>7, <1>8
-----------------------------------------------------------------------------
(* What holds of the passes at place i of the pass numbered it.            *)

\* The first pass makes places known in order; the later ones know all.
KnownTo(m, d, i_, it) ==
  /\ it \in Nat /\ it >= 1 /\ i_ \in 1..m
  /\ \A k \in 0..(m - 1) : d[k] # -1 <=> it > 1 \/ k < i_

\* A place is reached from its dominator along later places.
Led(m, into, d) == \A x \in 1..(m - 1) : d[x] # -1 => x \in Beyond(m, into, d[x])

\* What does not dominate a place can be avoided on the way to it.
Sound(m, into, d) ==
  \A x, j \in 0..(m - 1) : d[x] # -1 /\ j \notin Climbs(m, d, x) => x \in Avoid(m, into, j)

\* What dominates all of a place's predecessors dominates its dominator.
Post(m, into, d) ==
  \A k \in 1..(m - 1) : \A z \in 0..(m - 1) :
    d[k] # -1 /\ (\A p \in into[k] : d[p] # -1 => z \in Climbs(m, d, p)) => z \in Climbs(m, d, d[k])

\* What dominates a dominator dominates the earlier predecessors: all of it
\* where the pass has been, what is not before the pass where it has not.
Lower(m, into, d, i_) ==
  \A k \in 1..(m - 1) : \A q \in into[k] : \A z \in 0..(m - 1) :
    d[k] # -1 /\ q < k /\ z \in Climbs(m, d, d[k]) /\ (k < i_ \/ z >= i_) => z \in Climbs(m, d, q)

\* A pass that has changed nothing has found every dominator right.
Settled(m, into, d, i_) ==
  \A k \in 1..(i_ - 1) : \A p \in into[k] : d[p] # -1 => Climbs(m, d, d[k]) \subseteq Climbs(m, d, p)

\* The places that j is known not to dominate.
Shed(m, d, j) == {y \in 0..(m - 1) : d[y] # -1 /\ j \notin Climbs(m, d, y)}

\* Every pass finds another of them, or they are all found.
Gains(m, into, d, i_, it, j) ==
  \/ Avoid(m, into, j) \subseteq Shed(m, d, j)
  \/ Cardinality(Shed(m, d, j)) > it
  \/ /\ Cardinality(Shed(m, d, j)) = it
     /\ \E y \in Shed(m, d, j), s \in i_..(m - 1) : y \in into[s] /\ s # j /\ s \notin Shed(m, d, j)

\* The pass gives place i_ the dominator w, where its predecessors meet.
Visits(m, into, d, i_, w) ==
  /\ i_ \in 1..(m - 1)
  /\ w \in 0..(i_ - 1) /\ d[w] # -1
  /\ \E p \in into[i_] : d[p] # -1
  /\ Meets(m, d, w, {p \in into[i_] : d[p] # -1})

\* A place is reached from all that dominates it along later places.
LEMMA LedUp ==
  ASSUME NEW m, NEW into, NEW d, IsFlow(m, into), IsTree(m, d), Led(m, into, d),
         NEW x \in 0..(m - 1), d[x] # -1, NEW y \in Climbs(m, d, x)
  PROVE  x \in Beyond(m, into, y)
<1> DEFINE X == {z \in Climbs(m, d, x) : x \in Beyond(m, into, z)}
<1>1. m \in Nat /\ \A k \in 1..(m - 1) : d[k] # -1 => d[k] \in 0..(k - 1) /\ d[d[k]] # -1
  BY DEF IsTree
<1>2. x \in Climbs(m, d, x) /\ \A z \in Climbs(m, d, x) : z \in 0..x /\ d[z] # -1 /\ (z >= 1 => d[z] \in Climbs(m, d, x))
  BY ClimbIs
<1>3. x \in X
  BY <1>2, BeyondIs
<1>4. ASSUME NEW z \in X, z \in 1..(m - 1) PROVE d[z] \in X
  <2>1. d[z] \in Climbs(m, d, x) /\ d[z] \in 0..(z - 1) /\ d[z] \in 0..(m - 1) /\ z \in 0..(m - 1)
    BY <1>1, <1>2, <1>4
  <2>2. z \in Beyond(m, into, d[z])
    BY <1>2, <1>4 DEF Led
  <2>3. \A a \in Beyond(m, into, d[z]) : \A k \in 0..(m - 1) : a \in into[k] /\ k > d[z] => k \in Beyond(m, into, d[z])
    BY <2>1, BeyondIs
  <2>4. \A a \in Beyond(m, into, d[z]) : \A k \in 0..(m - 1) : a \in into[k] /\ k > z => k \in Beyond(m, into, d[z])
    BY <1>1, <2>1, <2>3
  <2>5. Beyond(m, into, z) \subseteq Beyond(m, into, d[z])
    BY <2>1, <2>2, <2>4, BeyondIs
  <2> QED
    BY <1>4, <2>1, <2>5
<1> HIDE DEF X
<1>5. Climbs(m, d, x) \subseteq X
  BY <1>3, <1>4, ClimbIs
<1> QED
  BY <1>5 DEF X

\* A visit, and what it makes of the tree: it takes dominators away from the
\* places below the one visited, and those it takes are before it.
VisitTo(m, into, d, i_, it, w, e) ==
  /\ IsFlow(m, into) /\ IsTree(m, d) /\ KnownTo(m, d, i_, it) /\ Post(m, into, d)
  /\ Visits(m, into, d, i_, w) /\ e = [d EXCEPT ![i_] = w]

Shrunk(m, into, d, i_, it, w, e) ==
  /\ m \in Nat /\ i_ \in 1..(m - 1) /\ w \in 0..(m - 1) /\ w < i_ /\ d[w] # -1
  /\ IsTree(m, e) /\ KnownTo(m, e, i_ + 1, it)
  /\ e[i_] = w /\ \A x \in 0..(m - 1) \ {i_} : e[x] = d[x]
  /\ Climbs(m, e, w) = Climbs(m, d, w)
  /\ Climbs(m, e, i_) = {i_} \cup Climbs(m, d, w)
  /\ \A z \in 0..(m - 1) :
       z \in Climbs(m, d, w) <=> \A p \in into[i_] : d[p] # -1 => z \in Climbs(m, d, p)
  /\ \A x \in 0..(m - 1) : d[x] # -1 =>
       /\ e[x] # -1
       /\ Climbs(m, e, x) \subseteq Climbs(m, d, x)
       /\ i_ \notin Climbs(m, d, x) => Climbs(m, e, x) = Climbs(m, d, x)
       /\ i_ \in Climbs(m, d, x) =>
            Climbs(m, e, x) = {z \in Climbs(m, d, x) : z >= i_} \cup Climbs(m, d, w)

\* A visit only takes dominators away, and keeps the tree a tree.
LEMMA VisitShrinks ==
  ASSUME NEW m, NEW into, NEW d, NEW i_, NEW it, NEW w, NEW e,
         VisitTo(m, into, d, i_, it, w, e)
  PROVE  Shrunk(m, into, d, i_, it, w, e)
<1> IsFlow(m, into) /\ IsTree(m, d) /\ KnownTo(m, d, i_, it) /\ Post(m, into, d)
    /\ Visits(m, into, d, i_, w) /\ e = [d EXCEPT ![i_] = w]
  BY DEF VisitTo
<1>1. /\ m \in Nat /\ m >= 1 /\ d \in [0..(m - 1) -> -1..(m - 1)]
      /\ \A x \in 1..(m - 1) : d[x] # -1 => d[x] \in 0..(x - 1) /\ d[d[x]] # -1
  BY DEF IsTree
<1>2. i_ \in 1..(m - 1) /\ w \in 0..(i_ - 1) /\ d[w] # -1 /\ w \in 0..(m - 1) /\ w < i_
  BY <1>1 DEF Visits
<1>3. /\ IsTree(m, e)
      /\ e[i_] = w /\ \A x \in 0..(m - 1) \ {i_} : e[x] = d[x]
      /\ \A x \in 0..(m - 1) : d[x] # -1 /\ i_ \notin Climbs(m, d, x)
                                => Climbs(m, e, x) = Climbs(m, d, x)
      /\ \A x \in 0..(m - 1) : d[x] # -1 /\ i_ \in Climbs(m, d, x)
           => Climbs(m, e, x) = {z \in Climbs(m, d, x) : z >= i_} \cup Climbs(m, d, w)
      /\ Climbs(m, e, w) = Climbs(m, d, w)
      /\ Climbs(m, e, i_) = {i_} \cup Climbs(m, d, w)
  <2>1. Regrown(m, d, i_, w, e)
    BY <1>2, ClimbChanged
  <2> QED
    BY <2>1 DEF Regrown
<1>4. KnownTo(m, e, i_ + 1, it)
  <2>1. it \in Nat /\ it >= 1 /\ i_ + 1 \in 1..m
    BY <1>1, <1>2 DEF KnownTo
  <2>2. ASSUME NEW k \in 0..(m - 1) PROVE e[k] # -1 <=> it > 1 \/ k < i_ + 1
    <3>1. d[k] # -1 <=> it > 1 \/ k < i_
      BY DEF KnownTo
    <3>2. CASE k = i_
      BY <1>2, <1>3, <3>2
    <3>3. CASE k # i_
      BY <1>1, <1>2, <1>3, <3>1, <3>3
    <3> QED
      BY <3>2, <3>3
  <2> QED
    BY <2>1, <2>2 DEF KnownTo
<1>5. ASSUME NEW z \in 0..(m - 1)
      PROVE  z \in Climbs(m, d, w) <=> \A p \in into[i_] : d[p] # -1 => z \in Climbs(m, d, p)
  BY DEF Visits, Meets
<1>6. ASSUME NEW x \in 0..(m - 1), d[x] # -1, i_ \in Climbs(m, d, x)
      PROVE  Climbs(m, d, w) \subseteq Climbs(m, d, x)
  <2>1. d[i_] # -1 /\ Climbs(m, d, i_) \subseteq Climbs(m, d, x)
    BY <1>6, ClimbFurther
  <2>2. d[i_] \in 0..(m - 1) /\ Climbs(m, d, d[i_]) \subseteq Climbs(m, d, i_)
    BY <1>2, <2>1, ClimbStep
  <2>3. Climbs(m, d, w) \subseteq 0..w
    BY <1>2, ClimbIs
  <2>4. ASSUME NEW z \in Climbs(m, d, w) PROVE z \in Climbs(m, d, d[i_])
    <3>1. z \in 0..(m - 1)
      BY <1>1, <1>2, <2>3
    <3>2. \A p \in into[i_] : d[p] # -1 => z \in Climbs(m, d, p)
      BY <1>5, <3>1
    <3> QED
      BY <1>2, <2>1, <3>1, <3>2 DEF Post
  <2> QED
    BY <2>1, <2>2, <2>4
<1>7. ASSUME NEW x \in 0..(m - 1), d[x] # -1
      PROVE  /\ e[x] # -1 /\ Climbs(m, e, x) \subseteq Climbs(m, d, x)
             /\ i_ \notin Climbs(m, d, x) => Climbs(m, e, x) = Climbs(m, d, x)
             /\ i_ \in Climbs(m, d, x) =>
                  Climbs(m, e, x) = {z \in Climbs(m, d, x) : z >= i_} \cup Climbs(m, d, w)
  <2>1. e[x] # -1
    BY <1>2, <1>3, <1>7
  <2>2. CASE i_ \notin Climbs(m, d, x)
    BY <1>3, <1>7, <2>1, <2>2
  <2>3. CASE i_ \in Climbs(m, d, x)
    BY <1>3, <1>6, <1>7, <2>1, <2>3
  <2> QED
    BY <2>2, <2>3
<1> QED
  BY <1>1, <1>2, <1>3, <1>4, <1>5, <1>7 DEF Shrunk

\* The next lemmas: a visit keeps each part of the invariant of a pass.
LEMMA LedKept ==
  ASSUME NEW m, NEW into, NEW d, NEW i_, NEW it, NEW w, NEW e,
         VisitTo(m, into, d, i_, it, w, e), Led(m, into, d)
  PROVE  Led(m, into, e)
<1>1. /\ m \in Nat /\ i_ \in 1..(m - 1) /\ w \in 0..(m - 1) /\ w < i_ /\ d[w] # -1
      /\ e[i_] = w /\ \A x \in 0..(m - 1) \ {i_} : e[x] = d[x]
  BY VisitShrinks DEF Shrunk
<1>2. IsFlow(m, into) /\ IsTree(m, d) /\ into[i_] \subseteq 0..(m - 1)
  BY <1>1 DEF VisitTo, IsFlow
<1>3. i_ \in Beyond(m, into, w)
  <2>1. PICK p \in into[i_] : d[p] # -1
    BY DEF VisitTo, Visits
  <2>2. w \in Climbs(m, d, w)
    BY <1>1, <1>2, ClimbIs
  <2>3. w \in Climbs(m, d, p) /\ p \in 0..(m - 1)
    BY <1>1, <1>2, <2>1, <2>2 DEF VisitTo, Visits, Meets
  <2>4. p \in Beyond(m, into, w)
    BY <1>2, <2>1, <2>3, LedUp
  <2>5. \A x \in Beyond(m, into, w) : \A k \in 0..(m - 1) : x \in into[k] /\ k > w => k \in Beyond(m, into, w)
    BY <1>1, <1>2, BeyondIs
  <2>6. i_ \in 0..(m - 1) /\ i_ > w
    BY <1>1
  <2> QED
    BY <2>1, <2>4, <2>5, <2>6
<1>4. ASSUME NEW x \in 1..(m - 1), e[x] # -1 PROVE x \in Beyond(m, into, e[x])
  <2>1. CASE x = i_
    BY <1>1, <1>3, <2>1
  <2>2. CASE x # i_
    <3>1. e[x] = d[x]
      BY <1>1, <2>2
    <3> QED
      BY <1>4, <3>1 DEF Led
  <2> QED
    BY <2>1, <2>2
<1> QED
  BY <1>4 DEF Led

LEMMA SoundKept ==
  ASSUME NEW m, NEW into, NEW d, NEW i_, NEW it, NEW w, NEW e,
         VisitTo(m, into, d, i_, it, w, e), Led(m, into, d), Sound(m, into, d)
  PROVE  Sound(m, into, e)
<1>1. /\ m \in Nat /\ i_ \in 1..(m - 1) /\ w \in 0..(m - 1) /\ w < i_ /\ d[w] # -1
      /\ e[i_] = w /\ (\A x \in 0..(m - 1) \ {i_} : e[x] = d[x])
      /\ Climbs(m, e, i_) = {i_} \cup Climbs(m, d, w)
      /\ \A z \in 0..(m - 1) :
           z \in Climbs(m, d, w) <=> \A p \in into[i_] : d[p] # -1 => z \in Climbs(m, d, p)
  BY VisitShrinks DEF Shrunk
<1>2. /\ \A x \in 0..(m - 1) : d[x] # -1 =>
           /\ i_ \notin Climbs(m, d, x) => Climbs(m, e, x) = Climbs(m, d, x)
           /\ i_ \in Climbs(m, d, x) =>
                Climbs(m, e, x) = {z \in Climbs(m, d, x) : z >= i_} \cup Climbs(m, d, w)
  BY VisitShrinks DEF Shrunk
<1>3. IsFlow(m, into) /\ IsTree(m, d) /\ into[i_] \subseteq 0..(m - 1) /\ i_ \in 0..(m - 1)
  BY <1>1 DEF VisitTo, IsFlow
<1>4. ASSUME NEW j \in 0..(m - 1), j # i_, j \notin Climbs(m, d, w) PROVE i_ \in Avoid(m, into, j)
  <2>1. PICK p \in into[i_] : d[p] # -1 /\ j \notin Climbs(m, d, p)
    BY <1>1, <1>4
  <2>2. p \in 0..(m - 1) /\ p \in Avoid(m, into, j)
    BY <1>3, <2>1 DEF Sound
  <2> QED
    BY <1>3, <1>4, <2>1, <2>2, AvoidIs
<1>5. ASSUME NEW x \in 0..(m - 1), d[x] # -1, i_ \in Climbs(m, d, x),
             NEW j \in 0..(m - 1), j < i_, j \notin Climbs(m, d, w)
      PROVE  x \in Avoid(m, into, j)
  <2>1. i_ \in Avoid(m, into, j)
    BY <1>1, <1>4, <1>5
  <2>2. x \in Beyond(m, into, i_)
    BY <1>3, <1>5, LedUp DEF VisitTo
  <2>3. \A y \in Avoid(m, into, j) : \A k \in 0..(m - 1) : y \in into[k] /\ k # j => k \in Avoid(m, into, j)
    BY <1>3, AvoidIs
  <2>4. \A y \in Avoid(m, into, j) : \A k \in 0..(m - 1) : y \in into[k] /\ k > i_ => k \in Avoid(m, into, j)
    BY <1>1, <1>5, <2>3
  <2>5. Beyond(m, into, i_) \subseteq Avoid(m, into, j)
    BY <1>3, <2>1, <2>4, BeyondIs
  <2> QED
    BY <2>2, <2>5
<1>6. ASSUME NEW x \in 0..(m - 1), NEW j \in 0..(m - 1), e[x] # -1, j \notin Climbs(m, e, x)
      PROVE  x \in Avoid(m, into, j)
  <2>1. CASE x = i_
    BY <1>1, <1>4, <1>6, <2>1
  <2>2. CASE x # i_ /\ i_ \notin Climbs(m, d, x)
    BY <1>1, <1>2, <1>6, <2>2 DEF Sound
  <2>3. CASE x # i_ /\ i_ \in Climbs(m, d, x)
    <3>1. d[x] # -1
      BY <1>1, <1>6, <2>3
    <3>2. j \notin Climbs(m, d, w) /\ ~(j \in Climbs(m, d, x) /\ j >= i_)
      BY <1>2, <1>6, <2>3, <3>1
    <3>3. CASE j \notin Climbs(m, d, x)
      BY <3>1, <3>3 DEF Sound
    <3>4. CASE j < i_
      BY <1>5, <2>3, <3>1, <3>2, <3>4
    <3> QED
      BY <1>1, <3>2, <3>3, <3>4
  <2> QED
    BY <2>1, <2>2, <2>3
<1> QED
  BY <1>6 DEF Sound

LEMMA PostKept ==
  ASSUME NEW m, NEW into, NEW d, NEW i_, NEW it, NEW w, NEW e,
         VisitTo(m, into, d, i_, it, w, e), Lower(m, into, d, i_)
  PROVE  Post(m, into, e)
<1>1. /\ m \in Nat /\ i_ \in 1..(m - 1) /\ w \in 0..(m - 1) /\ w < i_ /\ d[w] # -1
      /\ e[i_] = w /\ (\A x \in 0..(m - 1) \ {i_} : e[x] = d[x])
      /\ Climbs(m, e, w) = Climbs(m, d, w)
      /\ \A z \in 0..(m - 1) :
           z \in Climbs(m, d, w) <=> \A p \in into[i_] : d[p] # -1 => z \in Climbs(m, d, p)
  BY VisitShrinks DEF Shrunk
<1>2. \A x \in 0..(m - 1) : d[x] # -1 =>
        /\ e[x] # -1
        /\ Climbs(m, e, x) \subseteq Climbs(m, d, x)
        /\ i_ \notin Climbs(m, d, x) => Climbs(m, e, x) = Climbs(m, d, x)
        /\ i_ \in Climbs(m, d, x) =>
             Climbs(m, e, x) = {z \in Climbs(m, d, x) : z >= i_} \cup Climbs(m, d, w)
  BY VisitShrinks DEF Shrunk
<1>3. /\ IsFlow(m, into) /\ IsTree(m, d) /\ i_ \in 0..(m - 1)
      /\ \A k \in 0..(m - 1) : into[k] \subseteq 0..(m - 1)
  BY <1>1 DEF VisitTo, IsFlow
<1>4. it \in Nat /\ \A k \in 0..(m - 1) : d[k] # -1 <=> it > 1 \/ k < i_
  BY DEF VisitTo, KnownTo
<1>5. ASSUME NEW k \in 1..(m - 1), NEW z \in 0..(m - 1), e[k] # -1,
             \A p \in into[k] : e[p] # -1 => z \in Climbs(m, e, p)
      PROVE  z \in Climbs(m, e, e[k])
  <2>1. k \in 0..(m - 1) /\ into[k] \subseteq 0..(m - 1)
    BY <1>1, <1>3
  <2>2. \A p \in into[k] : d[p] # -1 => z \in Climbs(m, d, p)
    BY <1>2, <1>5, <2>1
  <2>3. CASE k = i_
    BY <1>1, <2>2, <2>3
  <2>4. CASE k # i_
    <3>1. e[k] = d[k] /\ d[k] # -1
      BY <1>1, <1>5, <2>1, <2>4
    <3>2. z \in Climbs(m, d, d[k])
      BY <1>5, <2>2, <3>1 DEF VisitTo, Post
    <3>3. d[k] \in 0..(m - 1) /\ d[k] < k /\ d[d[k]] # -1
      BY <1>3, <3>1, ClimbStep
    <3>4. CASE i_ \notin Climbs(m, d, d[k])
      BY <1>2, <3>1, <3>2, <3>3, <3>4
    <3>5. CASE i_ \in Climbs(m, d, d[k])
      <4>1. i_ <= d[k] /\ k > i_
        BY <1>1, <1>3, <3>3, <3>5, ClimbFurther
      <4>2. PICK q \in into[k] : q < k
        BY <1>3 DEF IsFlow
      <4>3. q \in 0..(m - 1) /\ d[q] # -1 /\ e[q] # -1
        <5>1. q \in 0..(m - 1)
          BY <2>1
        <5>2. it > 1
          BY <1>1, <1>4, <2>1, <3>1, <4>1
        <5> QED
          BY <1>2, <1>4, <5>1, <5>2
      <4>4. i_ \in Climbs(m, d, q)
        BY <1>1, <1>3, <3>1, <3>5, <4>2 DEF Lower
      <4>5. z \in Climbs(m, e, q)
        BY <1>5, <4>2, <4>3
      <4>6. z >= i_ \/ z \in Climbs(m, d, w)
        BY <1>2, <4>3, <4>4, <4>5
      <4> QED
        BY <1>2, <3>1, <3>2, <3>3, <3>5, <4>6
    <3> QED
      BY <3>4, <3>5
  <2> QED
    BY <2>3, <2>4
<1> QED
  BY <1>5 DEF Post

LEMMA LowerKept ==
  ASSUME NEW m, NEW into, NEW d, NEW i_, NEW it, NEW w, NEW e,
         VisitTo(m, into, d, i_, it, w, e), Lower(m, into, d, i_)
  PROVE  Lower(m, into, e, i_ + 1)
<1>1. /\ m \in Nat /\ i_ \in 1..(m - 1) /\ w \in 0..(m - 1) /\ w < i_ /\ d[w] # -1
      /\ e[i_] = w /\ (\A x \in 0..(m - 1) \ {i_} : e[x] = d[x])
      /\ Climbs(m, e, w) = Climbs(m, d, w)
      /\ \A z \in 0..(m - 1) :
           z \in Climbs(m, d, w) <=> \A p \in into[i_] : d[p] # -1 => z \in Climbs(m, d, p)
  BY VisitShrinks DEF Shrunk
<1>2. \A x \in 0..(m - 1) : d[x] # -1 =>
        /\ Climbs(m, e, x) \subseteq Climbs(m, d, x)
        /\ i_ \notin Climbs(m, d, x) => Climbs(m, e, x) = Climbs(m, d, x)
        /\ i_ \in Climbs(m, d, x) =>
             Climbs(m, e, x) = {z \in Climbs(m, d, x) : z >= i_} \cup Climbs(m, d, w)
  BY VisitShrinks DEF Shrunk
<1>3. /\ IsFlow(m, into) /\ IsTree(m, d) /\ i_ \in 0..(m - 1)
      /\ \A k \in 0..(m - 1) : into[k] \subseteq 0..(m - 1)
  BY <1>1 DEF VisitTo, IsFlow
<1>4. it \in Nat /\ \A k \in 0..(m - 1) : d[k] # -1 <=> it > 1 \/ k < i_
  BY DEF VisitTo, KnownTo
<1>5. ASSUME NEW x \in 0..(m - 1), d[x] # -1, x < i_ PROVE Climbs(m, e, x) = Climbs(m, d, x)
  <2>1. i_ \notin Climbs(m, d, x)
    <3>1. Climbs(m, d, x) \subseteq 0..x
      BY <1>3, <1>5, ClimbIs
    <3> QED
      BY <1>1, <1>5, <3>1
  <2> QED
    BY <1>2, <1>5, <2>1
<1>6. ASSUME NEW k \in 1..(m - 1), NEW q \in into[k], NEW z \in 0..(m - 1),
             e[k] # -1, q < k, z \in Climbs(m, e, e[k]), k < i_ + 1 \/ z >= i_ + 1
      PROVE  z \in Climbs(m, e, q)
  <2>1. k \in 0..(m - 1) /\ q \in 0..(m - 1)
    BY <1>1, <1>3
  <2>2. CASE k = i_
    <3>1. d[q] # -1 /\ q < i_
      BY <1>4, <1>6, <2>1, <2>2
    <3>2. z \in Climbs(m, d, q)
      BY <1>1, <1>6, <2>2, <3>1
    <3> QED
      BY <1>5, <2>1, <3>1, <3>2
  <2>3. CASE k # i_
    <3>1. e[k] = d[k] /\ d[k] # -1
      BY <1>1, <1>6, <2>1, <2>3
    <3>2. d[k] \in 0..(m - 1) /\ d[k] < k /\ d[d[k]] # -1
      BY <1>3, <3>1, ClimbStep
    <3>3. z \in Climbs(m, d, d[k])
      BY <1>2, <1>6, <3>1, <3>2
    <3>4. d[q] # -1
      BY <1>1, <1>4, <1>6, <2>1, <3>1
    <3>5. CASE k < i_
      <4>1. z \in Climbs(m, d, q)
        BY <1>6, <3>1, <3>3, <3>5 DEF Lower
      <4>2. q < i_
        BY <1>1, <1>6, <2>1, <3>5
      <4> QED
        BY <1>5, <2>1, <3>4, <4>1, <4>2
    <3>6. CASE k > i_
      <4>1. z >= i_
        BY <1>1, <1>6, <3>6
      <4>2. z \in Climbs(m, d, q)
        BY <1>6, <3>1, <3>3, <4>1 DEF Lower
      <4> QED
        BY <1>2, <2>1, <3>4, <4>1, <4>2
    <3> QED
      BY <1>1, <2>1, <2>3, <3>5, <3>6
  <2> QED
    BY <2>2, <2>3
<1> QED
  BY <1>6 DEF Lower

\* A visit that changes nothing settles its place.
LEMMA SettledKept ==
  ASSUME NEW m, NEW into, NEW d, NEW i_, NEW it, NEW w, NEW e,
         VisitTo(m, into, d, i_, it, w, e), Settled(m, into, d, i_), d[i_] = w
  PROVE  Settled(m, into, e, i_ + 1)
<1>1. /\ m \in Nat /\ i_ \in 1..(m - 1) /\ w \in 0..(m - 1) /\ d[w] # -1
      /\ \A z \in 0..(m - 1) :
           z \in Climbs(m, d, w) <=> \A p \in into[i_] : d[p] # -1 => z \in Climbs(m, d, p)
  BY VisitShrinks DEF Shrunk
<1>2. IsTree(m, d) /\ d \in [0..(m - 1) -> -1..(m - 1)] /\ e = d
  BY <1>1 DEF VisitTo, IsTree
<1>3. Climbs(m, d, w) \subseteq 0..(m - 1)
  BY <1>1, <1>2, ClimbFurther
<1>4. \A k \in 1..((i_ + 1) - 1) : \A p \in into[k] : d[p] # -1 => Climbs(m, d, d[k]) \subseteq Climbs(m, d, p)
  <2> SUFFICES ASSUME NEW k \in 1..((i_ + 1) - 1), NEW p \in into[k], d[p] # -1
               PROVE  Climbs(m, d, d[k]) \subseteq Climbs(m, d, p)
    OBVIOUS
  <2>1. CASE k = i_
    BY <1>1, <1>3, <2>1
  <2>2. CASE k # i_
    <3>1. k \in 1..(i_ - 1)
      BY <1>1, <2>2
    <3> QED
      BY <3>1 DEF Settled
  <2> QED
    BY <2>1, <2>2
<1>5. Settled(m, into, d, i_ + 1)
  BY <1>4 DEF Settled
<1> QED
  BY <1>2, <1>5

\* j never dominates the entry and always itself.
LEMMA ShedIs ==
  ASSUME NEW m, NEW d, IsTree(m, d), NEW j \in 1..(m - 1)
  PROVE  /\ Shed(m, d, j) \subseteq 0..(m - 1) /\ 0 \in Shed(m, d, j) /\ j \notin Shed(m, d, j)
         /\ IsFiniteSet(Shed(m, d, j)) /\ Cardinality(Shed(m, d, j)) \in 1..(m - 1)
<1>1. m \in Nat /\ d[0] = 0 /\ 0 \in 0..(m - 1) /\ j \in 0..(m - 1)
  BY DEF IsTree
<1>2. 0 \in Shed(m, d, j)
  <2>1. Climbs(m, d, 0) = {0}
    BY ClimbStep
  <2> QED
    BY <1>1, <2>1 DEF Shed
<1>3. j \notin Shed(m, d, j)
  BY <1>1, ClimbIs DEF Shed
<1>4. IsFiniteSet(0..(m - 1)) /\ Cardinality(0..(m - 1)) = m
  <2>1. IsFiniteSet(0..(m - 1)) /\ Cardinality(0..(m - 1)) = IF 0 > m - 1 THEN 0 ELSE (m - 1) - 0 + 1
    BY <1>1, FS_Interval
  <2> QED
    BY <1>1, <2>1
<1> DEFINE S == Shed(m, d, j)
<1>5. S \subseteq 0..(m - 1)
  BY DEF Shed
<1>6. S # 0..(m - 1)
  BY <1>1, <1>3
<1> HIDE DEF S
<1>7. IsFiniteSet(S) /\ Cardinality(S) <= m /\ Cardinality(S) # m
  <2>1. IsFiniteSet(S) /\ Cardinality(S) <= Cardinality(0..(m - 1)) /\ (Cardinality(S) = Cardinality(0..(m - 1)) => S = 0..(m - 1))
    BY <1>4, <1>5, FS_Subset
  <2> QED
    BY <1>4, <1>6, <2>1
<1>8. Cardinality(S) \in Nat /\ (S # {} => Cardinality(S) # 0)
  BY <1>7, FS_CardinalityType, FS_EmptySet
<1> QED
  BY <1>1, <1>2, <1>3, <1>5, <1>7, <1>8 DEF S

\* Unless all of what avoids j is found, an edge leads out of what is.
LEMMA Pending ==
  ASSUME NEW m, NEW into, NEW d, IsFlow(m, into), IsTree(m, d), NEW j \in 1..(m - 1)
  PROVE  \/ Avoid(m, into, j) \subseteq Shed(m, d, j)
         \/ \E y \in Shed(m, d, j), s \in 1..(m - 1) : y \in into[s] /\ s # j /\ s \notin Shed(m, d, j)
<1> SUFFICES ASSUME \A y \in Shed(m, d, j), s \in 1..(m - 1) :
                      y \in into[s] /\ s # j => s \in Shed(m, d, j)
             PROVE  Avoid(m, into, j) \subseteq Shed(m, d, j)
  OBVIOUS
<1>1. m \in Nat /\ j \in 0..(m - 1) /\ 0 \in Shed(m, d, j)
  <2>1. m \in Nat /\ j \in 0..(m - 1)
    BY DEF IsTree
  <2> QED
    BY <2>1, ShedIs
<1>2. \A y \in Shed(m, d, j) : \A k \in 0..(m - 1) : y \in 0..(m - 1) /\ y \in into[k] /\ k # j => k \in Shed(m, d, j)
  <2>1. \A k \in 0..(m - 1) : k = 0 \/ k \in 1..(m - 1)
    BY <1>1
  <2> QED
    BY <1>1, <2>1
<1> QED
  BY <1>1, <1>2, AvoidIs

LEMMA GainsKept ==
  ASSUME NEW m, NEW into, NEW d, NEW i_, NEW it, NEW w, NEW e,
         VisitTo(m, into, d, i_, it, w, e), NEW j \in 1..(m - 1), Gains(m, into, d, i_, it, j)
  PROVE  Gains(m, into, e, i_ + 1, it, j)
<1>1. /\ m \in Nat /\ i_ \in 1..(m - 1) /\ w \in 0..(m - 1) /\ w < i_ /\ d[w] # -1
      /\ IsTree(m, e) /\ e[i_] = w /\ (\A x \in 0..(m - 1) \ {i_} : e[x] = d[x])
      /\ Climbs(m, e, i_) = {i_} \cup Climbs(m, d, w)
      /\ \A z \in 0..(m - 1) :
           z \in Climbs(m, d, w) <=> \A p \in into[i_] : d[p] # -1 => z \in Climbs(m, d, p)
  BY VisitShrinks DEF Shrunk
<1>2. \A x \in 0..(m - 1) : d[x] # -1 => e[x] # -1 /\ Climbs(m, e, x) \subseteq Climbs(m, d, x)
  BY VisitShrinks DEF Shrunk
<1>3. it \in Nat /\ IsTree(m, d) /\ j \in 0..(m - 1)
  BY <1>1 DEF VisitTo, KnownTo
<1> DEFINE S == Shed(m, d, j)
           T == Shed(m, e, j)
<1>4. S \subseteq T
  BY <1>2 DEF Shed
<1>5. IsFiniteSet(S) /\ Cardinality(S) \in 1..(m - 1) /\ IsFiniteSet(T) /\ Cardinality(T) \in 1..(m - 1)
  BY <1>1, <1>3, ShedIs
<1>6. CASE Avoid(m, into, j) \subseteq S
  BY <1>4, <1>6 DEF Gains
<1>7. Cardinality(S) <= Cardinality(T) /\ (S # T => Cardinality(S) < Cardinality(T))
  <2> HIDE DEF S, T
  <2>1. Cardinality(S) <= Cardinality(T) /\ (Cardinality(S) = Cardinality(T) => S = T)
    BY <1>4, <1>5, FS_Subset
  <2> QED
    BY <1>5, <2>1
<1>8. CASE Cardinality(S) > it
  <2>1. Cardinality(T) > it
    BY <1>1, <1>3, <1>5, <1>7, <1>8
  <2> QED
    BY <2>1 DEF Gains
<1>9. CASE /\ Cardinality(S) = it
           /\ \E y \in S, s \in i_..(m - 1) : y \in into[s] /\ s # j /\ s \notin S
  <2>1. PICK y \in S, s \in i_..(m - 1) : y \in into[s] /\ s # j /\ s \notin S
    BY <1>9
  <2>2. CASE S # T
    <3>1. Cardinality(T) > it
      BY <1>1, <1>3, <1>5, <1>7, <1>9, <2>2
    <3> QED
      BY <3>1 DEF Gains
  <2>3. CASE S = T /\ s # i_
    <3>1. s \in (i_ + 1)..(m - 1)
      BY <1>1, <2>1, <2>3
    <3>2. Cardinality(T) = it /\ y \in T /\ s \notin T
      BY <1>9, <2>1, <2>3
    <3> QED
      BY <2>1, <3>1, <3>2 DEF Gains
  <2>4. CASE s = i_
    <3>1. d[y] # -1 /\ j \notin Climbs(m, d, y)
      BY <2>1 DEF Shed
    <3>2. j \notin Climbs(m, d, w)
      BY <1>1, <1>3, <2>1, <2>4, <3>1
    <3>3. e[i_] # -1 /\ j \notin Climbs(m, e, i_) /\ i_ \in 0..(m - 1)
      BY <1>1, <2>1, <2>4, <3>2
    <3>4. i_ \in T
      BY <3>3 DEF Shed
    <3>5. Cardinality(T) > it
      BY <1>1, <1>3, <1>5, <1>7, <1>9, <2>1, <2>4, <3>4
    <3> QED
      BY <3>5 DEF Gains
  <2> QED
    BY <2>2, <2>3, <2>4
<1> QED
  BY <1>6, <1>8, <1>9 DEF Gains

\* The next pass has another to find, or none are left.
LEMMA GainsAgain ==
  ASSUME NEW m, NEW into, NEW d, NEW i_, NEW it,
         IsFlow(m, into), IsTree(m, d), it \in Nat, i_ \in Nat, i_ >= m,
         NEW j \in 1..(m - 1), Gains(m, into, d, i_, it, j)
  PROVE  Gains(m, into, d, 1, it + 1, j)
<1>1. m \in Nat /\ Cardinality(Shed(m, d, j)) \in 1..(m - 1)
  BY ShedIs DEF IsTree
<1>2. i_..(m - 1) = {}
  BY <1>1
<1>3. Avoid(m, into, j) \subseteq Shed(m, d, j) \/ Cardinality(Shed(m, d, j)) > it
  BY <1>2 DEF Gains
<1>4. CASE Cardinality(Shed(m, d, j)) = it + 1
  BY <1>4, Pending DEF Gains
<1>5. CASE Cardinality(Shed(m, d, j)) > it + 1
  BY <1>5 DEF Gains
<1>6. CASE Avoid(m, into, j) \subseteq Shed(m, d, j)
  BY <1>6 DEF Gains
<1> QED
  BY <1>1, <1>3, <1>4, <1>5, <1>6

\* A pass that changes something is not the m-th: by then all is found.
LEMMA FewPasses ==
  ASSUME NEW m, NEW into, NEW d, NEW i_, NEW it, NEW w, NEW e,
         VisitTo(m, into, d, i_, it, w, e), Sound(m, into, d),
         \A j \in 1..(m - 1) : Gains(m, into, d, i_, it, j),
         it >= m
  PROVE  d[i_] = w
<1>1. /\ m \in Nat /\ i_ \in 1..(m - 1) /\ i_ \in 0..(m - 1) /\ w \in 0..(m - 1) /\ w < i_ /\ d[w] # -1
      /\ \A z \in 0..(m - 1) :
           z \in Climbs(m, d, w) <=> \A p \in into[i_] : d[p] # -1 => z \in Climbs(m, d, p)
  BY VisitShrinks DEF Shrunk
<1>2. /\ it \in Nat /\ IsFlow(m, into) /\ IsTree(m, d) /\ Post(m, into, d) /\ into[i_] \subseteq 0..(m - 1)
      /\ \A k \in 0..(m - 1) : d[k] # -1 <=> it > 1 \/ k < i_
  BY <1>1 DEF VisitTo, KnownTo, IsFlow
<1>3. \A k \in 0..(m - 1) : d[k] # -1
  BY <1>1, <1>2
<1>4. ASSUME NEW j \in 1..(m - 1) PROVE Avoid(m, into, j) \subseteq Shed(m, d, j)
  <2>1. Cardinality(Shed(m, d, j)) \in 1..(m - 1)
    BY <1>2, ShedIs
  <2>2. ~(Cardinality(Shed(m, d, j)) > it) /\ Cardinality(Shed(m, d, j)) # it
    BY <1>1, <1>2, <2>1
  <2> QED
    BY <2>2 DEF Gains
<1>5. /\ d[i_] \in 0..(m - 1) /\ d[i_] < i_ /\ d[d[i_]] # -1
      /\ Climbs(m, d, i_) = {i_} \cup Climbs(m, d, d[i_])
      /\ i_ \notin Climbs(m, d, d[i_])
  BY <1>1, <1>2, <1>3, ClimbStep
<1>6. Climbs(m, d, w) \subseteq 0..(m - 1) /\ Climbs(m, d, d[i_]) \subseteq 0..(m - 1)
  BY <1>1, <1>2, <1>5, ClimbFurther
<1>7. Climbs(m, d, w) \subseteq Climbs(m, d, d[i_])
  BY <1>1, <1>2, <1>3, <1>6 DEF Post
<1>8. ASSUME NEW j \in Climbs(m, d, d[i_]) PROVE j \in Climbs(m, d, w)
  <2> SUFFICES ASSUME NEW p \in into[i_], j \notin Climbs(m, d, p) PROVE FALSE
    BY <1>1, <1>6
  <2>1. p \in 0..(m - 1) /\ j \in 0..(m - 1)
    BY <1>2, <1>6
  <2>2. j # 0
    BY <1>2, <1>3, <2>1, ClimbEnds
  <2>3. p \in Avoid(m, into, j)
    BY <1>3, <2>1 DEF Sound
  <2>4. i_ \in Avoid(m, into, j)
    BY <1>1, <1>2, <1>5, <2>1, <2>3, AvoidIs
  <2>5. j \in 1..(m - 1)
    BY <1>1, <2>1, <2>2
  <2>6. j \notin Climbs(m, d, i_)
    BY <1>4, <2>4, <2>5 DEF Shed
  <2> QED
    BY <1>5, <2>6
<1> QED
  BY <1>1, <1>2, <1>5, <1>7, <1>8, ClimbSame

\* When all is settled, dominators are exact.
LEMMA SettledExact ==
  ASSUME NEW m, NEW into, NEW d, IsFlow(m, into), IsTree(m, d), Sound(m, into, d),
         Settled(m, into, d, m), \A k \in 0..(m - 1) : d[k] # -1
  PROVE  \A x, j \in 0..(m - 1) : j \in Climbs(m, d, x) <=> x \notin Avoid(m, into, j)
<1>1. m \in Nat /\ \A k \in 0..(m - 1) : into[k] \subseteq 0..(m - 1)
  BY DEF IsFlow
<1>2. ASSUME NEW j \in 0..(m - 1) PROVE Avoid(m, into, j) \subseteq {x \in 0..(m - 1) : j \notin Climbs(m, d, x)}
  <2> DEFINE X == {x \in 0..(m - 1) : j \notin Climbs(m, d, x)}
  <2>1. j # 0 => 0 \in X
    <3>1. Climbs(m, d, 0) = {0}
      BY ClimbStep
    <3>2. 0 \in 0..(m - 1)
      BY DEF IsTree
    <3> QED
      BY <3>1, <3>2
  <2>2. ASSUME NEW y \in X, NEW k \in 0..(m - 1), y \in into[k], k # j PROVE k \in X
    <3>1. CASE k = 0
      BY <2>1, <2>2, <3>1
    <3>2. CASE k # 0
      <4>1. k \in 1..(m - 1) /\ k \in 1..(m - 1)
        BY <1>1, <3>2
      <4>2. Climbs(m, d, k) = {k} \cup Climbs(m, d, d[k])
        BY <4>1, ClimbStep
      <4>3. Climbs(m, d, d[k]) \subseteq Climbs(m, d, y)
        BY <2>2, <4>1 DEF Settled
      <4> QED
        BY <2>2, <4>2, <4>3
    <3> QED
      BY <3>1, <3>2
  <2> HIDE DEF X
  <2>3. Avoid(m, into, j) \subseteq X
    BY <2>1, <2>2, AvoidIs
  <2> QED
    BY <2>3 DEF X
<1> QED
  BY <1>2 DEF Sound

\* All of it, and what the turns of a pass do to it.
PassOk(m, into, d, i_, ch, it) ==
  /\ IsFlow(m, into) /\ IsTree(m, d) /\ KnownTo(m, d, i_, it)
  /\ Led(m, into, d) /\ Sound(m, into, d)
  /\ Post(m, into, d) /\ Lower(m, into, d, i_)
  /\ ~ch => Settled(m, into, d, i_)
  /\ \A j \in 1..(m - 1) : Gains(m, into, d, i_, it, j)
  /\ ch => it < m

\* The tree the passes start from: the entry alone is known.
LEMMA PassStarts ==
  ASSUME NEW m, NEW into, NEW d, IsFlow(m, into), d = [k \in 0..(m - 1) |-> IF k = 0 THEN 0 ELSE -1]
  PROVE  PassOk(m, into, d, 1, FALSE, 1)
<1>1. /\ m \in Nat /\ m >= 1 /\ d[0] = 0 /\ 0 \in 0..(m - 1) /\ \A k \in 1..(m - 1) : d[k] = -1
  BY DEF IsFlow
<1>2. \A k \in 0..(m - 1) : d[k] # -1 <=> k = 0
  OBVIOUS
<1>3. IsTree(m, d)
  BY <1>1 DEF IsTree
<1>4. KnownTo(m, d, 1, 1)
  <2>1. \A k \in 0..(m - 1) : k = 0 <=> 1 > 1 \/ k < 1
    OBVIOUS
  <2> QED
    BY <1>1, <1>2, <2>1 DEF KnownTo
<1>5. Led(m, into, d) /\ Post(m, into, d) /\ Lower(m, into, d, 1)
  BY <1>1 DEF Led, Post, Lower
<1>6. Settled(m, into, d, 1)
  BY DEF Settled
<1>7. Sound(m, into, d)
  <2> SUFFICES ASSUME NEW j \in 0..(m - 1), j \notin Climbs(m, d, 0) PROVE 0 \in Avoid(m, into, j)
    BY <1>2 DEF Sound
  <2>1. j # 0
    BY <1>3, ClimbStep
  <2> QED
    BY <2>1, AvoidIs
<1>8. ASSUME NEW j \in 1..(m - 1) PROVE Gains(m, into, d, 1, 1, j)
  <2>1. Cardinality(Shed(m, d, j)) = 1
    <3>1. Shed(m, d, j) = {0}
      <4>1. 0 \in Shed(m, d, j)
        BY <1>3, ShedIs
      <4>2. Shed(m, d, j) \subseteq {0}
        BY <1>2 DEF Shed
      <4> QED
        BY <4>1, <4>2
    <3> QED
      BY <3>1, FS_Singleton
  <2> QED
    BY <1>3, <2>1, Pending DEF Gains
<1> QED
  BY <1>3, <1>4, <1>5, <1>6, <1>7, <1>8 DEF PassOk

\* The visit of place i_.
LEMMA PassVisits ==
  ASSUME NEW m, NEW into, NEW d, NEW i_, NEW ch, NEW it, NEW w, NEW e, NEW ch2,
         PassOk(m, into, d, i_, ch, it), Visits(m, into, d, i_, w),
         e = [d EXCEPT ![i_] = w], ch2 <=> (ch \/ d[i_] # w)
  PROVE  PassOk(m, into, e, i_ + 1, ch2, it)
<1>1. VisitTo(m, into, d, i_, it, w, e)
  BY DEF PassOk, VisitTo
<1>2. Shrunk(m, into, d, i_, it, w, e)
  BY <1>1, VisitShrinks
<1>3. IsTree(m, e) /\ KnownTo(m, e, i_ + 1, it)
  BY <1>2 DEF Shrunk
<1>4. Led(m, into, e) /\ Sound(m, into, e)
  BY <1>1, LedKept, SoundKept DEF PassOk
<1>5. Post(m, into, e) /\ Lower(m, into, e, i_ + 1)
  BY <1>1, PostKept, LowerKept DEF PassOk
<1>6. ~ch2 => Settled(m, into, e, i_ + 1)
  <2> SUFFICES ASSUME ~ch2 PROVE Settled(m, into, e, i_ + 1)
    OBVIOUS
  <2>1. ~ch /\ d[i_] = w
    OBVIOUS
  <2>2. Settled(m, into, d, i_)
    BY <2>1 DEF PassOk
  <2> QED
    BY <1>1, <2>1, <2>2, SettledKept
<1>7. ASSUME NEW j \in 1..(m - 1) PROVE Gains(m, into, e, i_ + 1, it, j)
  BY <1>1, GainsKept DEF PassOk
<1>8. ch2 => it < m
  <2>1. Sound(m, into, d) /\ (\A j \in 1..(m - 1) : Gains(m, into, d, i_, it, j)) /\ (ch => it < m)
    BY DEF PassOk
  <2>2. it >= m => d[i_] = w
    BY <1>1, <2>1, FewPasses
  <2>3. it \in Nat /\ m \in Nat
    BY <1>2, <1>3 DEF KnownTo, Shrunk
  <2> QED
    BY <2>1, <2>2, <2>3
<1>9. IsFlow(m, into)
  BY DEF PassOk
<1> QED
  BY <1>3, <1>4, <1>5, <1>6, <1>7, <1>8, <1>9 DEF PassOk

\* The next pass.
LEMMA PassTurns ==
  ASSUME NEW m, NEW into, NEW d, NEW i_, NEW ch, NEW it, PassOk(m, into, d, i_, ch, it), i_ >= m, ch
  PROVE  it < m /\ PassOk(m, into, d, 1, FALSE, it + 1)
<1>1. it < m /\ IsFlow(m, into) /\ IsTree(m, d) /\ m \in Nat /\ m >= 1
  BY DEF PassOk, IsFlow
<1>2. it \in Nat /\ it >= 1 /\ i_ \in 1..m /\ i_ = m /\ \A k \in 0..(m - 1) : d[k] # -1
  BY <1>1 DEF PassOk, KnownTo
<1>3. KnownTo(m, d, 1, it + 1)
  BY <1>1, <1>2 DEF KnownTo
<1>4. Lower(m, into, d, 1)
  <2>1. ASSUME NEW k \in 1..(m - 1), NEW q \in into[k], NEW z \in 0..(m - 1),
               d[k] # -1, q < k, z \in Climbs(m, d, d[k])
        PROVE  z \in Climbs(m, d, q)
    <3>1. Lower(m, into, d, i_) /\ k < i_
      BY <1>1, <1>2 DEF PassOk
    <3> QED
      BY <2>1, <3>1 DEF Lower
  <2> QED
    BY <2>1 DEF Lower
<1>5. Settled(m, into, d, 1)
  BY DEF Settled
<1>6. ASSUME NEW j \in 1..(m - 1) PROVE Gains(m, into, d, 1, it + 1, j)
  <2>1. Gains(m, into, d, i_, it, j)
    BY DEF PassOk
  <2> QED
    BY <1>1, <1>2, <2>1, GainsAgain
<1>7. Led(m, into, d) /\ Sound(m, into, d) /\ Post(m, into, d)
  BY DEF PassOk
<1> QED
  BY <1>1, <1>3, <1>4, <1>5, <1>6, <1>7 DEF PassOk

\* The last pass has found dominance.
LEMMA PassEnds ==
  ASSUME NEW m, NEW into, NEW d, NEW i_, NEW ch, NEW it, PassOk(m, into, d, i_, ch, it), i_ >= m, ~ch
  PROVE  /\ IsTree(m, d) /\ \A k \in 0..(m - 1) : d[k] # -1
         /\ \A x, j \in 0..(m - 1) : j \in Climbs(m, d, x) <=> x \notin Avoid(m, into, j)
<1>1. IsFlow(m, into) /\ IsTree(m, d) /\ m \in Nat /\ Sound(m, into, d)
  BY DEF PassOk, IsFlow
<1>2. i_ = m /\ \A k \in 0..(m - 1) : d[k] # -1
  BY <1>1 DEF PassOk, KnownTo
<1>3. Settled(m, into, d, m)
  BY <1>2 DEF PassOk
<1> QED
  BY <1>1, <1>2, <1>3, SettledExact
-----------------------------------------------------------------------------
(* What NewIdom computes: where the ways up from the known predecessors     *)
(* meet, by a fold of intersect over them.                                 *)

\* The places with a dominator so far.
KnownPlaces == {k \in 0..(n - 1) : idomIdx[k] # -1}

\* The two-finger walk ends where the ways up meet.
LEMMA IntersectMeets ==
  ASSUME IsTree(n, idomIdx), NEW a \in KnownPlaces, NEW b \in KnownPlaces
  PROVE  intersect(a, b) \in KnownPlaces /\ Meets(n, idomIdx, intersect(a, b), {a, b})
<1>1. intersect(a, b) = CHOOSE x \in Climbs(n, idomIdx, a) \cap Climbs(n, idomIdx, b) :
                          \A y \in Climbs(n, idomIdx, a) \cap Climbs(n, idomIdx, b) : y <= x
  BY DEF intersect, climb, Climb, Climbs
<1>2. a \in 0..(n - 1) /\ b \in 0..(n - 1) /\ idomIdx[a] # -1 /\ idomIdx[b] # -1
  BY DEF KnownPlaces
<1> HIDE DEF intersect
<1>3. Meets(n, idomIdx, intersect(a, b), {a, b})
  BY <1>1, <1>2, MeetIs
<1> QED
  BY <1>3 DEF Meets, KnownPlaces

\* it[k] is the fold of the first k members of seq.
Folded(it, base, seq) ==
  it = [s \in SUBSET DOMAIN seq |-> IF s = {} THEN base ELSE intersect(seq[Max(s)], it[s \ {Max(s)}])]

\* FoldLeft takes the last place of those to come, and goes on with the rest.
LEMMA MaxIs ==
  ASSUME NEW l \in Nat, NEW s \in SUBSET (1..l), s # {}
  PROVE  Max(s) \in s /\ s \ {Max(s)} \in SUBSET (1..l)
<1>1. s \in SUBSET (0..l)
  OBVIOUS
<1>2. PICK x \in s : \A q \in s : q <= x
  BY <1>1, GreatestExists
<1>3. \A q \in s : x >= q
  BY <1>1, <1>2
<1> QED
  BY <1>2, <1>3 DEF Max

\* The rest is smaller.
LEMMA SmallerRest ==
  ASSUME NEW l \in Nat, NEW s \in SUBSET (1..l), s # {}
  PROVE  /\ Cardinality(s) \in Nat /\ Cardinality(s) >= 1
         /\ Cardinality(s \ {Max(s)}) = Cardinality(s) - 1
<1>1. IsFiniteSet(s) /\ Max(s) \in s
  <2>1. IsFiniteSet(1..l)
    BY FS_Interval
  <2> QED
    BY <2>1, FS_Subset, MaxIs
<1>2. Cardinality(s) \in Nat /\ Cardinality(s \ {Max(s)}) = Cardinality(s) - 1
  BY <1>1, FS_CardinalityType, FS_RemoveElement
<1>3. Cardinality(s \ {Max(s)}) \in Nat
  BY <1>1, FS_RemoveElement, FS_CardinalityType
<1> QED
  BY <1>2, <1>3

\* There is such a sequence of partial folds: FoldLeft is unfolded from its
\* definition, a function on the sets of places of seq still to come.
LEMMA FoldExists ==
  ASSUME NEW K, \A a, b \in K : intersect(a, b) \in K, NEW base \in K, NEW seq \in Seq(K)
  PROVE  \E it : Folded(it, base, seq)
<1> DEFINE l == Len(seq)
           D == SUBSET (1..l)
           V == [D -> K]
           After(g) == [s \in D |-> IF s = {} THEN base ELSE intersect(seq[Max(s)], g[s \ {Max(s)}])]
           step == [g \in V |-> After(g)]
           start == [s \in D |-> base]
<1>1. l \in Nat /\ DOMAIN seq = 1..l /\ \A x \in 1..l : seq[x] \in K
  OBVIOUS
<1> HIDE DEF l
<1>2. ASSUME NEW s \in D, s # {} PROVE Max(s) \in s /\ Max(s) \in 1..l /\ s \ {Max(s)} \in D
  BY <1>1, <1>2, MaxIs
<1>3. ASSUME NEW g \in V PROVE After(g) \in V
  <2>1. ASSUME NEW s \in D, s # {} PROVE intersect(seq[Max(s)], g[s \ {Max(s)}]) \in K
    BY <1>1, <1>2, <2>1
  <2> QED
    BY <2>1
<1>4. step \in [V -> V] /\ start \in V
  <2> HIDE DEF After
  <2> QED
    BY <1>3
<1>5. PICK f : Iterated(f, V, step, start)
  <2> HIDE DEF V, step, start
  <2> QED
    BY <1>4, Iterates
<1>6. \A k \in Nat : f[k] \in V /\ f[k + 1] = After(f[k])
  <2> HIDE DEF After
  <2> QED
    BY <1>5 DEF Iterated
<1> HIDE DEF V
<1>7. \A k \in Nat : \A s \in D : f[k + 1][s] = IF s = {} THEN base ELSE intersect(seq[Max(s)], f[k][s \ {Max(s)}])
  BY <1>6
<1> DEFINE Same(k) == \A s \in D : Cardinality(s) <= k => f[k + 1][s] = f[k][s]
<1>8. \A k \in Nat : Same(k)
  <2> DEFINE T == {k \in Nat : ~Same(k)}
  <2> SUFFICES ASSUME T # {} PROVE FALSE
    OBVIOUS
  <2>1. PICK k \in T : \A q \in T : k <= q
    <3> HIDE DEF Same
    <3> QED
      BY LeastExists
  <2>2. PICK s \in D : Cardinality(s) <= k /\ f[k + 1][s] # f[k][s]
    BY <2>1
  <2>3. s # {}
    <3> SUFFICES ASSUME s = {} PROVE FALSE
      OBVIOUS
    <3>1. f[k + 1][s] = base
      BY <1>7, <2>1
    <3>2. CASE k = 0
      BY <1>5, <2>2, <3>1, <3>2 DEF Iterated
    <3>3. CASE k # 0
      <4>1. k - 1 \in Nat /\ (k - 1) + 1 = k
        BY <2>1, <3>3
      <4>2. f[k][s] = base
        BY <1>7, <4>1
      <4> QED
        BY <2>2, <3>1, <4>2
    <3> QED
      BY <3>2, <3>3
  <2>4. /\ Cardinality(s) \in Nat /\ Cardinality(s) >= 1
        /\ Cardinality(s \ {Max(s)}) = Cardinality(s) - 1
    BY <1>1, <2>3, SmallerRest
  <2>5. k \in Nat /\ k - 1 \in Nat /\ (k - 1) + 1 = k /\ k - 1 \notin T
    <3> HIDE DEF Same
    <3> QED
      BY <2>1, <2>2, <2>4
  <2>6. s \ {Max(s)} \in D /\ Cardinality(s \ {Max(s)}) <= k - 1
    BY <1>2, <2>2, <2>3, <2>4, <2>5
  <2>7. f[(k - 1) + 1][s \ {Max(s)}] = f[k - 1][s \ {Max(s)}]
    <3>1. Same(k - 1)
      <4> HIDE DEF Same
      <4> QED
        BY <2>5
    <3> QED
      BY <2>6, <3>1
  <2>8. f[k][s \ {Max(s)}] = f[k - 1][s \ {Max(s)}]
    BY <2>5, <2>7
  <2>9. /\ f[k + 1][s] = intersect(seq[Max(s)], f[k][s \ {Max(s)}])
        /\ f[(k - 1) + 1][s] = intersect(seq[Max(s)], f[k - 1][s \ {Max(s)}])
    BY <1>7, <2>3, <2>5
  <2>10. f[k][s] = intersect(seq[Max(s)], f[k - 1][s \ {Max(s)}])
    BY <2>5, <2>9
  <2> QED
    BY <2>2, <2>8, <2>9, <2>10
<1>9. f[l + 1] = f[l]
  <2>1. ASSUME NEW s \in D PROVE Cardinality(s) <= l
    <3>1. IsFiniteSet(1..l) /\ Cardinality(1..l) = l
      BY <1>1, FS_Interval
    <3> QED
      BY <3>1, FS_Subset
  <2>2. Same(l)
    <3> HIDE DEF Same
    <3> QED
      BY <1>1, <1>8
  <2>3. \A s \in D : f[l + 1][s] = f[l][s]
    BY <2>1, <2>2
  <2>4. f[l] \in [D -> K] /\ f[l + 1] \in [D -> K]
    <3>1. f[l] \in V /\ f[l + 1] \in V
      <4>1. \A k \in Nat : f[k] \in V
        BY <1>6
      <4>2. l + 1 \in Nat
        BY <1>1
      <4> HIDE DEF V
      <4> QED
        BY <1>1, <4>1, <4>2
    <3> QED
      BY <3>1 DEF V
  <2> QED
    BY <2>3, <2>4
<1>10. f[l] = After(f[l])
  <2> HIDE DEF After
  <2> QED
    BY <1>1, <1>6, <1>9
<1>11. Folded(f[l], base, seq)
  BY <1>1, <1>10 DEF Folded
<1> QED
  BY <1>11

LEMMA FoldIs ==
  ASSUME NEW base, NEW seq, \E it : Folded(it, base, seq)
  PROVE  \E it : Folded(it, base, seq) /\ it[DOMAIN seq] = FoldLeft(LAMBDA idom, p : intersect(p, idom), base, seq)
<1>1. Folded(CHOOSE it : Folded(it, base, seq), base, seq)
  OBVIOUS
<1>2. (CHOOSE it : Folded(it, base, seq))[DOMAIN seq] = FoldLeft(LAMBDA idom, p : intersect(p, idom), base, seq)
  BY DEF FoldLeft, MapThenFoldSet, Folded
<1> QED
  BY <1>1, <1>2

\* The fold is where all of them meet.
LEMMA FoldMeets ==
  ASSUME IsTree(n, idomIdx), NEW base \in KnownPlaces, NEW seq \in Seq(KnownPlaces)
  PROVE  Meets(n, idomIdx, FoldLeft(LAMBDA idom, p : intersect(p, idom), base, seq), {base} \cup Range(seq))
<1> DEFINE l == Len(seq)
           D == SUBSET (1..l)
           Below(s) == {base} \cup {seq[x] : x \in s}
<1>1. l \in Nat /\ DOMAIN seq = 1..l /\ \A x \in 1..l : seq[x] \in KnownPlaces
  OBVIOUS
<1>2. \E it : Folded(it, base, seq)
  <2>1. \A a, b \in KnownPlaces : intersect(a, b) \in KnownPlaces
    BY IntersectMeets
  <2> QED
    BY <2>1, FoldExists
<1>3. PICK it : Folded(it, base, seq) /\ it[DOMAIN seq] = FoldLeft(LAMBDA idom, p : intersect(p, idom), base, seq)
  BY <1>2, FoldIs
<1> HIDE DEF l
<1>4. \A s \in D : it[s] = IF s = {} THEN base ELSE intersect(seq[Max(s)], it[s \ {Max(s)}])
  BY <1>1, <1>3 DEF Folded
<1> DEFINE Good(s) == Meets(n, idomIdx, it[s], Below(s))
           T == {k \in Nat : \E s \in D : Cardinality(s) = k /\ ~Good(s)}
<1>5. T = {}
  <2> SUFFICES ASSUME T # {} PROVE FALSE
    OBVIOUS
  <2>1. PICK k \in T : \A q \in T : k <= q
    <3> HIDE DEF Good
    <3> QED
      BY LeastExists
  <2>2. PICK s \in D : Cardinality(s) = k /\ ~Good(s)
    BY <2>1
  <2>3. s # {}
    <3> SUFFICES ASSUME s = {} PROVE FALSE
      OBVIOUS
    <3>1. it[s] = base /\ Below(s) = {base}
      BY <1>4
    <3>2. Meets(n, idomIdx, base, {base})
      BY DEF Meets, KnownPlaces
    <3> QED
      BY <2>2, <3>1, <3>2
  <2>4. /\ Cardinality(s) \in Nat /\ Cardinality(s) >= 1
        /\ Cardinality(s \ {Max(s)}) = Cardinality(s) - 1
        /\ Max(s) \in s /\ s \ {Max(s)} \in D
    BY <1>1, <2>3, SmallerRest, MaxIs
  <2> DEFINE r == s \ {Max(s)}
             p == seq[Max(s)]
  <2>5. Good(r)
    <3> SUFFICES ASSUME ~Good(r) PROVE FALSE
      OBVIOUS
    <3>1. Cardinality(r) \in Nat /\ Cardinality(r) < k
      BY <2>2, <2>4
    <3>2. Cardinality(r) \in T
      <4> HIDE DEF Good
      <4> QED
        BY <2>4, <3>1
    <3> HIDE DEF T, r
    <3> QED
      BY <2>1, <2>2, <2>4, <3>1, <3>2
  <2>6. it[s] = intersect(p, it[r])
    BY <1>4, <2>3
  <2>7. it[r] \in KnownPlaces /\ p \in KnownPlaces
    BY <1>1, <2>4, <2>5 DEF Meets, KnownPlaces
  <2>8. Meets(n, idomIdx, it[s], {p, it[r]})
    <3> HIDE DEF p, r
    <3> QED
      BY <2>6, <2>7, IntersectMeets
  <2>9. Below(s) = {p} \cup Below(r)
    BY <2>4
  <2>10. Meets(n, idomIdx, it[r], Below(r))
    BY <2>5
  <2>11. Meets(n, idomIdx, it[s], {p} \cup Below(r))
    <3> HIDE DEF p, r, Below
    <3> QED
      BY <2>8, <2>10 DEF Meets
  <2> QED
    BY <2>2, <2>9, <2>11
<1>6. Good(1..l)
  <2> SUFFICES ASSUME ~Good(1..l) PROVE FALSE
    OBVIOUS
  <2>1. 1..l \in D /\ Cardinality(1..l) \in Nat
    BY <1>1, FS_Interval, FS_CardinalityType
  <2>2. Cardinality(1..l) \in T
    <3> HIDE DEF Good
    <3> QED
      BY <2>1
  <2> QED
    BY <1>5, <2>2
<1>7. Below(1..l) = {base} \cup Range(seq)
  BY <1>1 DEF Range
<1> QED
  BY <1>1, <1>3, <1>6, <1>7
-----------------------------------------------------------------------------
(* The places of the reverse postorder, and what the search leaves.        *)

\* rpo lists blocks once.
Ordered ==
  /\ order \in Seq(Blocks)
  /\ \A j, k \in 1..Len(order) : order[j] = order[k] => j = k

\* The predecessors of a place, as places.
Into == [k \in 0..(n - 1) |-> {j \in 0..(n - 1) : rpo[k] \in Range(succs[rpo[j]])}]

\* What the search leaves: rpo is the reachable blocks, each but the entry
\* with a predecessor before it.
Searched ==
  /\ Ordered
  /\ order # <<>> /\ order[Len(order)] = entry
  /\ \A b \in Reached : Range(succs[b]) \subseteq Reached
  /\ \A k \in 1..(n - 1) : \E j \in Into[k] : j < k

\* The order of places and their blocks agree.
PlacesOk ==
  /\ n \in Nat
  /\ rpo \in [0..(n - 1) -> Blocks]
  /\ \A j, k \in 0..(n - 1) : rpo[j] = rpo[k] => j = k
  /\ \A k \in 0..(n - 1) : rpo[k] \in Reached /\ rpoIndex(rpo[k]) = k
  /\ \A b \in Reached : b \in Blocks /\ rpoIndex(b) \in 0..(n - 1) /\ rpo[rpoIndex(b)] = b

LEMMA PlacesAre ==
  ASSUME Ordered
  PROVE  PlacesOk
<1>1. n \in Nat /\ DOMAIN order = 1..n /\ \A k \in 1..n : order[k] \in Blocks
  BY DEF Ordered, n
<1>2. \A j, k \in 1..n : order[j] = order[k] => j = k
  BY DEF Ordered, n
<1> HIDE DEF n
<1>3. \A k \in 0..(n - 1) : n - k \in 1..n /\ rpo[k] = order[n - k]
  BY <1>1 DEF rpo
<1>4. rpo \in [0..(n - 1) -> Blocks]
  <2>1. rpo = [k \in 0..(n - 1) |-> rpo[k]]
    BY DEF rpo
  <2> QED
    BY <1>1, <1>3, <2>1
<1>5. \A j, k \in 0..(n - 1) : rpo[j] = rpo[k] => j = k
  <2> SUFFICES ASSUME NEW j \in 0..(n - 1), NEW k \in 0..(n - 1), rpo[j] = rpo[k] PROVE j = k
    OBVIOUS
  <2>1. n - j = n - k
    BY <1>2, <1>3
  <2> QED
    BY <1>1, <2>1
<1>6. \A k \in 0..(n - 1) : rpo[k] \in Reached
  BY <1>1, <1>3 DEF Reached, Range
<1> HIDE DEF rpo
<1>7. \A k \in 0..(n - 1) : rpoIndex(rpo[k]) = k
  BY <1>5 DEF rpoIndex
<1>8. ASSUME NEW b \in Reached PROVE b \in Blocks /\ rpoIndex(b) \in 0..(n - 1) /\ rpo[rpoIndex(b)] = b
  <2>1. PICK j \in 1..n : order[j] = b
    BY <1>1 DEF Reached, Range
  <2>2. n - j \in 0..(n - 1) /\ n - (n - j) = j
    BY <1>1
  <2>3. rpo[n - j] = b
    BY <1>3, <2>1, <2>2
  <2> QED
    BY <1>4, <1>7, <2>2, <2>3
<1> QED
  BY <1>1, <1>4, <1>5, <1>6, <1>7, <1>8 DEF PlacesOk

\* The reverse postorder is a flow.
LEMMA FlowIs ==
  ASSUME Searched
  PROVE  IsFlow(n, Into) /\ PlacesOk /\ rpo[0] = entry /\ n >= 1
<1>1. PlacesOk /\ n \in Nat
  BY PlacesAre DEF Searched, PlacesOk
<1>2. n # 0
  <2>1. order \in Seq(Blocks) /\ order # <<>>
    BY DEF Searched, Ordered
  <2> QED
    BY <2>1 DEF n
<1>3. Into \in [0..(n - 1) -> SUBSET (0..(n - 1))]
  BY DEF Into
<1>4. \A k \in 1..(n - 1) : \E j \in Into[k] : j < k
  BY DEF Searched
<1>5. rpo[0] = entry
  <2>1. rpo[0] = order[n - 0] /\ n - 0 = Len(order)
    BY <1>1, <1>2 DEF rpo, n
  <2> QED
    BY <2>1 DEF Searched
<1> QED
  BY <1>1, <1>2, <1>3, <1>4, <1>5 DEF IsFlow

\* SetToSeq lists the members of a finite set.
LEMMA SetListed ==
  ASSUME NEW S, IsFiniteSet(S)
  PROVE  SetToSeq(S) \in Seq(S) /\ Range(SetToSeq(S)) = S
<1> DEFINE l == Cardinality(S)
<1>1. l \in Nat
  BY FS_CardinalityType
<1>2. IsFiniteSet(1..l) /\ Cardinality(1..l) = l
  BY <1>1, FS_Interval
<1>3. PICK g \in Bijection(1..l, S) : TRUE
  BY FS_CardinalityType DEF ExistsBijection
<1>4. g \in [1..l -> S] /\ IsInjective(g)
  BY <1>3 DEF Bijection, Injection, IsInjective
<1>5. SetToSeq(S) \in [1..l -> S] /\ IsInjective(SetToSeq(S))
  BY <1>4 DEF SetToSeq
<1> DEFINE f == SetToSeq(S)
<1> HIDE DEF f, l
<1>6. f \in Injection(1..l, S)
  BY <1>5 DEF Injection, IsInjective, f
<1>7. f \in Surjection(1..l, S)
  BY <1>2, <1>6, FS_Injection DEF l
<1>8. f \in Seq(S) /\ DOMAIN f = 1..l
  BY <1>1, <1>5 DEF f
<1>9. Range(f) = S
  BY <1>7, <1>8 DEF Surjection, Range
<1> QED
  BY <1>8, <1>9 DEF f

\* newIdom gives a place the one where its known predecessors meet.
LEMMA NewIdomIs ==
  ASSUME Searched, IsTree(n, idomIdx), KnownTo(n, idomIdx, i, iterations), i \in 1..(n - 1)
  PROVE  NewIdom(rpo[i]) # -1 /\ Visits(n, Into, idomIdx, i, NewIdom(rpo[i]))
<1>1. IsFlow(n, Into) /\ PlacesOk
  BY FlowIs
<1>2. n \in Nat /\ i \in 0..(n - 1) /\ \A k \in 0..(n - 1) : idomIdx[k] # -1 <=> iterations > 1 \/ k < i
  BY DEF KnownTo, IsTree
<1> DEFINE P == {p \in Into[i] : idomIdx[p] # -1}
           known == {p \in Preds(rpo[i]) \cap Reached : idomIdx[rpoIndex(p)] # -1}
           positions == SetToSeq(P)
<1>3. {rpoIndex(p) : p \in known} = P
  <2>1. ASSUME NEW p \in known PROVE rpoIndex(p) \in P
    <3>1. p \in Reached /\ rpo[i] \in Range(succs[p]) /\ idomIdx[rpoIndex(p)] # -1
      BY DEF Preds
    <3>2. rpoIndex(p) \in 0..(n - 1) /\ rpo[rpoIndex(p)] = p
      BY <1>1, <3>1 DEF PlacesOk
    <3> QED
      BY <1>2, <3>1, <3>2 DEF Into
  <2>2. ASSUME NEW x \in P PROVE rpo[x] \in known /\ rpoIndex(rpo[x]) = x
    <3>1. x \in 0..(n - 1) /\ rpo[i] \in Range(succs[rpo[x]]) /\ idomIdx[x] # -1
      BY <1>2 DEF Into
    <3>2. rpo[x] \in Reached /\ rpo[x] \in Blocks /\ rpoIndex(rpo[x]) = x
      BY <1>1, <3>1 DEF PlacesOk
    <3> QED
      BY <3>1, <3>2 DEF Preds
  <2> HIDE DEF P, known
  <2> QED
    BY <2>1, <2>2
<1>4. P \subseteq KnownPlaces /\ P \subseteq 0..(n - 1)
  <2>1. Into[i] \subseteq 0..(n - 1)
    BY <1>1, <1>2 DEF IsFlow
  <2> QED
    BY <2>1 DEF KnownPlaces
<1>5. PICK q \in P : q < i
  <2>1. PICK q \in Into[i] : q < i
    BY <1>1 DEF IsFlow
  <2>2. q \in 0..(n - 1)
    BY <1>1, <1>2, <2>1 DEF IsFlow
  <2> QED
    BY <1>2, <2>1, <2>2
<1>6. IsFiniteSet(P)
  <2>1. IsFiniteSet(0..(n - 1))
    BY <1>2, FS_Interval
  <2> HIDE DEF P
  <2> QED
    BY <1>4, <2>1, FS_Subset
<1>7. NewIdom(rpo[i]) = IF positions = <<>> THEN -1
        ELSE FoldLeft(LAMBDA idom, p : intersect(p, idom), Head(positions), Tail(positions))
  BY <1>3 DEF NewIdom
<1> HIDE DEF P
<1>8. positions \in Seq(P) /\ Range(positions) = P
  BY <1>6, SetListed
<1> HIDE DEF positions
<1>9. positions # <<>>
  BY <1>5, <1>8 DEF Range
<1>10. /\ Head(positions) \in KnownPlaces /\ Tail(positions) \in Seq(KnownPlaces)
       /\ {Head(positions)} \cup Range(Tail(positions)) = P
  <2>1. Head(positions) \in P /\ Tail(positions) \in Seq(P)
    BY <1>8, <1>9
  <2>2. /\ Len(positions) \in Nat /\ Len(positions) >= 1 /\ DOMAIN positions = 1..Len(positions)
        /\ Head(positions) = positions[1]
    BY <1>8, <1>9
  <2>3. /\ DOMAIN Tail(positions) = 1..(Len(positions) - 1)
        /\ \A k \in 1..(Len(positions) - 1) : Tail(positions)[k] = positions[k + 1]
    BY <1>8, <1>9, <2>2
  <2>4. ASSUME NEW x \in P PROVE x \in {Head(positions)} \cup Range(Tail(positions))
    <3>1. PICK k \in 1..Len(positions) : positions[k] = x
      BY <1>8, <2>2 DEF Range
    <3>2. CASE k = 1
      BY <2>2, <3>1, <3>2
    <3>3. CASE k # 1
      <4>1. k - 1 \in 1..(Len(positions) - 1) /\ (k - 1) + 1 = k
        BY <2>2, <3>3
      <4> QED
        BY <2>3, <3>1, <4>1 DEF Range
    <3> QED
      BY <3>2, <3>3
  <2>5. ASSUME NEW x \in Range(Tail(positions)) PROVE x \in P
    BY <2>1, <2>3 DEF Range
  <2>6. Tail(positions) \in Seq(KnownPlaces)
    <3> DEFINE T == Tail(positions)
    <3>1. T \in Seq(P)
      BY <2>1
    <3> HIDE DEF T
    <3>2. T \in [1..Len(T) -> P] /\ Len(T) \in Nat
      BY <3>1
    <3>3. T \in [1..Len(T) -> KnownPlaces]
      BY <1>4, <3>2
    <3>4. T \in Seq(KnownPlaces)
      BY <3>2, <3>3
    <3> QED
      BY <3>4 DEF T
  <2> QED
    BY <1>4, <2>1, <2>4, <2>5, <2>6
<1> DEFINE w == NewIdom(rpo[i])
<1>11. Meets(n, idomIdx, w, P)
  <2>1. Meets(n, idomIdx, FoldLeft(LAMBDA idom, p : intersect(p, idom), Head(positions), Tail(positions)),
              {Head(positions)} \cup Range(Tail(positions)))
    BY <1>10, FoldMeets
  <2> QED
    BY <1>7, <1>9, <1>10, <2>1
<1> HIDE DEF w
<1>12. w \in 0..(n - 1) /\ idomIdx[w] # -1 /\ w \in Climbs(n, idomIdx, q) /\ q \in 0..(n - 1) /\ idomIdx[q] # -1
  <2>1. w \in 0..(n - 1) /\ idomIdx[w] # -1 /\ \A z \in 0..(n - 1) : z \in Climbs(n, idomIdx, w) <=> \A p \in P : z \in Climbs(n, idomIdx, p)
    BY <1>11 DEF Meets
  <2>2. w \in Climbs(n, idomIdx, w)
    BY <2>1, ClimbIs
  <2> QED
    BY <1>4, <2>1, <2>2 DEF KnownPlaces
<1>13. w <= q
  BY <1>12, ClimbFurther
<1>14. w \in 0..(i - 1) /\ w # -1
  BY <1>2, <1>5, <1>12, <1>13
<1>15. Visits(n, Into, idomIdx, i, w)
  BY <1>5, <1>11, <1>12, <1>14 DEF Visits, P
<1> QED
  BY <1>14, <1>15 DEF w
-----------------------------------------------------------------------------
(* The search: or is what it has left, in postorder, st what it is inside  *)
(* of, ne how far it is with the edges of each block of the graph g.       *)

\* The members of s are all different.
Distinct(s) == \A j, k \in 1..Len(s) : s[j] = s[k] => j = k

\* A block left is the entry, or entered from one that is left later.
Entered(g, e, st, or, b, k) ==
  \/ b = e
  \/ \E p \in DOMAIN g : /\ b \in Range(g[p])
                         /\ p \in Range(st) \/ \E l \in (k + 1)..Len(or) : or[l] = p

\* The search in progress: the stack is a path, what is left is left with all
\* it leads to seen.
Searching(g, e, st, or, ne) ==
  /\ st \in Seq(DOMAIN g) /\ or \in Seq(DOMAIN g)
  /\ ne \in [DOMAIN g -> Nat] /\ \A b \in DOMAIN g : ne[b] <= Len(g[b])
  /\ Distinct(st) /\ Distinct(or) /\ Range(st) \cap Range(or) = {}
  /\ \A b \in DOMAIN g : \A k \in 1..ne[b] : g[b][k] \in Range(st) \cup Range(or)
  /\ \A b \in Range(or) : ne[b] = Len(g[b])
  /\ IF st = <<>> THEN or # <<>> /\ or[Len(or)] = e ELSE st[1] = e
  /\ \A k \in 2..Len(st) : st[k] \in Range(g[st[k - 1]])
  /\ \A k \in 1..Len(or) : Entered(g, e, st, or, or[k], k)

LEMMA SearchStarts ==
  ASSUME NEW g, NEW e, IsGraph(g, e)
  PROVE  Searching(g, e, <<e>>, <<>>, [b \in DOMAIN g |-> 0])
<1>1. e \in DOMAIN g /\ \A b \in DOMAIN g : g[b] \in Seq(DOMAIN g)
  BY DEF IsGraph
<1>2. <<e>> \in Seq(DOMAIN g) /\ Len(<<e>>) = 1 /\ <<e>>[1] = e /\ Range(<<>>) = {}
  BY <1>1 DEF Range
<1>3. Distinct(<<e>>) /\ Distinct(<<>>)
  BY <1>2 DEF Distinct
<1> QED
  BY <1>1, <1>2, <1>3 DEF Searching

\* The ends of a sequence.
LEMMA InRange ==
  ASSUME NEW S, NEW s \in Seq(S), NEW k \in 1..Len(s)
  PROVE  s[k] \in Range(s) /\ s[k] \in S
<1>1. DOMAIN s = 1..Len(s)
  OBVIOUS
<1> QED
  BY <1>1 DEF Range

\* r is s with x of S appended.
Longer(S, s, x, r) ==
  /\ r \in Seq(S) /\ Len(r) = Len(s) + 1 /\ Len(s) \in Nat
  /\ r # <<>> /\ r[Len(s) + 1] = x
  /\ \A k \in 1..Len(s) : r[k] = s[k]
  /\ Range(r) = Range(s) \cup {x}

LEMMA AppendIs ==
  ASSUME NEW S, NEW s \in Seq(S), NEW x \in S
  PROVE  Longer(S, s, x, Append(s, x))
<1>1. /\ Append(s, x) \in Seq(S) /\ Len(Append(s, x)) = Len(s) + 1 /\ Len(s) \in Nat
      /\ Append(s, x) # <<>> /\ Append(s, x)[Len(s) + 1] = x
      /\ \A k \in 1..Len(s) : Append(s, x)[k] = s[k]
  OBVIOUS
<1>2. DOMAIN Append(s, x) = 1..(Len(s) + 1) /\ DOMAIN s = 1..Len(s)
  OBVIOUS
<1>3. ASSUME NEW y \in Range(Append(s, x)) PROVE y \in Range(s) \cup {x}
  <2>1. PICK k \in 1..(Len(s) + 1) : Append(s, x)[k] = y
    BY <1>2 DEF Range
  <2>2. CASE k = Len(s) + 1
    BY <1>1, <2>1, <2>2
  <2>3. CASE k # Len(s) + 1
    <3>1. k \in 1..Len(s)
      BY <1>1, <2>3
    <3>2. s[k] = y
      BY <1>1, <2>1, <3>1
    <3> QED
      BY <1>2, <3>1, <3>2 DEF Range
  <2> QED
    BY <2>2, <2>3
<1>4. ASSUME NEW y \in Range(s) \cup {x} PROVE y \in Range(Append(s, x))
  <2>1. CASE y = x
    <3>1. Len(s) + 1 \in 1..(Len(s) + 1)
      BY <1>1
    <3> QED
      BY <1>1, <1>2, <2>1, <3>1 DEF Range
  <2>2. CASE y \in Range(s)
    <3>1. PICK k \in 1..Len(s) : s[k] = y
      BY <1>2, <2>2 DEF Range
    <3>2. k \in 1..(Len(s) + 1) /\ Append(s, x)[k] = y
      BY <1>1, <3>1
    <3> QED
      BY <1>2, <3>2 DEF Range
  <2> QED
    BY <2>1, <2>2
<1> QED
  BY <1>1, <1>3, <1>4 DEF Longer

LEMMA FrontIs ==
  ASSUME NEW S, NEW s \in Seq(S), s # <<>>
  PROVE  /\ Len(s) \in Nat /\ Len(s) >= 1 /\ Last(s) = s[Len(s)] /\ Last(s) \in S
         /\ Front(s) \in Seq(S) /\ Len(Front(s)) = Len(s) - 1
         /\ \A k \in 1..(Len(s) - 1) : Front(s)[k] = s[k]
         /\ Range(s) = Range(Front(s)) \cup {Last(s)}
         /\ Front(s) = <<>> <=> Len(s) = 1
<1>1. Len(s) \in Nat /\ Len(s) >= 1 /\ Last(s) = s[Len(s)] /\ Last(s) \in S
  BY DEF Last
<1>2. Front(s) = [k \in 1..(Len(s) - 1) |-> s[k]]
  BY <1>1 DEF Front, SubSeq
<1>3. /\ Front(s) \in Seq(S) /\ Len(Front(s)) = Len(s) - 1
      /\ \A k \in 1..(Len(s) - 1) : Front(s)[k] = s[k]
      /\ DOMAIN Front(s) = 1..(Len(s) - 1) /\ DOMAIN s = 1..Len(s)
  BY <1>1, <1>2
<1>4. ASSUME NEW y \in Range(s) PROVE y \in Range(Front(s)) \cup {Last(s)}
  <2>1. PICK k \in 1..Len(s) : s[k] = y
    BY <1>3, <1>4 DEF Range
  <2>2. k = Len(s) \/ k \in 1..(Len(s) - 1)
    BY <1>1
  <2> QED
    BY <1>1, <1>3, <2>1, <2>2 DEF Range
<1>5. ASSUME NEW y \in Range(Front(s)) \cup {Last(s)} PROVE y \in Range(s)
  <2>1. Len(s) \in 1..Len(s) /\ \A k \in 1..(Len(s) - 1) : k \in 1..Len(s)
    BY <1>1
  <2> QED
    BY <1>1, <1>3, <2>1 DEF Range
<1>6. Front(s) = <<>> <=> Len(s) = 1
  BY <1>1, <1>3
<1> QED
  BY <1>1, <1>3, <1>4, <1>5, <1>6

\* The search follows the next edge of b, which leads to t.
Follows(g, st, or, ne, b, t, st2, ne2) ==
  /\ st # <<>> /\ b = Last(st) /\ ne[b] < Len(g[b]) /\ t = g[b][ne[b] + 1]
  /\ ne2 = [ne EXCEPT ![b] = ne[b] + 1]
  /\ st2 = IF t \in Range(st) \cup Range(or) THEN st ELSE Append(st, t)

LEMMA SearchFollows ==
  ASSUME NEW g, NEW e, NEW st, NEW or, NEW ne, NEW b, NEW t, NEW st2, NEW ne2,
         IsGraph(g, e), Searching(g, e, st, or, ne), Follows(g, st, or, ne, b, t, st2, ne2)
  PROVE  Searching(g, e, st2, or, ne2)
<1> st # <<>> /\ b = Last(st) /\ ne[b] < Len(g[b]) /\ t = g[b][ne[b] + 1]
    /\ ne2 = [ne EXCEPT ![b] = ne[b] + 1]
    /\ st2 = IF t \in Range(st) \cup Range(or) THEN st ELSE Append(st, t)
  BY DEF Follows
<1>1. /\ st \in Seq(DOMAIN g) /\ or \in Seq(DOMAIN g)
      /\ ne \in [DOMAIN g -> Nat] /\ (\A c \in DOMAIN g : ne[c] <= Len(g[c]))
      /\ Distinct(st) /\ Distinct(or) /\ Range(st) \cap Range(or) = {}
  BY DEF Searching
<1>2. /\ Len(st) \in Nat /\ Len(st) >= 1 /\ b = st[Len(st)] /\ b \in DOMAIN g
      /\ Range(st) = Range(Front(st)) \cup {Last(st)}
  BY <1>1, FrontIs
<1>3. b \in Range(st) /\ b \notin Range(or)
  BY <1>1, <1>2
<1>4. \A c \in DOMAIN g : g[c] \in Seq(DOMAIN g) /\ Len(g[c]) \in Nat
  BY DEF IsGraph
<1>5. ne[b] + 1 \in 1..Len(g[b]) /\ t \in DOMAIN g /\ t \in Range(g[b])
  <2>1. ne[b] \in Nat /\ Len(g[b]) \in Nat /\ g[b] \in Seq(DOMAIN g)
    BY <1>1, <1>2, <1>4
  <2>2. ne[b] + 1 \in 1..Len(g[b])
    BY <2>1
  <2>3. DOMAIN g[b] = 1..Len(g[b]) /\ t \in DOMAIN g
    BY <2>1, <2>2
  <2> QED
    BY <2>2, <2>3 DEF Range
<1>6. /\ ne2 \in [DOMAIN g -> Nat] /\ ne2[b] = ne[b] + 1
      /\ \A c \in DOMAIN g : c # b => ne2[c] = ne[c]
  BY <1>1, <1>2
<1>7. \A c \in DOMAIN g : ne2[c] <= Len(g[c])
  <2> SUFFICES ASSUME NEW c \in DOMAIN g PROVE ne2[c] <= Len(g[c])
    OBVIOUS
  <2>1. CASE c = b
    BY <1>5, <1>6, <2>1
  <2>2. CASE c # b
    BY <1>1, <1>6, <2>2
  <2> QED
    BY <2>1, <2>2
<1> DEFINE new == t \notin Range(st) \cup Range(or)
<1>8. new => /\ st2 = Append(st, t) /\ st2 \in Seq(DOMAIN g) /\ Len(st2) = Len(st) + 1
             /\ st2 # <<>> /\ st2[Len(st) + 1] = t
             /\ \A k \in 1..Len(st) : st2[k] = st[k]
             /\ Range(st2) = Range(st) \cup {t}
  <2>1. Longer(DOMAIN g, st, t, Append(st, t))
    BY <1>1, <1>5, AppendIs
  <2> QED
    BY <2>1 DEF Longer
<1>9. ~new => st2 = st
  OBVIOUS
<1>10. st2 \in Seq(DOMAIN g) /\ st2 # <<>>
  BY <1>1, <1>8, <1>9
<1>11. Range(st) \subseteq Range(st2) /\ t \in Range(st2) \cup Range(or) /\ Range(st2) \subseteq Range(st) \cup {t}
  BY <1>8, <1>9
<1>12. Range(st2) \cap Range(or) = {}
  BY <1>1, <1>8, <1>9
<1>13. Distinct(st2)
  <2>1. CASE ~new
    BY <1>1, <1>9, <2>1
  <2>2. CASE new
    <3> SUFFICES ASSUME NEW j \in 1..Len(st2), NEW k \in 1..Len(st2), st2[j] = st2[k] PROVE j = k
      BY DEF Distinct
    <3>1. \A l \in 1..Len(st) : st[l] \in Range(st)
      BY <1>1, InRange
    <3>2. \A l \in 1..Len(st2) : l = Len(st) + 1 \/ l \in 1..Len(st)
      BY <1>2, <1>8, <2>2
    <3>3. \A l \in 1..Len(st) : st2[l] # t
      BY <1>8, <2>2, <3>1
    <3>4. CASE j \in 1..Len(st) /\ k \in 1..Len(st)
      BY <1>1, <1>8, <2>2, <3>4 DEF Distinct
    <3>5. CASE j = Len(st) + 1
      BY <1>8, <2>2, <3>2, <3>3, <3>5
    <3>6. CASE k = Len(st) + 1
      BY <1>8, <2>2, <3>2, <3>3, <3>6
    <3> QED
      BY <3>2, <3>4, <3>5, <3>6
  <2> QED
    BY <2>1, <2>2
<1>14. \A c \in DOMAIN g : \A k \in 1..ne2[c] : g[c][k] \in Range(st2) \cup Range(or)
  <2> SUFFICES ASSUME NEW c \in DOMAIN g, NEW k \in 1..ne2[c] PROVE g[c][k] \in Range(st2) \cup Range(or)
    OBVIOUS
  <2>1. CASE c = b /\ k = ne[b] + 1
    BY <1>11, <2>1
  <2>2. CASE ~(c = b /\ k = ne[b] + 1)
    <3>1. k \in 1..ne[c]
      <4>1. ne[c] \in Nat /\ ne[b] \in Nat
        BY <1>1, <1>2
      <4>2. CASE c = b
        BY <1>6, <2>2, <4>1, <4>2
      <4>3. CASE c # b
        BY <1>6, <4>3
      <4> QED
        BY <4>2, <4>3
    <3>2. g[c][k] \in Range(st) \cup Range(or)
      BY <3>1 DEF Searching
    <3> QED
      BY <1>11, <3>2
  <2> QED
    BY <2>1, <2>2
<1>15. \A c \in Range(or) : ne2[c] = Len(g[c])
  <2> SUFFICES ASSUME NEW c \in Range(or) PROVE ne2[c] = Len(g[c])
    OBVIOUS
  <2>1. c \in DOMAIN g
    BY <1>1 DEF Range
  <2>2. ne[c] = Len(g[c])
    BY DEF Searching
  <2> QED
    BY <1>3, <1>6, <2>1, <2>2
<1>16. st2[1] = e
  <2>1. st[1] = e
    BY DEF Searching
  <2> QED
    BY <1>2, <1>8, <1>9, <2>1
<1>17. \A k \in 2..Len(st2) : st2[k] \in Range(g[st2[k - 1]])
  <2>1. \A k \in 2..Len(st) : st[k] \in Range(g[st[k - 1]])
    BY DEF Searching
  <2>2. CASE ~new
    BY <1>9, <2>1, <2>2
  <2>3. CASE new
    <3> SUFFICES ASSUME NEW k \in 2..Len(st2) PROVE st2[k] \in Range(g[st2[k - 1]])
      OBVIOUS
    <3>1. k = Len(st) + 1 \/ k \in 2..Len(st)
      BY <1>2, <1>8, <2>3
    <3>2. CASE k = Len(st) + 1
      <4>1. k - 1 = Len(st) /\ Len(st) \in 1..Len(st)
        BY <1>2, <3>2
      <4>2. st2[k - 1] = b /\ st2[k] = t
        BY <1>2, <1>8, <2>3, <3>2, <4>1
      <4> QED
        BY <1>5, <4>2
    <3>3. CASE k \in 2..Len(st)
      <4>1. k \in 1..Len(st) /\ k - 1 \in 1..Len(st)
        BY <1>2, <3>3
      <4> QED
        BY <1>8, <2>1, <2>3, <3>3, <4>1
    <3> QED
      BY <3>1, <3>2, <3>3
  <2> QED
    BY <2>2, <2>3
<1>18. \A k \in 1..Len(or) : Entered(g, e, st2, or, or[k], k)
  <2> SUFFICES ASSUME NEW k \in 1..Len(or) PROVE Entered(g, e, st2, or, or[k], k)
    OBVIOUS
  <2>1. Entered(g, e, st, or, or[k], k)
    BY DEF Searching
  <2> QED
    BY <1>11, <2>1 DEF Entered
<1> QED
  BY <1>1, <1>6, <1>7, <1>10, <1>12, <1>13, <1>14, <1>15, <1>16, <1>17, <1>18 DEF Searching

\* The search leaves the block on top, all of whose edges were followed.
LEMMA SearchLeaves ==
  ASSUME NEW g, NEW e, NEW st, NEW or, NEW ne,
         IsGraph(g, e), Searching(g, e, st, or, ne), st # <<>>, ne[Last(st)] = Len(g[Last(st)])
  PROVE  Searching(g, e, Front(st), Append(or, Last(st)), ne)
<1> DEFINE b == Last(st)
           st2 == Front(st)
           or2 == Append(or, b)
<1>1. /\ st \in Seq(DOMAIN g) /\ or \in Seq(DOMAIN g)
      /\ ne \in [DOMAIN g -> Nat] /\ (\A c \in DOMAIN g : ne[c] <= Len(g[c]))
      /\ Distinct(st) /\ Distinct(or) /\ Range(st) \cap Range(or) = {}
  BY DEF Searching
<1>2. /\ Len(st) \in Nat /\ Len(st) >= 1 /\ b = st[Len(st)] /\ b \in DOMAIN g
      /\ st2 \in Seq(DOMAIN g) /\ Len(st2) = Len(st) - 1
      /\ (\A k \in 1..(Len(st) - 1) : st2[k] = st[k])
      /\ Range(st) = Range(st2) \cup {b}
      /\ (st2 = <<>> <=> Len(st) = 1)
  BY <1>1, FrontIs
<1>3. /\ or2 \in Seq(DOMAIN g) /\ Len(or2) = Len(or) + 1 /\ Len(or) \in Nat
      /\ or2 # <<>> /\ or2[Len(or) + 1] = b
      /\ (\A k \in 1..Len(or) : or2[k] = or[k])
      /\ Range(or2) = Range(or) \cup {b}
  <2>1. Longer(DOMAIN g, or, b, or2)
    BY <1>1, <1>2, AppendIs
  <2> HIDE DEF or2
  <2> QED
    BY <2>1 DEF Longer
<1>4. st[1] = e
  BY DEF Searching
<1> HIDE DEF b, st2, or2
<1>5. b \notin Range(st2)
  <2> SUFFICES ASSUME b \in Range(st2) PROVE FALSE
    OBVIOUS
  <2>1. PICK k \in 1..Len(st2) : st2[k] = b
    BY <1>2 DEF Range
  <2>2. k \in 1..(Len(st) - 1) /\ k \in 1..Len(st) /\ Len(st) \in 1..Len(st) /\ k # Len(st)
    BY <1>2
  <2>3. st[k] = st[Len(st)]
    BY <1>2, <2>1, <2>2
  <2> QED
    BY <1>1, <2>2, <2>3 DEF Distinct
<1>6. Distinct(st2)
  <2>1. \A k \in 1..Len(st2) : k \in 1..(Len(st) - 1) /\ k \in 1..Len(st)
    BY <1>2
  <2> QED
    BY <1>1, <1>2, <2>1 DEF Distinct
<1>7. Distinct(or2)
  <2> SUFFICES ASSUME NEW j \in 1..Len(or2), NEW k \in 1..Len(or2), or2[j] = or2[k] PROVE j = k
    BY DEF Distinct
  <2>1. \A l \in 1..Len(or) : or[l] \in Range(or)
    BY <1>1, InRange
  <2>2. \A l \in 1..Len(or2) : l = Len(or) + 1 \/ l \in 1..Len(or)
    BY <1>3
  <2>3. \A l \in 1..Len(or) : or2[l] # b
    BY <1>1, <1>2, <1>3, <2>1
  <2>4. CASE j \in 1..Len(or) /\ k \in 1..Len(or)
    BY <1>1, <1>3, <2>4 DEF Distinct
  <2>5. CASE j = Len(or) + 1
    BY <1>3, <2>2, <2>3, <2>5
  <2>6. CASE k = Len(or) + 1
    BY <1>3, <2>2, <2>3, <2>6
  <2> QED
    BY <2>2, <2>4, <2>5, <2>6
<1>8. Range(st2) \cap Range(or2) = {} /\ Range(st2) \cup Range(or2) = Range(st) \cup Range(or)
  BY <1>1, <1>2, <1>3, <1>5
<1>9. \A c \in DOMAIN g : \A k \in 1..ne[c] : g[c][k] \in Range(st2) \cup Range(or2)
  BY <1>8 DEF Searching
<1>10. \A c \in Range(or2) : ne[c] = Len(g[c])
  BY <1>3 DEF Searching, b
<1>11. IF st2 = <<>> THEN or2 # <<>> /\ or2[Len(or2)] = e ELSE st2[1] = e
  <2>1. CASE st2 = <<>>
    BY <1>2, <1>3, <1>4, <2>1
  <2>2. CASE st2 # <<>>
    BY <1>2, <1>4, <2>2
  <2> QED
    BY <2>1, <2>2
<1>12. \A k \in 2..Len(st2) : st2[k] \in Range(g[st2[k - 1]])
  <2> SUFFICES ASSUME NEW k \in 2..Len(st2) PROVE st2[k] \in Range(g[st2[k - 1]])
    OBVIOUS
  <2>1. k \in 1..(Len(st) - 1) /\ k - 1 \in 1..(Len(st) - 1) /\ k \in 2..Len(st)
    BY <1>2
  <2>2. st[k] \in Range(g[st[k - 1]])
    BY <2>1 DEF Searching
  <2> QED
    BY <1>2, <2>1, <2>2
<1>13. ASSUME NEW k \in 1..Len(or2) PROVE Entered(g, e, st2, or2, or2[k], k)
  <2>1. CASE k = Len(or) + 1
    <3>1. or2[k] = b
      BY <1>3, <2>1
    <3>2. CASE Len(st) = 1
      BY <1>2, <1>4, <3>1, <3>2 DEF Entered
    <3>3. CASE Len(st) # 1
      <4>1. Len(st) \in 2..Len(st) /\ Len(st) - 1 \in 1..(Len(st) - 1) /\ Len(st) - 1 \in 1..Len(st2)
        BY <1>2, <3>3
      <4>2. b \in Range(g[st[Len(st) - 1]])
        BY <1>2, <4>1 DEF Searching
      <4>3. st[Len(st) - 1] = st2[Len(st) - 1] /\ st2[Len(st) - 1] \in Range(st2) /\ st2[Len(st) - 1] \in DOMAIN g
        BY <1>2, <4>1 DEF Range
      <4> QED
        BY <3>1, <4>2, <4>3 DEF Entered
    <3> QED
      BY <3>2, <3>3
  <2>2. CASE k \in 1..Len(or)
    <3>1. or2[k] = or[k] /\ Entered(g, e, st, or, or[k], k)
      BY <1>3, <2>2 DEF Searching
    <3>2. CASE or[k] = e
      BY <3>1, <3>2 DEF Entered
    <3>3. CASE or[k] # e
      <4>1. PICK p \in DOMAIN g : /\ or[k] \in Range(g[p])
                                  /\ p \in Range(st) \/ \E l \in (k + 1)..Len(or) : or[l] = p
        BY <3>1, <3>3 DEF Entered
      <4>2. p \in Range(st2) \/ \E l \in (k + 1)..Len(or2) : or2[l] = p
        <5>1. CASE p \in Range(st2)
          BY <5>1
        <5>2. CASE p = b
          <6>1. Len(or) + 1 \in (k + 1)..Len(or2)
            BY <1>3, <2>2
          <6> QED
            BY <1>3, <5>2, <6>1
        <5>3. ASSUME NEW l \in (k + 1)..Len(or), or[l] = p PROVE l \in (k + 1)..Len(or2) /\ or2[l] = p
          <6>1. l \in 1..Len(or) /\ l \in (k + 1)..Len(or2)
            BY <1>3, <2>2
          <6> QED
            BY <1>3, <5>3, <6>1
        <5> QED
          BY <1>2, <4>1, <5>1, <5>2, <5>3
      <4> QED
        BY <3>1, <4>1, <4>2 DEF Entered
    <3> QED
      BY <3>2, <3>3
  <2> QED
    BY <1>3, <2>1, <2>2
<1> QED
  BY <1>1, <1>2, <1>3, <1>6, <1>7, <1>8, <1>9, <1>10, <1>11, <1>12, <1>13 DEF Searching, b, st2, or2

\* What the search is done with is what the passes need.
LEMMA SearchEnds ==
  ASSUME IsGraph(succs, entry), Searching(succs, entry, <<>>, order, nextEdge)
  PROVE  Searched
<1>1. /\ order \in Seq(Blocks) /\ Distinct(order) /\ Len(order) \in Nat
      /\ order # <<>> /\ order[Len(order)] = entry
  BY DEF Searching, Blocks
<1>2. Ordered
  BY <1>1 DEF Ordered, Distinct
<1>3. Range(<<>>) = {}
  BY DEF Range
<1>4. ASSUME NEW b \in Reached PROVE Range(succs[b]) \subseteq Reached
  <2>1. b \in Blocks /\ succs[b] \in Seq(Blocks)
    BY <1>1 DEF Reached, Range, IsGraph, Blocks
  <2>2. nextEdge[b] = Len(succs[b]) /\ \A k \in 1..nextEdge[b] : succs[b][k] \in Reached
    BY <1>3, <2>1 DEF Searching, Reached, Blocks
  <2> QED
    BY <2>1, <2>2 DEF Range
<1>5. ASSUME NEW k \in 1..(n - 1) PROVE \E j \in Into[k] : j < k
  <2>1. n = Len(order) /\ n \in Nat /\ DOMAIN order = 1..n
    BY <1>1 DEF n
  <2> HIDE DEF n
  <2>2. /\ n - k \in 1..n /\ n \in 1..n /\ n - k # n /\ k \in 0..(n - 1)
        /\ rpo[k] = order[n - k]
    BY <2>1 DEF rpo
  <2>3. order[n - k] # entry
    BY <1>1, <2>1, <2>2 DEF Distinct
  <2>4. Entered(succs, entry, <<>>, order, order[n - k], n - k)
    BY <2>1, <2>2 DEF Searching
  <2>5. PICK p \in Blocks : /\ order[n - k] \in Range(succs[p])
                            /\ \E l \in ((n - k) + 1)..Len(order) : order[l] = p
    BY <1>3, <2>3, <2>4 DEF Entered, Blocks
  <2>6. PICK l \in ((n - k) + 1)..n : order[l] = p
    BY <2>1, <2>5
  <2>7. n - l \in 0..(n - 1) /\ n - l < k /\ n - (n - l) = l
    BY <2>1, <2>2
  <2>8. rpo[n - l] = p
    BY <2>6, <2>7 DEF rpo
  <2>9. n - l \in Into[k]
    BY <2>2, <2>5, <2>7, <2>8 DEF Into
  <2> QED
    BY <2>7, <2>9
<1> QED
  BY <1>1, <1>2, <1>4, <1>5 DEF Searched
-----------------------------------------------------------------------------
(* The walk of the tree, over places: st are the places the walk is inside *)
(* of, in and out the clock when it came to a place and when it left.      *)

\* A tree of all places.
IsWhole(m, d) == IsTree(m, d) /\ \A k \in 0..(m - 1) : d[k] # -1

\* The time spent in a place is part of the time in each of its dominators,
Nested(m, d, in, out) ==
  \A x, y \in 0..(m - 1) :
    in[x] # -1 /\ in[y] # -1 /\ x # y /\ x \in Climbs(m, d, y) =>
      /\ in[x] < in[y]
      /\ out[x] # -1 => out[y] # -1 /\ out[y] < out[x]

\* and apart from that of the places that do not dominate it.
Apart(m, d, in, out) ==
  \A x, y \in 0..(m - 1) :
    in[x] # -1 /\ in[y] # -1 /\ x \notin Climbs(m, d, y) /\ y \notin Climbs(m, d, x) =>
      \/ out[x] # -1 /\ out[x] < in[y]
      \/ out[y] # -1 /\ out[y] < in[x]

\* The walk in progress: it is below all places of the stack, and out of all
\* others it has come to.
Walking(m, d, st, in, out, clk) ==
  /\ clk \in Nat /\ st \in Seq(0..(m - 1)) /\ Distinct(st)
  /\ in \in [0..(m - 1) -> -1..(clk - 1)] /\ out \in [0..(m - 1) -> -1..(clk - 1)]
  /\ in[0] # -1
  /\ \A x \in 0..(m - 1) : out[x] # -1 =>
       in[x] # -1 /\ in[x] < out[x] /\ \A c \in 1..(m - 1) : d[c] = x => in[c] # -1
  /\ \A x \in 1..(m - 1) : in[x] # -1 => in[d[x]] # -1
  /\ \A k \in 1..Len(st) : in[st[k]] # -1 /\ out[st[k]] = -1
  /\ st # <<>> => st[1] = 0
  /\ \A k \in 2..Len(st) : st[k] >= 1 /\ d[st[k]] = st[k - 1]
  /\ \A x \in 0..(m - 1) : in[x] # -1 /\ out[x] = -1 => st # <<>> /\ x \in Climbs(m, d, Last(st))
  /\ Nested(m, d, in, out) /\ Apart(m, d, in, out)

LEMMA WalkStarts ==
  ASSUME NEW m, NEW d, IsWhole(m, d), NEW in, NEW out,
         in = [x \in 0..(m - 1) |-> IF x = 0 THEN 0 ELSE -1], out = [x \in 0..(m - 1) |-> -1]
  PROVE  Walking(m, d, <<0>>, in, out, 1)
<1>1. m \in Nat /\ 0 \in 0..(m - 1) /\ IsTree(m, d)
  BY DEF IsWhole, IsTree
<1>2. /\ <<0>> \in Seq(0..(m - 1)) /\ Len(<<0>>) = 1 /\ <<0>>[1] = 0 /\ <<0>> # <<>> /\ Last(<<0>>) = 0
  BY <1>1 DEF Last
<1>3. Distinct(<<0>>)
  BY <1>2 DEF Distinct
<1>4. \A x \in 0..(m - 1) : (in[x] # -1 <=> x = 0) /\ out[x] = -1
  OBVIOUS
<1>5. Climbs(m, d, 0) = {0}
  BY <1>1, ClimbStep
<1>6. Nested(m, d, in, out) /\ Apart(m, d, in, out)
  BY <1>4, <1>5 DEF Nested, Apart
<1>7. in \in [0..(m - 1) -> -1..(1 - 1)] /\ out \in [0..(m - 1) -> -1..(1 - 1)]
  OBVIOUS
<1>8. \A x \in 1..(m - 1) : x \in 0..(m - 1) /\ x # 0
  OBVIOUS
<1> QED
  BY <1>1, <1>2, <1>3, <1>4, <1>5, <1>6, <1>7, <1>8 DEF Walking

\* What dominates a place the walk has come to, it has come to.
LEMMA CameAbove ==
  ASSUME NEW m, NEW d, NEW st, NEW in, NEW out, NEW clk, IsWhole(m, d), Walking(m, d, st, in, out, clk),
         NEW x \in 0..(m - 1), in[x] # -1, NEW y \in Climbs(m, d, x)
  PROVE  y \in 0..(m - 1) /\ in[y] # -1
<1> DEFINE X == {z \in Climbs(m, d, x) : in[z] # -1}
<1>1. IsTree(m, d) /\ d[x] # -1
  BY DEF IsWhole
<1>2. x \in X /\ \A z \in Climbs(m, d, x) : z >= 1 => d[z] \in Climbs(m, d, x)
  BY <1>1, ClimbIs
<1>3. \A z \in X : z \in 1..(m - 1) => d[z] \in X
  BY <1>2 DEF Walking
<1> HIDE DEF X
<1>4. Climbs(m, d, x) \subseteq X
  BY <1>1, <1>2, <1>3, ClimbIs
<1>5. y \in 0..(m - 1)
  BY <1>1, ClimbFurther
<1> QED
  BY <1>4, <1>5 DEF X

\* The walk comes to a place whose dominator is on top.
LEMMA WalkDescends ==
  ASSUME NEW m, NEW d, NEW st, NEW in, NEW out, NEW clk, IsWhole(m, d), Walking(m, d, st, in, out, clk),
         st # <<>>, NEW c \in 1..(m - 1), d[c] = Last(st), in[c] = -1,
         NEW in2, in2 = [in EXCEPT ![c] = clk]
  PROVE  Walking(m, d, Append(st, c), in2, out, clk + 1)
<1> DEFINE t == Last(st)
           st2 == Append(st, c)
           C(x) == Climbs(m, d, x)
<1>1. /\ clk \in Nat /\ st \in Seq(0..(m - 1)) /\ Distinct(st)
      /\ in \in [0..(m - 1) -> -1..(clk - 1)] /\ out \in [0..(m - 1) -> -1..(clk - 1)]
      /\ in[0] # -1
  BY DEF Walking
<1>2. IsTree(m, d) /\ m \in Nat /\ c \in 0..(m - 1) /\ \A k \in 0..(m - 1) : d[k] # -1
  BY DEF IsWhole, IsTree
<1>3. /\ Len(st) \in Nat /\ Len(st) >= 1 /\ t = st[Len(st)] /\ t \in 0..(m - 1)
  BY <1>1, FrontIs
<1>4. /\ st2 \in Seq(0..(m - 1)) /\ Len(st2) = Len(st) + 1
      /\ st2 # <<>> /\ st2[Len(st) + 1] = c
      /\ \A k \in 1..Len(st) : st2[k] = st[k]
  <2>1. Longer(0..(m - 1), st, c, st2)
    BY <1>1, <1>2, AppendIs
  <2> HIDE DEF st2
  <2> QED
    BY <2>1 DEF Longer
<1>5. Last(st2) = c
  BY <1>4 DEF Last
<1>6. /\ in2 \in [0..(m - 1) -> -1..((clk + 1) - 1)] /\ out \in [0..(m - 1) -> -1..((clk + 1) - 1)]
      /\ in2[c] = clk /\ in2[c] # -1 /\ \A x \in 0..(m - 1) : x # c => in2[x] = in[x]
  <2>1. (clk + 1) - 1 = clk /\ -1..(clk - 1) \subseteq -1..clk /\ clk \in -1..clk /\ clk # -1
    BY <1>1
  <2>2. in2 \in [0..(m - 1) -> -1..clk]
    BY <1>1, <1>2, <2>1
  <2>3. out \in [0..(m - 1) -> -1..clk]
    BY <1>1, <2>1
  <2> QED
    BY <1>1, <1>2, <2>1, <2>2, <2>3
<1>7. in[t] # -1 /\ out[t] = -1
  <2>1. Len(st) \in 1..Len(st)
    BY <1>3
  <2> QED
    BY <1>3, <2>1 DEF Walking
<1>8. C(c) = {c} \cup C(t)
  BY <1>2, ClimbStep
<1>9. out[c] = -1
  BY <1>2 DEF Walking
<1> HIDE DEF t, st2
<1>10. Distinct(st2)
  <2> SUFFICES ASSUME NEW j \in 1..Len(st2), NEW k \in 1..Len(st2), st2[j] = st2[k] PROVE j = k
    BY DEF Distinct
  <2>1. \A l \in 1..Len(st2) : l = Len(st) + 1 \/ l \in 1..Len(st)
    BY <1>3, <1>4
  <2>2. \A l \in 1..Len(st) : st2[l] # c
    BY <1>4 DEF Walking
  <2>3. CASE j \in 1..Len(st) /\ k \in 1..Len(st)
    BY <1>1, <1>4, <2>3 DEF Distinct
  <2>4. CASE j = Len(st) + 1
    BY <1>4, <2>1, <2>2, <2>4
  <2>5. CASE k = Len(st) + 1
    BY <1>4, <2>1, <2>2, <2>5
  <2> QED
    BY <2>1, <2>3, <2>4, <2>5
<1>11. \A x \in 0..(m - 1) : out[x] # -1 =>
         in2[x] # -1 /\ in2[x] < out[x] /\ \A k \in 1..(m - 1) : d[k] = x => in2[k] # -1
  <2> SUFFICES ASSUME NEW x \in 0..(m - 1), out[x] # -1
               PROVE  in2[x] # -1 /\ in2[x] < out[x] /\ \A k \in 1..(m - 1) : d[k] = x => in2[k] # -1
    OBVIOUS
  <2>1. in[x] # -1 /\ in[x] < out[x] /\ \A k \in 1..(m - 1) : d[k] = x => in[k] # -1
    BY DEF Walking
  <2>2. x # c
    BY <1>9
  <2>3. \A k \in 1..(m - 1) : k \in 0..(m - 1)
    OBVIOUS
  <2> QED
    BY <1>6, <2>1, <2>2, <2>3
<1>12. \A x \in 1..(m - 1) : in2[x] # -1 => in2[d[x]] # -1
  <2> SUFFICES ASSUME NEW x \in 1..(m - 1), in2[x] # -1 PROVE in2[d[x]] # -1
    OBVIOUS
  <2>1. x \in 0..(m - 1) /\ d[x] \in 0..(m - 1)
    BY <1>2, ClimbStep
  <2>2. CASE x = c
    BY <1>3, <1>6, <1>7, <2>1, <2>2 DEF t
  <2>3. CASE x # c
    <3>1. in[d[x]] # -1
      BY <1>6, <2>1, <2>3 DEF Walking
    <3> QED
      BY <1>6, <2>1, <3>1
  <2> QED
    BY <2>2, <2>3
<1>13. \A k \in 1..Len(st2) : in2[st2[k]] # -1 /\ out[st2[k]] = -1
  <2> SUFFICES ASSUME NEW k \in 1..Len(st2) PROVE in2[st2[k]] # -1 /\ out[st2[k]] = -1
    OBVIOUS
  <2>1. CASE k = Len(st) + 1
    BY <1>4, <1>6, <1>9, <2>1
  <2>2. CASE k \in 1..Len(st)
    <3>1. st[k] \in 0..(m - 1) /\ in[st[k]] # -1 /\ out[st[k]] = -1
      BY <1>1, <2>2, InRange DEF Walking
    <3> QED
      BY <1>4, <1>6, <2>2, <3>1
  <2> QED
    BY <1>3, <1>4, <2>1, <2>2
<1>14. st2[1] = 0
  <2>1. st[1] = 0 /\ 1 \in 1..Len(st)
    BY <1>3 DEF Walking
  <2> QED
    BY <1>4, <2>1
<1>15. \A k \in 2..Len(st2) : st2[k] >= 1 /\ d[st2[k]] = st2[k - 1]
  <2> SUFFICES ASSUME NEW k \in 2..Len(st2) PROVE st2[k] >= 1 /\ d[st2[k]] = st2[k - 1]
    OBVIOUS
  <2>1. CASE k = Len(st) + 1
    <3>1. k - 1 = Len(st) /\ Len(st) \in 1..Len(st)
      BY <1>3, <2>1
    <3> QED
      BY <1>3, <1>4, <2>1, <3>1 DEF t
  <2>2. CASE k \in 2..Len(st)
    <3>1. k \in 1..Len(st) /\ k - 1 \in 1..Len(st)
      BY <1>3, <2>2
    <3>2. st[k] >= 1 /\ d[st[k]] = st[k - 1]
      BY <2>2 DEF Walking
    <3> QED
      BY <1>4, <3>1, <3>2
  <2> QED
    BY <1>3, <1>4, <2>1, <2>2
<1>16. \A x \in 0..(m - 1) : in2[x] # -1 /\ out[x] = -1 => x \in C(c)
  <2> SUFFICES ASSUME NEW x \in 0..(m - 1), in2[x] # -1, out[x] = -1, x # c PROVE x \in C(c)
    BY <1>8
  <2>1. x \in C(t)
    BY <1>6 DEF Walking, t
  <2> QED
    BY <1>8, <2>1
<1>17. \A y \in 0..(m - 1) : in[y] # -1 => c \notin C(y)
  BY CameAbove
<1>18. Nested(m, d, in2, out)
  <2> SUFFICES ASSUME NEW x \in 0..(m - 1), NEW y \in 0..(m - 1),
                      in2[x] # -1, in2[y] # -1, x # y, x \in C(y)
               PROVE  in2[x] < in2[y] /\ (out[x] # -1 => out[y] # -1 /\ out[y] < out[x])
    BY DEF Nested
  <2>1. CASE x # c /\ y # c
    BY <1>6, <2>1 DEF Walking, Nested
  <2>2. CASE x = c
    BY <1>6, <1>17, <2>2
  <2>3. CASE y = c
    <3>1. x \in C(t) /\ in[x] # -1 /\ in[x] \in -1..(clk - 1) /\ in2[x] = in[x]
      BY <1>1, <1>6, <1>8, <2>3
    <3>2. out[x] = -1
      <4>1. CASE x = t
        BY <1>7, <4>1
      <4>2. CASE x # t
        BY <1>3, <1>7, <3>1, <4>2 DEF Walking, Nested
      <4> QED
        BY <4>1, <4>2
    <3> QED
      BY <1>1, <1>6, <2>3, <3>1, <3>2
  <2> QED
    BY <2>1, <2>2, <2>3
<1>19. Apart(m, d, in2, out)
  <2>1. ASSUME NEW x \in 0..(m - 1), in2[x] # -1, x # c, x \notin C(c)
        PROVE  out[x] # -1 /\ out[x] < in2[c]
    <3>1. out[x] # -1
      BY <1>16, <2>1
    <3>2. out[x] \in -1..(clk - 1)
      BY <1>1
    <3> QED
      BY <1>1, <1>6, <3>1, <3>2
  <2> SUFFICES ASSUME NEW x \in 0..(m - 1), NEW y \in 0..(m - 1),
                      in2[x] # -1, in2[y] # -1, x \notin C(y), y \notin C(x)
               PROVE  (out[x] # -1 /\ out[x] < in2[y]) \/ (out[y] # -1 /\ out[y] < in2[x])
    BY DEF Apart
  <2>2. CASE x # c /\ y # c
    BY <1>6, <2>2 DEF Walking, Apart
  <2>3. CASE x = c
    <3>1. y # c
      BY <1>8, <2>3
    <3> QED
      BY <2>1, <2>3, <3>1
  <2>4. CASE y = c
    <3>1. x # c
      BY <1>8, <2>4
    <3> QED
      BY <2>1, <2>4, <3>1
  <2> QED
    BY <2>2, <2>3, <2>4
<1>20. clk + 1 \in Nat /\ in2[0] # -1
  BY <1>1, <1>2, <1>6
<1> HIDE DEF C
<1>21. Walking(m, d, st2, in2, out, clk + 1)
  BY <1>4, <1>5, <1>6, <1>10, <1>11, <1>12, <1>13, <1>14, <1>15, <1>16, <1>18, <1>19, <1>20 DEF Walking, C
<1> QED
  BY <1>21 DEF st2

\* The walk leaves the place on top.
LEMMA WalkAscends ==
  ASSUME NEW m, NEW d, NEW st, NEW in, NEW out, NEW clk, IsWhole(m, d), Walking(m, d, st, in, out, clk),
         st # <<>>, \A c \in 1..(m - 1) : d[c] = Last(st) => in[c] # -1,
         NEW out2, out2 = [out EXCEPT ![Last(st)] = clk]
  PROVE  Walking(m, d, Front(st), in, out2, clk + 1)
<1> DEFINE t == Last(st)
           st2 == Front(st)
           C(x) == Climbs(m, d, x)
<1>1. /\ clk \in Nat /\ st \in Seq(0..(m - 1)) /\ Distinct(st)
      /\ in \in [0..(m - 1) -> -1..(clk - 1)] /\ out \in [0..(m - 1) -> -1..(clk - 1)]
      /\ in[0] # -1
  BY DEF Walking
<1>2. IsTree(m, d) /\ m \in Nat /\ \A k \in 0..(m - 1) : d[k] # -1
  BY DEF IsWhole, IsTree
<1>3. /\ Len(st) \in Nat /\ Len(st) >= 1 /\ t = st[Len(st)] /\ t \in 0..(m - 1)
      /\ st2 \in Seq(0..(m - 1)) /\ Len(st2) = Len(st) - 1
      /\ \A k \in 1..(Len(st) - 1) : st2[k] = st[k]
      /\ (st2 = <<>> <=> Len(st) = 1)
  BY <1>1, FrontIs
<1>4. /\ in \in [0..(m - 1) -> -1..((clk + 1) - 1)] /\ out2 \in [0..(m - 1) -> -1..((clk + 1) - 1)]
      /\ out2[t] = clk /\ out2[t] # -1 /\ \A x \in 0..(m - 1) : x # t => out2[x] = out[x]
  <2>1. (clk + 1) - 1 = clk /\ -1..(clk - 1) \subseteq -1..clk /\ clk \in -1..clk /\ clk # -1
    BY <1>1
  <2>2. out2 \in [0..(m - 1) -> -1..clk]
    BY <1>1, <1>3, <2>1
  <2>3. in \in [0..(m - 1) -> -1..clk]
    BY <1>1, <2>1
  <2> QED
    BY <1>1, <1>3, <2>1, <2>2, <2>3
<1>5. in[t] # -1 /\ out[t] = -1
  <2>1. Len(st) \in 1..Len(st)
    BY <1>3
  <2> QED
    BY <1>3, <2>1 DEF Walking
<1>6. in[t] < clk /\ \A x \in 0..(m - 1) : out[x] < clk /\ in[x] < clk
  <2>1. \A z \in -1..(clk - 1) : z < clk
    BY <1>1
  <2> QED
    BY <1>1, <1>3, <2>1
<1>7. \A k \in 1..Len(st2) : k \in 1..Len(st) /\ k \in 1..(Len(st) - 1) /\ st2[k] = st[k] /\ st[k] # t
  <2> SUFFICES ASSUME NEW k \in 1..Len(st2)
               PROVE  k \in 1..Len(st) /\ k \in 1..(Len(st) - 1) /\ st2[k] = st[k] /\ st[k] # t
    OBVIOUS
  <2>1. k \in 1..Len(st) /\ k \in 1..(Len(st) - 1) /\ Len(st) \in 1..Len(st) /\ k # Len(st)
    BY <1>3
  <2> QED
    BY <1>1, <1>3, <2>1 DEF Distinct
<1> HIDE DEF t, st2
<1>8. Distinct(st2)
  BY <1>1, <1>7 DEF Distinct
<1>9. \A x \in 0..(m - 1) : out2[x] # -1 =>
        in[x] # -1 /\ in[x] < out2[x] /\ \A k \in 1..(m - 1) : d[k] = x => in[k] # -1
  <2> SUFFICES ASSUME NEW x \in 0..(m - 1), out2[x] # -1
               PROVE  in[x] # -1 /\ in[x] < out2[x] /\ \A k \in 1..(m - 1) : d[k] = x => in[k] # -1
    OBVIOUS
  <2>1. CASE x = t
    BY <1>4, <1>5, <1>6, <2>1 DEF t
  <2>2. CASE x # t
    BY <1>4, <2>2 DEF Walking
  <2> QED
    BY <2>1, <2>2
<1>10. \A k \in 1..Len(st2) : in[st2[k]] # -1 /\ out2[st2[k]] = -1
  <2> SUFFICES ASSUME NEW k \in 1..Len(st2) PROVE in[st2[k]] # -1 /\ out2[st2[k]] = -1
    OBVIOUS
  <2>1. in[st[k]] # -1 /\ out[st[k]] = -1 /\ st[k] \in 0..(m - 1)
    BY <1>1, <1>7, InRange DEF Walking
  <2> QED
    BY <1>4, <1>7, <2>1
<1>11. st2 # <<>> => st2[1] = 0
  <2> SUFFICES ASSUME st2 # <<>> PROVE st2[1] = 0
    OBVIOUS
  <2>1. 1 \in 1..Len(st2) /\ st[1] = 0
    BY <1>3 DEF Walking
  <2> QED
    BY <1>7, <2>1
<1>12. \A k \in 2..Len(st2) : st2[k] >= 1 /\ d[st2[k]] = st2[k - 1]
  <2> SUFFICES ASSUME NEW k \in 2..Len(st2) PROVE st2[k] >= 1 /\ d[st2[k]] = st2[k - 1]
    OBVIOUS
  <2>1. k \in 1..Len(st2) /\ k - 1 \in 1..Len(st2) /\ k \in 2..Len(st)
    BY <1>3
  <2>2. st[k] >= 1 /\ d[st[k]] = st[k - 1]
    BY <2>1 DEF Walking
  <2> QED
    BY <1>7, <2>1, <2>2
<1>13. \A x \in 0..(m - 1) : in[x] # -1 /\ out2[x] = -1 => st2 # <<>> /\ x \in C(Last(st2))
  <2> SUFFICES ASSUME NEW x \in 0..(m - 1), in[x] # -1, out2[x] = -1
               PROVE  st2 # <<>> /\ x \in C(Last(st2))
    OBVIOUS
  <2>1. x # t /\ x \in C(t)
    BY <1>4 DEF Walking, t
  <2>2. CASE Len(st) = 1
    <3>1. t = 0
      BY <1>3, <2>2 DEF Walking
    <3>2. C(0) = {0}
      BY <1>2, ClimbStep
    <3> QED
      BY <2>1, <3>1, <3>2
  <2>3. CASE Len(st) # 1
    <3>1. Len(st) \in 2..Len(st) /\ Len(st) - 1 \in 1..Len(st2) /\ st2 # <<>> /\ Len(st2) = Len(st) - 1
      BY <1>3, <2>3
    <3>2. t >= 1 /\ d[t] = st[Len(st) - 1]
      BY <1>3, <3>1 DEF Walking
    <3>3. Last(st2) = d[t]
      BY <1>7, <3>1, <3>2 DEF Last
    <3>4. C(t) = {t} \cup C(d[t])
      <4>1. t \in 1..(m - 1)
        BY <1>2, <1>3, <3>2
      <4> QED
        BY <1>2, <1>3, <4>1, ClimbStep
    <3> QED
      BY <2>1, <3>1, <3>3, <3>4
  <2> QED
    BY <2>2, <2>3
<1>14. ASSUME NEW y \in 0..(m - 1), in[y] # -1, y # t, t \in C(y) PROVE out[y] # -1
  <2> SUFFICES ASSUME out[y] = -1 PROVE FALSE
    OBVIOUS
  <2>1. y \in C(t)
    BY <1>14 DEF Walking, t
  <2>2. y <= t /\ t <= y
    BY <1>2, <1>3, <1>14, <2>1, ClimbFurther
  <2> QED
    BY <1>2, <1>3, <1>14, <2>2
<1>15. Nested(m, d, in, out2)
  <2> SUFFICES ASSUME NEW x \in 0..(m - 1), NEW y \in 0..(m - 1),
                      in[x] # -1, in[y] # -1, x # y, x \in C(y)
               PROVE  in[x] < in[y] /\ (out2[x] # -1 => out2[y] # -1 /\ out2[y] < out2[x])
    BY DEF Nested
  <2>1. in[x] < in[y] /\ (out[x] # -1 => out[y] # -1 /\ out[y] < out[x])
    BY DEF Walking, Nested
  <2>2. CASE x = t
    <3>1. out[y] # -1 /\ out[y] < clk /\ y # t
      BY <1>6, <1>14, <2>2
    <3> QED
      BY <1>4, <2>1, <2>2, <3>1
  <2>3. CASE x # t /\ y = t
    BY <1>4, <1>5, <2>1, <2>3
  <2>4. CASE x # t /\ y # t
    BY <1>4, <2>1, <2>4
  <2> QED
    BY <2>2, <2>3, <2>4
<1>16. Apart(m, d, in, out2)
  <2> SUFFICES ASSUME NEW x \in 0..(m - 1), NEW y \in 0..(m - 1),
                      in[x] # -1, in[y] # -1, x \notin C(y), y \notin C(x)
               PROVE  (out2[x] # -1 /\ out2[x] < in[y]) \/ (out2[y] # -1 /\ out2[y] < in[x])
    BY DEF Apart
  <2>1. (out[x] # -1 /\ out[x] < in[y]) \/ (out[y] # -1 /\ out[y] < in[x])
    BY DEF Walking, Apart
  <2>2. \A z \in 0..(m - 1) : out[z] # -1 => out2[z] = out[z]
    BY <1>4, <1>5
  <2> QED
    BY <2>1, <2>2
<1>17. clk + 1 \in Nat
  BY <1>1
<1>18. \A x \in 1..(m - 1) : in[x] # -1 => in[d[x]] # -1
  BY DEF Walking
<1> HIDE DEF C
<1>19. Walking(m, d, st2, in, out2, clk + 1)
  BY <1>1, <1>3, <1>4, <1>8, <1>9, <1>10, <1>11, <1>12, <1>13, <1>15, <1>16, <1>17, <1>18 DEF Walking, C
<1> QED
  BY <1>19 DEF st2

\* When the walk is over, it has been everywhere, and its times are the tree.
LEMMA WalkEnds ==
  ASSUME NEW m, NEW d, NEW in, NEW out, NEW clk, IsWhole(m, d), Walking(m, d, <<>>, in, out, clk)
  PROVE  /\ \A x \in 0..(m - 1) : in[x] # -1
         /\ \A x, y \in 0..(m - 1) : in[x] <= in[y] /\ out[y] <= out[x] <=> x \in Climbs(m, d, y)
<1>1. /\ clk \in Nat
      /\ in \in [0..(m - 1) -> -1..(clk - 1)] /\ out \in [0..(m - 1) -> -1..(clk - 1)]
      /\ in[0] # -1
      /\ \A x \in 0..(m - 1) : out[x] # -1 =>
           in[x] # -1 /\ in[x] < out[x] /\ \A c \in 1..(m - 1) : d[c] = x => in[c] # -1
      /\ \A x \in 0..(m - 1) : in[x] # -1 => out[x] # -1
  BY DEF Walking
<1>2. IsTree(m, d) /\ m \in Nat /\ \A k \in 0..(m - 1) : d[k] # -1
  BY DEF IsWhole, IsTree
<1>3. \A x \in 0..(m - 1) : in[x] # -1
  <2> DEFINE T == {x \in 0..(m - 1) : in[x] = -1}
  <2> SUFFICES ASSUME T # {} PROVE FALSE
    OBVIOUS
  <2>1. PICK x \in T : \A q \in T : x <= q
    <3>1. T \in SUBSET Nat
      BY <1>2
    <3> HIDE DEF T
    <3> QED
      BY <3>1, LeastExists
  <2>2. x \in 1..(m - 1)
    BY <1>1, <1>2, <2>1
  <2>3. d[x] \in 0..(m - 1) /\ d[x] < x
    BY <1>2, <2>2, ClimbStep
  <2>4. in[d[x]] # -1
    BY <1>2, <2>1, <2>2, <2>3
  <2> QED
    BY <1>1, <2>1, <2>2, <2>3, <2>4
<1>4. ASSUME NEW x \in 0..(m - 1), NEW y \in 0..(m - 1)
      PROVE  in[x] <= in[y] /\ out[y] <= out[x] <=> x \in Climbs(m, d, y)
  <2>1. /\ in[x] \in Int /\ in[y] \in Int /\ out[x] \in Int /\ out[y] \in Int
        /\ in[x] # -1 /\ in[y] # -1 /\ out[x] # -1 /\ out[y] # -1
        /\ in[x] < out[x] /\ in[y] < out[y]
    BY <1>1, <1>3
  <2>2. CASE x = y
    BY <1>2, <2>1, <2>2, ClimbIs
  <2>3. CASE x # y /\ x \in Climbs(m, d, y)
    <3>1. in[x] < in[y] /\ out[y] < out[x]
      BY <2>1, <2>3 DEF Walking, Nested
    <3> QED
      BY <2>1, <2>3, <3>1
  <2>4. CASE x # y /\ x \notin Climbs(m, d, y) /\ y \in Climbs(m, d, x)
    <3>1. in[y] < in[x]
      BY <2>1, <2>4 DEF Walking, Nested
    <3> QED
      BY <2>1, <2>4, <3>1
  <2>5. CASE x \notin Climbs(m, d, y) /\ y \notin Climbs(m, d, x)
    <3>1. out[x] < in[y] \/ out[y] < in[x]
      BY <2>1, <2>5 DEF Walking, Apart
    <3> QED
      BY <2>1, <2>5, <3>1
  <2> QED
    BY <2>2, <2>3, <2>4, <2>5
<1> QED
  BY <1>3, <1>4
-----------------------------------------------------------------------------
(* Back to the graph: what is reached without entering a block.            *)

\* Reachability is a least closed set too.
LEMMA ReachIs ==
  ASSUME IsGraph(succs, entry), NEW W
  PROVE  /\ entry \notin W => entry \in ReachableWithout(W, {entry})
         /\ ReachableWithout(W, {entry}) \subseteq Blocks
         /\ \A b \in ReachableWithout(W, {entry}) : \A t \in Range(succs[b]) :
              t \notin W => t \in ReachableWithout(W, {entry})
         /\ \A X : /\ entry \notin W => entry \in X
                   /\ \A b \in X : b \in Blocks => \A t \in Range(succs[b]) : t \notin W => t \in X
                   => ReachableWithout(W, {entry}) \subseteq X
<1> DEFINE E == [b \in Blocks |-> Range(succs[b]) \ W]
           S == {entry} \ W
           A == Closure(E, S)
<1>1. /\ IsFiniteSet(Blocks) /\ entry \in Blocks
      /\ \A b \in Blocks : succs[b] \in Seq(Blocks)
  BY DEF IsGraph, Blocks
<1>2. DOMAIN E = Blocks /\ \A b \in Blocks : E[b] = Range(succs[b]) \ W
  OBVIOUS
<1>3. \A b \in Blocks : Range(succs[b]) \subseteq Blocks
  BY <1>1 DEF Range
<1>4. IsFiniteSet(DOMAIN E) /\ (\A b \in DOMAIN E : E[b] \subseteq DOMAIN E) /\ S \in SUBSET DOMAIN E
  BY <1>1, <1>2, <1>3
<1>5. A = ReachableWithout(W, {entry})
  BY DEF ReachableWithout
<1> HIDE DEF E
<1>6. /\ S \subseteq A /\ A \subseteq DOMAIN E
      /\ \A b \in A : E[b] \subseteq A
      /\ \A X : S \subseteq X /\ (\A b \in X \cap DOMAIN E : E[b] \subseteq X) => A \subseteq X
  <2> HIDE DEF S
  <2> QED
    BY <1>4, ClosureIs
<1> HIDE DEF A
<1>7. \A b \in A : \A t \in Range(succs[b]) : t \notin W => t \in A
  BY <1>2, <1>6
<1>8. ASSUME NEW X, entry \notin W => entry \in X,
             \A b \in X : b \in Blocks => \A t \in Range(succs[b]) : t \notin W => t \in X
      PROVE  A \subseteq X
  <2>1. S \subseteq X
    BY <1>8
  <2>2. \A b \in X \cap DOMAIN E : E[b] \subseteq X
    BY <1>2, <1>8
  <2> QED
    BY <1>6, <2>1, <2>2
<1> QED
  BY <1>2, <1>5, <1>6, <1>7, <1>8

LEMMA ReachedIs ==
  ASSUME IsGraph(succs, entry), Searched
  PROVE  ReachableWithout({}, {entry}) = Reached
<1>1. /\ IsFlow(n, Into) /\ PlacesOk /\ rpo[0] = entry /\ n >= 1
      /\ \A b \in Reached : Range(succs[b]) \subseteq Reached
  BY FlowIs DEF Searched
<1>2. n \in Nat /\ 0 \in 0..(n - 1)
  BY <1>1 DEF PlacesOk
<1> DEFINE A == ReachableWithout({}, {entry})
<1>3. /\ entry \in A
      /\ \A b \in A : \A t \in Range(succs[b]) : t \in A
      /\ \A X : /\ entry \in X
                /\ \A b \in X : b \in Blocks => \A t \in Range(succs[b]) : t \in X
                => A \subseteq X
  BY ReachIs
<1> HIDE DEF A
<1>4. A \subseteq Reached
  <2>1. entry \in Reached
    BY <1>1, <1>2 DEF PlacesOk
  <2> QED
    BY <1>1, <1>3, <2>1
<1>5. ASSUME NEW k \in 0..(n - 1) PROVE rpo[k] \in A
  <2> DEFINE T == {x \in 0..(n - 1) : rpo[x] \notin A}
  <2> SUFFICES ASSUME T # {} PROVE FALSE
    OBVIOUS
  <2>1. PICK x \in T : \A q \in T : x <= q
    <3>1. T \in SUBSET Nat
      BY <1>2
    <3> HIDE DEF T
    <3> QED
      BY <3>1, LeastExists
  <2>2. x \in 1..(n - 1)
    BY <1>1, <1>2, <1>3, <2>1
  <2>3. PICK j \in Into[x] : j < x
    BY <1>1, <2>2 DEF IsFlow
  <2>4. j \in 0..(n - 1) /\ rpo[x] \in Range(succs[rpo[j]])
    BY <2>1, <2>3 DEF Into
  <2>5. rpo[j] \in A
    BY <1>2, <2>1, <2>2, <2>3, <2>4
  <2> QED
    BY <1>3, <2>1, <2>4, <2>5
<1>6. Reached \subseteq A
  BY <1>1, <1>5 DEF PlacesOk
<1> QED
  BY <1>4, <1>6 DEF A

\* So is what is reached around a block: by place, it is Avoid.
LEMMA AroundIs ==
  ASSUME IsGraph(succs, entry), Searched, NEW x \in 0..(n - 1), NEW j \in 0..(n - 1)
  PROVE  x \in Avoid(n, Into, j) <=> rpo[x] \in ReachableWithout({rpo[j]}, {entry})
<1>1. /\ IsFlow(n, Into) /\ PlacesOk /\ rpo[0] = entry /\ n >= 1
      /\ \A b \in Reached : Range(succs[b]) \subseteq Reached
  BY FlowIs DEF Searched
<1>2. n \in Nat /\ 0 \in 0..(n - 1)
  BY <1>1 DEF PlacesOk
<1>3. /\ \A k \in 0..(n - 1) : rpo[k] \in Reached /\ rpo[k] \in Blocks /\ rpoIndex(rpo[k]) = k
      /\ \A y, k \in 0..(n - 1) : rpo[y] = rpo[k] => y = k
      /\ \A b \in Reached : rpoIndex(b) \in 0..(n - 1) /\ rpo[rpoIndex(b)] = b
  BY <1>1 DEF PlacesOk
<1>4. \A y, k \in 0..(n - 1) : y \in Into[k] <=> rpo[k] \in Range(succs[rpo[y]])
  BY DEF Into
<1> DEFINE A == ReachableWithout({rpo[j]}, {entry})
           V == Avoid(n, Into, j)
<1>5. /\ entry # rpo[j] => entry \in A
      /\ \A b \in A : \A t \in Range(succs[b]) : t # rpo[j] => t \in A
      /\ \A X : /\ entry # rpo[j] => entry \in X
                /\ \A b \in X : b \in Blocks => \A t \in Range(succs[b]) : t # rpo[j] => t \in X
                => A \subseteq X
  BY ReachIs
<1>6. /\ V \subseteq 0..(n - 1)
      /\ j # 0 => 0 \in V
      /\ \A y \in V : \A k \in 0..(n - 1) : y \in Into[k] /\ k # j => k \in V
      /\ \A X : /\ j # 0 => 0 \in X
                /\ \A y \in X : \A k \in 0..(n - 1) : y \in 0..(n - 1) /\ y \in Into[k] /\ k # j => k \in X
                => V \subseteq X
  BY <1>1, AvoidIs
<1> HIDE DEF A, V
<1>7. V \subseteq {y \in 0..(n - 1) : rpo[y] \in A}
  <2> DEFINE X == {y \in 0..(n - 1) : rpo[y] \in A}
  <2>1. j # 0 => 0 \in X
    BY <1>1, <1>2, <1>3, <1>5
  <2>2. \A y \in X : \A k \in 0..(n - 1) : y \in 0..(n - 1) /\ y \in Into[k] /\ k # j => k \in X
    BY <1>3, <1>4, <1>5
  <2> HIDE DEF X
  <2>3. V \subseteq X
    BY <1>6, <2>1, <2>2
  <2> QED
    BY <2>3 DEF X
<1>8. A \subseteq {b \in Reached : rpoIndex(b) \in V}
  <2> DEFINE X == {b \in Reached : rpoIndex(b) \in V}
  <2>1. entry # rpo[j] => entry \in X
    BY <1>1, <1>2, <1>3, <1>6
  <2>2. ASSUME NEW b \in X, NEW t \in Range(succs[b]), t # rpo[j] PROVE t \in X
    <3>1. t \in Reached /\ rpoIndex(t) \in 0..(n - 1) /\ rpoIndex(t) # j /\ rpoIndex(b) \in V
      BY <1>1, <1>3, <2>2
    <3>2. rpoIndex(b) \in Into[rpoIndex(t)]
      BY <1>3, <1>4, <2>2, <3>1
    <3> QED
      BY <1>6, <3>1, <3>2
  <2> HIDE DEF X
  <2>3. A \subseteq X
    BY <1>5, <2>1, <2>2
  <2> QED
    BY <2>3 DEF X
<1>9. x \in V <=> rpo[x] \in A
  BY <1>3, <1>7, <1>8
<1> QED
  BY <1>9 DEF A, V
-----------------------------------------------------------------------------
(* The computation, as the analysis of one graph after another.            *)

\* Before the passes.
Fresh ==
  /\ clock = 0
  /\ tin = [b \in Blocks |-> -1] /\ tout = [b \in Blocks |-> -1]

\* The state of the walk, by place.
PlaceStack == [k \in 1..Len(stack) |-> rpoIndex(stack[k])]
In == [x \in 0..(n - 1) |-> tin[rpo[x]]]
Out == [x \in 0..(n - 1) |-> tout[rpo[x]]]

\* The tree is dominance, by place.
TreeIsDominance ==
  \A x, j \in 0..(n - 1) : j \in Climbs(n, idomIdx, x) <=> x \notin Avoid(n, Into, j)

\* The invariant of the walk.
WalkOk ==
  /\ IsWhole(n, idomIdx) /\ TreeIsDominance
  /\ tin = [b \in Blocks |-> tin[b]] /\ tout = [b \in Blocks |-> tout[b]]
  /\ \A b \in Blocks \ Reached : tin[b] = -1
  /\ stack \in Seq(Reached)
  /\ Walking(n, idomIdx, PlaceStack, In, Out, clock)

\* The inductive invariant, by phase.
DomInv ==
  /\ IsGraph(succs, entry)
  /\ phase \in {"search", "pass", "walk", "done"}
  /\ changed \in BOOLEAN
  /\ phase = "search" => Searching(succs, entry, stack, order, nextEdge) /\ ~changed /\ Fresh
  /\ phase = "pass" => Searched /\ PassOk(n, Into, idomIdx, i, changed, iterations) /\ Fresh
  /\ phase \in {"walk", "done"} => Searched /\ WalkOk /\ (phase = "done" <=> stack = <<>>)

\* Nothing said of places depends on what a pass or the walk changes.
LEMMA SamePlaces ==
  ASSUME UNCHANGED <<succs, entry, order>>
  PROVE  /\ n' = n /\ rpo' = rpo /\ Into' = Into /\ Blocks' = Blocks /\ Reached' = Reached
         /\ \A b : rpoIndex(b)' = rpoIndex(b)
         /\ Searched' <=> Searched
         /\ IsGraph(succs, entry)' <=> IsGraph(succs, entry)
<1>1. n' = n /\ Blocks' = Blocks /\ Reached' = Reached
  BY DEF n, Blocks, Reached
<1>2. rpo' = rpo
  BY <1>1 DEF rpo
<1>3. Into' = Into
  BY <1>1, <1>2 DEF Into
<1>4. \A b : rpoIndex(b)' = rpoIndex(b)
  BY <1>1, <1>2 DEF rpoIndex
<1>5. Searched' <=> Searched
  BY <1>1, <1>3 DEF Searched, Ordered
<1>6. IsGraph(succs, entry)' <=> IsGraph(succs, entry)
  OBVIOUS
<1> QED
  BY <1>1, <1>2, <1>3, <1>4, <1>5, <1>6

LEMMA DomStarts ==
  ASSUME IsGraph(succs, entry), StartsOn(succs, entry)
  PROVE  DomInv
<1>1. /\ phase = "search" /\ stack = <<entry>> /\ order = <<>>
      /\ nextEdge = [b \in DOMAIN succs |-> 0] /\ changed = FALSE
      /\ clock = 0 /\ tin = [b \in DOMAIN succs |-> -1] /\ tout = [b \in DOMAIN succs |-> -1]
  BY DEF StartsOn
<1>2. Searching(succs, entry, stack, order, nextEdge)
  BY <1>1, SearchStarts
<1> QED
  BY <1>1, <1>2 DEF DomInv, Fresh, Blocks

\* The next lemmas: each action keeps it.
LEMMA FollowKeeps ==
  ASSUME DomInv, Follow
  PROVE  DomInv'
<1>1. /\ phase = "search" /\ phase' = "search" /\ UNCHANGED <<succs, entry, order, changed, clock, tin, tout>>
      /\ stack # <<>>
  BY DEF Follow, input, passes, walk
<1>2. /\ IsGraph(succs, entry) /\ Searching(succs, entry, stack, order, nextEdge) /\ ~changed /\ Fresh
      /\ changed \in BOOLEAN
  BY <1>1 DEF DomInv
<1> DEFINE b == Last(stack)
           t == succs[b][nextEdge[b] + 1]
<1>3. /\ nextEdge[b] < Len(succs[b])
      /\ nextEdge' = [nextEdge EXCEPT ![b] = nextEdge[b] + 1]
      /\ stack' = IF t \in Range(stack) \cup Range(order) THEN stack ELSE Append(stack, t)
  BY DEF Follow, Seen, Reached
<1>4. Searching(succs, entry, stack', order, nextEdge')
  <2>1. Follows(succs, stack, order, nextEdge, b, t, stack', nextEdge')
    BY <1>1, <1>3 DEF Follows
  <2> HIDE DEF b, t
  <2> QED
    BY <1>2, <2>1, SearchFollows
<1>5. Fresh'
  BY <1>1, <1>2 DEF Fresh, Blocks
<1> QED
  BY <1>1, <1>2, <1>4, <1>5 DEF DomInv

LEMMA LeaveKeeps ==
  ASSUME DomInv, Leave
  PROVE  DomInv'
<1>1. /\ phase = "search" /\ phase' = "search" /\ UNCHANGED <<succs, entry, nextEdge, changed, clock, tin, tout>>
      /\ stack # <<>> /\ nextEdge[Last(stack)] = Len(succs[Last(stack)])
      /\ order' = Append(order, Last(stack)) /\ stack' = Front(stack)
  BY DEF Leave, input, passes, walk
<1>2. /\ IsGraph(succs, entry) /\ Searching(succs, entry, stack, order, nextEdge) /\ ~changed /\ Fresh
      /\ changed \in BOOLEAN
  BY <1>1 DEF DomInv
<1>3. Searching(succs, entry, stack', order', nextEdge)
  BY <1>1, <1>2, SearchLeaves
<1>4. Fresh'
  BY <1>1, <1>2 DEF Fresh, Blocks
<1> QED
  BY <1>1, <1>2, <1>3, <1>4 DEF DomInv

LEMMA StartPassesKeeps ==
  ASSUME DomInv, StartPasses
  PROVE  DomInv'
<1>1. /\ phase = "search" /\ phase' = "pass" /\ stack = <<>>
      /\ UNCHANGED <<succs, entry, order, changed, clock, tin, tout>>
      /\ idomIdx' = [k \in 0..(n - 1) |-> IF k = 0 THEN 0 ELSE -1]
      /\ i' = 1 /\ iterations' = 1
  BY DEF StartPasses, input, search, walk
<1>2. /\ IsGraph(succs, entry) /\ Searching(succs, entry, stack, order, nextEdge) /\ ~changed /\ Fresh
      /\ changed \in BOOLEAN
  BY <1>1 DEF DomInv
<1>3. Searched
  BY <1>1, <1>2, SearchEnds
<1>4. PassOk(n, Into, idomIdx', 1, FALSE, 1)
  BY <1>1, <1>3, FlowIs, PassStarts
<1>5. n' = n /\ Into' = Into /\ Searched'
  BY <1>1, <1>3, SamePlaces
<1>6. Fresh'
  BY <1>1, <1>2 DEF Fresh, Blocks
<1>7. changed' = FALSE
  BY <1>1, <1>2
<1>8. PassOk(n, Into, idomIdx, i, changed, iterations)'
  BY <1>1, <1>4, <1>5, <1>7
<1> QED
  BY <1>1, <1>2, <1>5, <1>6, <1>7, <1>8 DEF DomInv

LEMMA VisitKeeps ==
  ASSUME DomInv, Visit
  PROVE  DomInv'
<1>1. /\ phase = "pass" /\ phase' = "pass" /\ i < n /\ i' = i + 1
      /\ UNCHANGED <<succs, entry, order, iterations, clock, tin, tout>>
  BY DEF Visit, input, search, walk
<1>2. /\ IsGraph(succs, entry) /\ Searched /\ PassOk(n, Into, idomIdx, i, changed, iterations) /\ Fresh
      /\ changed \in BOOLEAN
  BY <1>1 DEF DomInv
<1> DEFINE w == NewIdom(rpo[i])
<1>3. IF w # -1 /\ idomIdx[i] # w
      THEN idomIdx' = [idomIdx EXCEPT ![i] = w] /\ changed' = TRUE
      ELSE UNCHANGED <<idomIdx, changed>>
  BY DEF Visit
<1> HIDE DEF w
<1>4. IsTree(n, idomIdx) /\ KnownTo(n, idomIdx, i, iterations) /\ i \in 1..n /\ n \in Nat
  BY <1>2 DEF PassOk, KnownTo, IsTree
<1>5. i \in 1..(n - 1)
  BY <1>1, <1>4
<1>6. w # -1 /\ Visits(n, Into, idomIdx, i, w)
  BY <1>2, <1>4, <1>5, NewIdomIs DEF w
<1>7. idomIdx' = [idomIdx EXCEPT ![i] = w]
  <2>1. CASE idomIdx[i] # w
    BY <1>3, <1>6, <2>1
  <2>2. CASE idomIdx[i] = w
    <3>1. idomIdx \in [0..(n - 1) -> -1..(n - 1)]
      BY <1>4 DEF IsTree
    <3> QED
      BY <1>3, <2>2, <3>1
  <2> QED
    BY <2>1, <2>2
<1>8. changed' <=> (changed \/ idomIdx[i] # w)
  BY <1>2, <1>3, <1>6
<1>9. changed' \in BOOLEAN
  BY <1>2, <1>3
<1>10. PassOk(n, Into, idomIdx', i + 1, changed', iterations)
  BY <1>2, <1>6, <1>7, <1>8, PassVisits
<1>11. n' = n /\ Into' = Into /\ Searched'
  BY <1>1, <1>2, SamePlaces
<1>12. Fresh'
  BY <1>1, <1>2 DEF Fresh, Blocks
<1>13. PassOk(n, Into, idomIdx, i, changed, iterations)'
  BY <1>1, <1>10, <1>11
<1> QED
  BY <1>1, <1>2, <1>9, <1>11, <1>12, <1>13 DEF DomInv

LEMMA NextPassKeeps ==
  ASSUME DomInv, NextPass
  PROVE  DomInv'
<1>1. /\ phase = "pass" /\ i >= n /\ changed
      /\ iterations' = iterations + 1
      /\ (IF iterations' > n + 2 THEN phase' = "thrown" ELSE phase' = phase)
      /\ i' = 1 /\ changed' = FALSE
      /\ UNCHANGED <<succs, entry, order, idomIdx, clock, tin, tout>>
  BY DEF NextPass, input, search, walk
<1>2. /\ IsGraph(succs, entry) /\ Searched /\ PassOk(n, Into, idomIdx, i, changed, iterations) /\ Fresh
  BY <1>1 DEF DomInv
<1>3. iterations < n /\ PassOk(n, Into, idomIdx, 1, FALSE, iterations + 1)
  BY <1>1, <1>2, PassTurns
<1>4. n \in Nat /\ iterations \in Nat
  BY <1>2 DEF PassOk, KnownTo, IsTree
<1>5. phase' = "pass"
  BY <1>1, <1>3, <1>4
<1>6. n' = n /\ Into' = Into /\ Searched'
  BY <1>1, <1>2, SamePlaces
<1>7. Fresh'
  BY <1>1, <1>2 DEF Fresh, Blocks
<1>8. PassOk(n, Into, idomIdx, i, changed, iterations)'
  BY <1>1, <1>3, <1>6
<1> QED
  BY <1>1, <1>2, <1>5, <1>6, <1>7, <1>8 DEF DomInv

LEMMA EndPassesKeeps ==
  ASSUME DomInv, EndPasses
  PROVE  DomInv'
<1>1. /\ phase = "pass" /\ phase' = "walk" /\ i >= n /\ ~changed
      /\ stack' = <<entry>> /\ tin' = [tin EXCEPT ![entry] = clock] /\ clock' = clock + 1
      /\ UNCHANGED <<succs, entry, order, idomIdx, changed, tout>>
  BY DEF EndPasses, input, passes
<1>2. /\ IsGraph(succs, entry) /\ Searched /\ PassOk(n, Into, idomIdx, i, changed, iterations) /\ Fresh
      /\ changed \in BOOLEAN
  BY <1>1 DEF DomInv
<1>3. IsWhole(n, idomIdx) /\ TreeIsDominance
  <2>1. /\ IsTree(n, idomIdx) /\ \A k \in 0..(n - 1) : idomIdx[k] # -1
        /\ \A x, j \in 0..(n - 1) : j \in Climbs(n, idomIdx, x) <=> x \notin Avoid(n, Into, j)
    BY <1>1, <1>2, PassEnds
  <2> QED
    BY <2>1 DEF IsWhole, TreeIsDominance
<1>4. PlacesOk /\ rpo[0] = entry /\ n >= 1 /\ n \in Nat /\ 0 \in 0..(n - 1)
  <2>1. PlacesOk /\ rpo[0] = entry /\ n >= 1
    BY <1>2, FlowIs
  <2> QED
    BY <2>1 DEF PlacesOk
<1>5. entry \in Reached /\ entry \in Blocks /\ rpoIndex(entry) = 0
  BY <1>4 DEF PlacesOk
<1>6. /\ n' = n /\ rpo' = rpo /\ Into' = Into /\ Blocks' = Blocks /\ Reached' = Reached /\ Searched'
      /\ \A b : rpoIndex(b)' = rpoIndex(b)
  BY <1>1, <1>2, SamePlaces
<1>7. /\ clock' = 1 /\ tout' = [b \in Blocks |-> -1]
      /\ tin' = [b \in Blocks |-> IF b = entry THEN 0 ELSE -1]
  BY <1>1, <1>2, <1>5 DEF Fresh
<1>8. \A x \in 0..(n - 1) : rpo[x] \in Blocks /\ (rpo[x] = entry <=> x = 0)
  BY <1>4 DEF PlacesOk
<1>9. In' = [x \in 0..(n - 1) |-> IF x = 0 THEN 0 ELSE -1]
  BY <1>6, <1>7, <1>8 DEF In
<1>10. Out' = [x \in 0..(n - 1) |-> -1]
  BY <1>6, <1>7, <1>8 DEF Out
<1>11. PlaceStack' = <<0>>
  <2>1. Len(stack') = 1 /\ stack'[1] = entry
    BY <1>1
  <2>2. PlaceStack' = [k \in 1..1 |-> 0]
    BY <1>5, <1>6, <2>1 DEF PlaceStack
  <2> QED
    BY <2>2
<1>12. Walking(n, idomIdx, PlaceStack, In, Out, clock)'
  BY <1>1, <1>3, <1>6, <1>7, <1>9, <1>10, <1>11, WalkStarts
<1>13. IsWhole(n, idomIdx)' /\ TreeIsDominance'
  BY <1>1, <1>3, <1>6 DEF TreeIsDominance
<1>14. stack' \in Seq(Reached') /\ stack' # <<>>
  BY <1>1, <1>5, <1>6
<1>15. \A b \in Blocks' \ Reached' : tin'[b] = -1
  BY <1>5, <1>6, <1>7
<1>16. tin' = [b \in Blocks' |-> tin'[b]] /\ tout' = [b \in Blocks' |-> tout'[b]]
  BY <1>6, <1>7
<1>17. WalkOk'
  BY <1>12, <1>13, <1>14, <1>15, <1>16 DEF WalkOk
<1>18. IsGraph(succs, entry)' /\ changed' \in BOOLEAN
  BY <1>1, <1>2
<1> QED
  BY <1>1, <1>6, <1>14, <1>17, <1>18 DEF DomInv

\* The walk's view of the place it is in.
LEMMA TopIs ==
  ASSUME DomInv, phase = "walk"
  PROVE  /\ IsGraph(succs, entry) /\ Searched /\ WalkOk /\ PlacesOk /\ stack # <<>>
         /\ PlaceStack \in Seq(0..(n - 1)) /\ Len(PlaceStack) = Len(stack) /\ PlaceStack # <<>>
         /\ Last(stack) \in Reached /\ Last(PlaceStack) = rpoIndex(Last(stack))
         /\ \A k \in 1..(n - 1) : idomIdx[k] = Last(PlaceStack) <=> rpo[k] \in Children(Last(stack))
<1>1. IsGraph(succs, entry) /\ Searched /\ WalkOk /\ stack # <<>>
  BY DEF DomInv
<1>2. PlacesOk
  BY <1>1, FlowIs
<1>3. stack \in Seq(Reached)
  BY <1>1 DEF WalkOk
<1>4. /\ Len(stack) \in Nat /\ Len(stack) >= 1 /\ Last(stack) = stack[Len(stack)] /\ Last(stack) \in Reached
  BY <1>1, <1>3, FrontIs
<1>5. \A k \in 1..Len(stack) : rpoIndex(stack[k]) \in 0..(n - 1)
  BY <1>2, <1>3 DEF PlacesOk
<1>6. PlaceStack \in Seq(0..(n - 1)) /\ Len(PlaceStack) = Len(stack)
  BY <1>4, <1>5 DEF PlaceStack
<1>7. PlaceStack # <<>> /\ Last(PlaceStack) = rpoIndex(Last(stack))
  <2>1. PlaceStack # <<>>
    BY <1>4, <1>6
  <2>2. PlaceStack[Len(stack)] = rpoIndex(stack[Len(stack)])
    BY <1>4 DEF PlaceStack
  <2> QED
    BY <1>4, <1>6, <2>1, <2>2 DEF Last
<1>8. ASSUME NEW k \in 1..(n - 1)
      PROVE  idomIdx[k] = Last(PlaceStack) <=> rpo[k] \in Children(Last(stack))
  <2>1. n \in Nat /\ k \in 0..(n - 1)
    BY <1>2 DEF PlacesOk
  <2>2. idomIdx[k] \in 0..(n - 1)
    BY <1>1, ClimbStep DEF WalkOk, IsWhole
  <2>3. rpo[k] \in Reached /\ rpoIndex(rpo[k]) = k /\ k > 0
    BY <1>2, <2>1 DEF PlacesOk
  <2>4. rpo[k] \in Children(Last(stack)) <=> rpo[idomIdx[k]] = Last(stack)
    BY <2>3 DEF Children
  <2>5. rpo[idomIdx[k]] = Last(stack) <=> idomIdx[k] = rpoIndex(Last(stack))
    BY <1>2, <1>4, <2>2 DEF PlacesOk
  <2> QED
    BY <1>7, <2>4, <2>5
<1> QED
  BY <1>1, <1>2, <1>4, <1>6, <1>7, <1>8

LEMMA DescendKeeps ==
  ASSUME DomInv, Descend
  PROVE  DomInv'
<1> DEFINE left == {x \in Children(Last(stack)) : tin[x] = -1}
           c == CHOOSE x \in left : \A y \in left : rpoIndex(x) <= rpoIndex(y)
<1>1. /\ phase = "walk" /\ phase' = "walk" /\ left # {}
      /\ tin' = [tin EXCEPT ![c] = clock] /\ stack' = Append(stack, c) /\ clock' = clock + 1
      /\ UNCHANGED <<succs, entry, order, idomIdx, changed, tout>>
  BY DEF Descend, input, passes
<1>2. /\ IsGraph(succs, entry) /\ Searched /\ WalkOk /\ PlacesOk /\ stack # <<>>
      /\ PlaceStack \in Seq(0..(n - 1)) /\ Len(PlaceStack) = Len(stack) /\ PlaceStack # <<>>
      /\ \A k \in 1..(n - 1) : idomIdx[k] = Last(PlaceStack) <=> rpo[k] \in Children(Last(stack))
  BY <1>1, TopIs
<1>3. n \in Nat /\ \A x \in left : x \in Reached /\ x \in Blocks /\ rpoIndex(x) \in 1..(n - 1) /\ rpo[rpoIndex(x)] = x
  <2>1. n \in Nat
    BY <1>2 DEF PlacesOk
  <2>2. ASSUME NEW x \in left PROVE x \in Reached /\ x \in Blocks /\ rpoIndex(x) \in 1..(n - 1) /\ rpo[rpoIndex(x)] = x
    <3>1. x \in Reached /\ rpoIndex(x) > 0
      BY DEF Children
    <3>2. x \in Blocks /\ rpoIndex(x) \in 0..(n - 1) /\ rpo[rpoIndex(x)] = x
      BY <1>2, <3>1 DEF PlacesOk
    <3> QED
      BY <2>1, <3>1, <3>2
  <2> QED
    BY <2>1, <2>2
<1>4. c \in left
  <2> DEFINE T == {rpoIndex(x) : x \in left}
  <2>1. T \in SUBSET Nat /\ T # {}
    BY <1>1, <1>3
  <2>2. PICK k \in T : \A q \in T : k <= q
    <3> HIDE DEF T
    <3> QED
      BY <2>1, LeastExists
  <2>3. \E x \in left : \A y \in left : rpoIndex(x) <= rpoIndex(y)
    BY <2>2
  <2> HIDE DEF left
  <2> QED
    BY <2>3
<1>5. tin[c] = -1 /\ c \in Children(Last(stack))
  BY <1>4
<1>6. PICK k \in 1..(n - 1) : k = rpoIndex(c) /\ rpo[k] = c
  <2> HIDE DEF left, c
  <2> QED
    BY <1>3, <1>4
<1>7. c \in Reached /\ c \in Blocks
  <2> HIDE DEF left, c
  <2> QED
    BY <1>3, <1>4
<1> HIDE DEF left, c
<1>8. idomIdx[k] = Last(PlaceStack)
  BY <1>2, <1>5, <1>6
<1>9. In[k] = -1 /\ k \in 0..(n - 1)
  BY <1>3, <1>5, <1>6 DEF In
<1>10. /\ n' = n /\ rpo' = rpo /\ Into' = Into /\ Blocks' = Blocks /\ Reached' = Reached /\ Searched'
       /\ \A b : rpoIndex(b)' = rpoIndex(b)
  BY <1>1, <1>2, SamePlaces
<1>11. tin' = [b \in Blocks |-> tin'[b]] /\ tin'[c] = clock /\ \A b \in Blocks : b # c => tin'[b] = tin[b]
  <2>1. tin = [b \in Blocks |-> tin[b]]
    BY <1>2 DEF WalkOk
  <2> QED
    BY <1>1, <1>7, <2>1
<1>12. In' = [In EXCEPT ![k] = clock]
  <2>1. In' = [x \in 0..(n - 1) |-> tin'[rpo[x]]]
    BY <1>10 DEF In
  <2>2. \A x \in 0..(n - 1) : rpo[x] \in Blocks /\ (rpo[x] = c <=> x = k)
    BY <1>2, <1>6, <1>9 DEF PlacesOk
  <2>3. \A x \in 0..(n - 1) : tin'[rpo[x]] = IF x = k THEN clock ELSE tin[rpo[x]]
    BY <1>11, <2>2
  <2> QED
    BY <2>1, <2>3 DEF In
<1>13. Out' = Out
  BY <1>1, <1>10 DEF Out
<1>14. PlaceStack' = Append(PlaceStack, k)
  <2>1. stack \in Seq(Reached)
    BY <1>2 DEF WalkOk
  <2>2. Longer(Reached, stack, c, stack')
    BY <1>1, <1>7, <2>1, AppendIs
  <2>3. /\ Len(stack') = Len(stack) + 1 /\ Len(stack) \in Nat /\ stack'[Len(stack) + 1] = c
        /\ \A l \in 1..Len(stack) : stack'[l] = stack[l]
    BY <2>2 DEF Longer
  <2>4. PlaceStack' = [l \in 1..(Len(stack) + 1) |-> rpoIndex(stack'[l])]
    BY <1>10, <2>3 DEF PlaceStack
  <2>5. \A l \in 1..(Len(stack) + 1) : rpoIndex(stack'[l]) = IF l = Len(stack) + 1 THEN k ELSE PlaceStack[l]
    <3> SUFFICES ASSUME NEW l \in 1..(Len(stack) + 1)
                 PROVE  rpoIndex(stack'[l]) = IF l = Len(stack) + 1 THEN k ELSE PlaceStack[l]
      OBVIOUS
    <3>1. CASE l = Len(stack) + 1
      BY <1>6, <2>3, <3>1
    <3>2. CASE l # Len(stack) + 1
      <4>1. l \in 1..Len(stack)
        BY <2>3, <3>2
      <4>2. PlaceStack[l] = rpoIndex(stack[l])
        BY <4>1 DEF PlaceStack
      <4> QED
        BY <2>3, <3>2, <4>1, <4>2
    <3> QED
      BY <3>1, <3>2
  <2>6. Append(PlaceStack, k) = [l \in 1..(Len(stack) + 1) |-> IF l = Len(stack) + 1 THEN k ELSE PlaceStack[l]]
    <3>1. Longer(0..(n - 1), PlaceStack, k, Append(PlaceStack, k))
      BY <1>2, <1>9, AppendIs
    <3> DEFINE r == Append(PlaceStack, k)
    <3> HIDE DEF r
    <3>2. /\ r \in Seq(0..(n - 1)) /\ Len(r) = Len(stack) + 1 /\ r[Len(stack) + 1] = k
          /\ \A l \in 1..Len(stack) : r[l] = PlaceStack[l]
      BY <1>2, <3>1 DEF Longer, r
    <3>3. r = [l \in 1..(Len(stack) + 1) |-> r[l]]
      BY <3>2
    <3>4. \A l \in 1..(Len(stack) + 1) : r[l] = IF l = Len(stack) + 1 THEN k ELSE PlaceStack[l]
      BY <2>3, <3>2
    <3> QED
      BY <3>3, <3>4 DEF r
  <2> QED
    BY <2>4, <2>5, <2>6
<1>15. Walking(n, idomIdx, PlaceStack, In, Out, clock) /\ IsWhole(n, idomIdx)
  BY <1>2 DEF WalkOk
<1>16. Walking(n, idomIdx, PlaceStack', In', Out, clock + 1)
  <2>1. Walking(n, idomIdx, Append(PlaceStack, k), In', Out, clock + 1)
    BY <1>2, <1>8, <1>9, <1>12, <1>15, WalkDescends
  <2> QED
    BY <1>14, <2>1
<1>17. Walking(n, idomIdx, PlaceStack, In, Out, clock)'
  BY <1>1, <1>10, <1>13, <1>16
<1>18. IsWhole(n, idomIdx)' /\ TreeIsDominance'
  BY <1>1, <1>2, <1>10 DEF TreeIsDominance, WalkOk
<1>19. stack' \in Seq(Reached') /\ stack' # <<>>
  <2>1. stack \in Seq(Reached)
    BY <1>2 DEF WalkOk
  <2> QED
    BY <1>1, <1>7, <1>10, <2>1
<1>20. \A b \in Blocks' \ Reached' : tin'[b] = -1
  BY <1>2, <1>7, <1>10, <1>11 DEF WalkOk
<1>21. tin' = [b \in Blocks' |-> tin'[b]] /\ tout' = [b \in Blocks' |-> tout'[b]]
  <2>1. tout = [b \in Blocks |-> tout[b]]
    BY <1>2 DEF WalkOk
  <2> QED
    BY <1>1, <1>10, <1>11, <2>1
<1>22. WalkOk'
  BY <1>17, <1>18, <1>19, <1>20, <1>21 DEF WalkOk
<1>23. IsGraph(succs, entry)' /\ changed' \in BOOLEAN
  BY <1>1, <1>2 DEF DomInv
<1> QED
  BY <1>1, <1>10, <1>19, <1>22, <1>23 DEF DomInv

LEMMA AscendKeeps ==
  ASSUME DomInv, Ascend
  PROVE  DomInv'
<1> DEFINE b == Last(stack)
           t == Last(PlaceStack)
<1>1. /\ phase = "walk" /\ \A c \in Children(b) : tin[c] # -1
      /\ tout' = [tout EXCEPT ![b] = clock] /\ stack' = Front(stack) /\ clock' = clock + 1
      /\ phase' = (IF stack' = <<>> THEN "done" ELSE phase)
      /\ UNCHANGED <<succs, entry, order, idomIdx, changed, tin>>
  BY DEF Ascend, input, passes
<1>2. /\ IsGraph(succs, entry) /\ Searched /\ WalkOk /\ PlacesOk /\ stack # <<>>
      /\ PlaceStack \in Seq(0..(n - 1)) /\ Len(PlaceStack) = Len(stack) /\ PlaceStack # <<>>
      /\ b \in Reached /\ t = rpoIndex(b)
      /\ \A k \in 1..(n - 1) : idomIdx[k] = t <=> rpo[k] \in Children(b)
  BY <1>1, TopIs
<1>3. t \in 0..(n - 1) /\ rpo[t] = b /\ b \in Blocks /\ n \in Nat
  BY <1>2 DEF PlacesOk
<1> HIDE DEF b, t
<1>4. \A k \in 1..(n - 1) : idomIdx[k] = t => In[k] # -1
  <2> SUFFICES ASSUME NEW k \in 1..(n - 1), idomIdx[k] = t PROVE In[k] # -1
    OBVIOUS
  <2>1. tin[rpo[k]] # -1
    BY <1>1, <1>2
  <2>2. k \in 0..(n - 1)
    BY <1>3
  <2> QED
    BY <2>1, <2>2 DEF In
<1>5. /\ n' = n /\ rpo' = rpo /\ Into' = Into /\ Blocks' = Blocks /\ Reached' = Reached /\ Searched'
      /\ \A c : rpoIndex(c)' = rpoIndex(c)
  BY <1>1, <1>2, SamePlaces
<1>6. tout' = [c \in Blocks |-> tout'[c]] /\ tout'[b] = clock /\ \A c \in Blocks : c # b => tout'[c] = tout[c]
  <2>1. tout = [c \in Blocks |-> tout[c]]
    BY <1>2 DEF WalkOk
  <2> QED
    BY <1>1, <1>3, <2>1
<1>7. Out' = [Out EXCEPT ![t] = clock]
  <2>1. Out' = [x \in 0..(n - 1) |-> tout'[rpo[x]]]
    BY <1>5 DEF Out
  <2>2. \A x \in 0..(n - 1) : rpo[x] \in Blocks /\ (rpo[x] = b <=> x = t)
    BY <1>2, <1>3 DEF PlacesOk
  <2>3. \A x \in 0..(n - 1) : tout'[rpo[x]] = IF x = t THEN clock ELSE tout[rpo[x]]
    BY <1>6, <2>2
  <2> QED
    BY <2>1, <2>3 DEF Out
<1>8. In' = In
  BY <1>1, <1>5 DEF In
<1>9. stack' \in Seq(Reached) /\ PlaceStack' = Front(PlaceStack)
  <2>1. stack \in Seq(Reached)
    BY <1>2 DEF WalkOk
  <2>2. /\ stack' \in Seq(Reached) /\ Len(stack') = Len(stack) - 1 /\ Len(stack) \in Nat /\ Len(stack) >= 1
        /\ \A k \in 1..(Len(stack) - 1) : stack'[k] = stack[k]
    BY <1>1, <1>2, <2>1, FrontIs
  <2> DEFINE r == Front(PlaceStack)
  <2>3. /\ r \in Seq(0..(n - 1)) /\ Len(r) = Len(stack) - 1
        /\ \A k \in 1..(Len(stack) - 1) : r[k] = PlaceStack[k]
    BY <1>2, FrontIs
  <2> HIDE DEF r
  <2>4. \A k \in 1..(Len(stack) - 1) : PlaceStack[k] = rpoIndex(stack[k])
    BY <2>2 DEF PlaceStack
  <2>5. r = [k \in 1..(Len(stack) - 1) |-> rpoIndex(stack'[k])]
    <3>1. r = [k \in 1..(Len(stack) - 1) |-> r[k]]
      BY <2>3
    <3> QED
      BY <2>2, <2>3, <2>4, <3>1
  <2>6. PlaceStack' = [k \in 1..(Len(stack) - 1) |-> rpoIndex(stack'[k])]
    BY <1>5, <2>2 DEF PlaceStack
  <2> QED
    BY <2>2, <2>5, <2>6 DEF r
<1>10. Walking(n, idomIdx, PlaceStack, In, Out, clock) /\ IsWhole(n, idomIdx)
  BY <1>2 DEF WalkOk
<1>11. Walking(n, idomIdx, PlaceStack', In, Out', clock + 1)
  <2>1. Walking(n, idomIdx, Front(PlaceStack), In, Out', clock + 1)
    BY <1>2, <1>4, <1>7, <1>10, WalkAscends DEF t
  <2> QED
    BY <1>9, <2>1
<1>12. Walking(n, idomIdx, PlaceStack, In, Out, clock)'
  BY <1>1, <1>5, <1>8, <1>11
<1>13. IsWhole(n, idomIdx)' /\ TreeIsDominance'
  BY <1>1, <1>2, <1>5 DEF TreeIsDominance, WalkOk
<1>14. \A c \in Blocks' \ Reached' : tin'[c] = -1
  BY <1>1, <1>2, <1>5 DEF WalkOk
<1>15. tin' = [c \in Blocks' |-> tin'[c]] /\ tout' = [c \in Blocks' |-> tout'[c]]
  <2>1. tin = [c \in Blocks |-> tin[c]]
    BY <1>2 DEF WalkOk
  <2> QED
    BY <1>1, <1>5, <1>6, <2>1
<1>16. WalkOk'
  BY <1>5, <1>9, <1>12, <1>13, <1>14, <1>15 DEF WalkOk
<1>17. IsGraph(succs, entry)' /\ changed' \in BOOLEAN
  BY <1>1, <1>2 DEF DomInv
<1>18. phase' \in {"walk", "done"} /\ (phase' = "done" <=> stack' = <<>>)
  BY <1>1
<1> QED
  BY <1>5, <1>16, <1>17, <1>18 DEF DomInv
-----------------------------------------------------------------------------
(* The analysis of one graph after another, as structure() and Structuring  *)
(* run it: from the start or when the last is done, whatever the graph.    *)

LEMMA RestartIsStart ==
  ASSUME RestartsAnalysis
  PROVE  StartsAnalysis'
BY DEF RestartsAnalysis, StartsAnalysis, RestartsOn, StartsOn

LEMMA DomStutters ==
  ASSUME DomInv, UNCHANGED domVars
  PROVE  DomInv'
<1>1. UNCHANGED <<succs, entry, phase, stack, nextEdge, order, idomIdx, i, changed, iterations, clock, tin, tout>>
  BY DEF domVars, input, search, passes, walk
<1>2. /\ n' = n /\ rpo' = rpo /\ Into' = Into /\ Blocks' = Blocks /\ Reached' = Reached
      /\ \A b : rpoIndex(b)' = rpoIndex(b)
      /\ Searched' <=> Searched
      /\ IsGraph(succs, entry)' <=> IsGraph(succs, entry)
  BY <1>1, SamePlaces
<1>3. In' = In /\ Out' = Out /\ PlaceStack' = PlaceStack
  BY <1>1, <1>2 DEF In, Out, PlaceStack
<1>4. (WalkOk' <=> WalkOk) /\ (Fresh' <=> Fresh)
  BY <1>1, <1>2, <1>3 DEF WalkOk, TreeIsDominance, Fresh
<1>5. PassOk(n, Into, idomIdx, i, changed, iterations)' <=> PassOk(n, Into, idomIdx, i, changed, iterations)
  BY <1>1, <1>2
<1> QED
  BY <1>1, <1>2, <1>4, <1>5 DEF DomInv

LEMMA DomSteps ==
  ASSUME DomInv, DomStep
  PROVE  DomInv'
BY FollowKeeps, LeaveKeeps, StartPassesKeeps, VisitKeeps, NextPassKeeps, EndPassesKeeps,
   DescendKeeps, AscendKeeps DEF DomStep

LEMMA DomInvariant == DomSpec => []DomInv
<1>1. StartsAnalysis => DomInv
  BY DomStarts DEF StartsAnalysis
<1>2. DomInv /\ DomStep => DomInv'
  BY DomSteps
<1>3. RestartsAnalysis => StartsAnalysis'
  BY RestartIsStart
<1>4. DomInv /\ UNCHANGED domVars => DomInv'
  BY DomStutters
<1> QED
  BY <1>1, <1>2, <1>3, <1>4, PTL DEF DomSpec

\* At the end the clock times say dominance.
LEMMA ExactWhenDone ==
  ASSUME DomInv, phase = "done", NEW a \in Blocks, NEW b \in Blocks
  PROVE  dominates(a, b) <=> Dominates(a, b)
<1>1. IsGraph(succs, entry) /\ Searched /\ WalkOk /\ stack = <<>>
  BY DEF DomInv
<1>2. PlacesOk /\ rpo[0] = entry
  BY <1>1, FlowIs
<1>3. IsWhole(n, idomIdx) /\ Walking(n, idomIdx, <<>>, In, Out, clock)
  <2>1. PlaceStack = <<>>
    BY <1>1 DEF PlaceStack
  <2> QED
    BY <1>1, <2>1 DEF WalkOk
<1>4. /\ \A x \in 0..(n - 1) : In[x] # -1
      /\ \A x, y \in 0..(n - 1) : In[x] <= In[y] /\ Out[y] <= Out[x] <=> x \in Climbs(n, idomIdx, y)
  BY <1>3, WalkEnds
<1>5. ReachableWithout({}, {entry}) = Reached
  BY <1>1, ReachedIs
<1>6. CASE a \in Reached /\ b \in Reached
  <2> DEFINE x == rpoIndex(a)
             y == rpoIndex(b)
  <2>1. x \in 0..(n - 1) /\ y \in 0..(n - 1) /\ rpo[x] = a /\ rpo[y] = b
    BY <1>2, <1>6 DEF PlacesOk
  <2> HIDE DEF x, y
  <2>2. In[x] = tin[a] /\ In[y] = tin[b] /\ Out[x] = tout[a] /\ Out[y] = tout[b]
    BY <2>1 DEF In, Out
  <2>3. dominates(a, b) <=> x \in Climbs(n, idomIdx, y)
    BY <1>4, <2>1, <2>2 DEF dominates
  <2>4. x \in Climbs(n, idomIdx, y) <=> y \notin Avoid(n, Into, x)
    BY <1>1, <2>1 DEF WalkOk, TreeIsDominance
  <2>5. y \in Avoid(n, Into, x) <=> b \in ReachableWithout({a}, {entry})
    <3>1. y \in Avoid(n, Into, x) <=> rpo[y] \in ReachableWithout({rpo[x]}, {entry})
      BY <1>1, <2>1, AroundIs
    <3> QED
      BY <2>1, <3>1
  <2>6. a = b => b \notin ReachableWithout({a}, {entry})
    <3> SUFFICES ASSUME a = b PROVE x \in Climbs(n, idomIdx, y)
      BY <2>4, <2>5
    <3>1. x = y
      BY <1>2, <2>1 DEF PlacesOk, x, y
    <3> QED
      BY <1>3, <2>1, <3>1, ClimbIs DEF IsWhole
  <2> QED
    BY <1>5, <1>6, <2>3, <2>4, <2>5, <2>6 DEF Dominates
<1>7. CASE ~(a \in Reached /\ b \in Reached)
  <2>1. tin[a] = -1 \/ tin[b] = -1
    BY <1>1, <1>7 DEF WalkOk
  <2> QED
    BY <1>5, <1>7, <2>1 DEF dominates, Dominates
<1> QED
  BY <1>6, <1>7

\* computeDominators never gives up on a graph, and `dominates` is dominance:
\* whatever the graph, its size and the order of its edges.
THEOREM DominatorsAreExact == DomSpec => []DominatorsExact
<1>1. DomInv => DominatorsExact
  <2> SUFFICES ASSUME DomInv PROVE DominatorsExact
    OBVIOUS
  <2>1. phase # "thrown"
    BY DEF DomInv
  <2> QED
    BY <2>1, ExactWhenDone DEF DominatorsExact
<1> QED
  BY <1>1, DomInvariant, PTL
=============================================================================
