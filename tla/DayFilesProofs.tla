---------------------------- MODULE DayFilesProofs ----------------------------
(***************************************************************************)
(* What holds of the day files whatever their entries tell: their lines    *)
(* have an order, a line appended after all others chains on, and a log    *)
(* whose days do not decrease is one chain once all of it is written anew. *)
(***************************************************************************)
EXTENDS DayFiles, FiniteSetTheorems, SequenceTheorems, WellFoundedInduction, TLAPS

\* Entries whose bodies are of B, and what a log of such bodies is made of.
Entries(B) == [body : B, prev : Seq(B)]
FilesOf(B) == [Days -> Seq(Entries(B))]
Logged(B) == [day : Days, body : B]
-----------------------------------------------------------------------------
(* The last of some numbers, and of some lines.                            *)

\* A nonempty set of numbers up to a bound has a greatest.
LEMMA GreatestExists ==
  ASSUME NEW n \in Nat, NEW S \in SUBSET (1..n), S # {}
  PROVE  \E m \in S : \A q \in S : q <= m
<1> DEFINE T == {n - k : k \in S}
<1>1. T \in SUBSET Nat /\ T # {}
  <2>1. \A k \in S : k \in 1..n /\ n - k \in Nat
    OBVIOUS
  <2>2. PICK k \in S : TRUE
    OBVIOUS
  <2>3. n - k \in T
    BY <2>2
  <2> QED
    BY <2>1, <2>3
<1> HIDE DEF T
<1>2. PICK x \in T : \A y \in T : ~(<<y, x>> \in OpToRel(<, Nat))
  BY <1>1, NatLessThanWellFounded, WFMin
<1>3. \A y \in T : ~(y < x)
  BY <1>1, <1>2 DEF OpToRel
<1>4. PICK m \in S : x = n - m
  BY DEF T
<1>5. \A k \in S : n - k \in T /\ k \in 1..n
  BY DEF T
<1>6. \A k \in S : k <= m
  BY <1>3, <1>4, <1>5
<1> QED
  BY <1>6

\* Of a nonempty set of lines one is the last.
LEMMA LatestIs ==
  ASSUME NEW n \in [Days -> Nat],
         NEW X, X # {}, \A x \in X : \E d \in Days : \E i \in 1..n[d] : x = <<d, i>>
  PROVE  /\ Latest(X) \in X
         /\ \A y \in X \ {Latest(X)} : Before(y, Latest(X))
<1> DEFINE D == {d \in Days : \E i \in 1..n[d] : <<d, i>> \in X}
<1>1. D # {} /\ D \in SUBSET (1..MaxDay) /\ MaxDay \in Nat
  <2>1. PICK x \in X : \E d \in Days : \E i \in 1..n[d] : x = <<d, i>>
    OBVIOUS
  <2>2. PICK d \in Days : \E i \in 1..n[d] : x = <<d, i>>
    BY <2>1
  <2>3. d \in D
    BY <2>1, <2>2
  <2> QED
    BY <2>3, MaxDayAssumption DEF Days
<1>2. PICK g \in D : \A d \in D : d <= g
  BY <1>1, GreatestExists
<1> DEFINE I == {i \in 1..n[g] : <<g, i>> \in X}
<1>3. g \in Days /\ I # {} /\ I \in SUBSET (1..n[g]) /\ n[g] \in Nat
  BY <1>2
<1>4. PICK k \in I : \A i \in I : i <= k
  BY <1>3, GreatestExists
<1>5. <<g, k>> \in X
  BY <1>4
<1>6. \A y \in X \ {<<g, k>>} : Before(y, <<g, k>>)
  <2> TAKE y \in X \ {<<g, k>>}
  <2>1. PICK d \in Days : \E i \in 1..n[d] : y = <<d, i>>
    OBVIOUS
  <2>2. PICK i \in 1..n[d] : y = <<d, i>>
    BY <2>1
  <2>3. d <= g
    BY <1>2, <2>2
  <2>4. d = g => i <= k /\ i # k
    BY <1>4, <2>2
  <2>5. d \in Nat /\ g \in Nat /\ i \in Nat /\ k \in Nat
    BY <1>3, <1>4 DEF Days
  <2>6. d < g \/ (d = g /\ i < k)
    BY <2>3, <2>4, <2>5
  <2> QED
    BY <2>2, <2>6 DEF Before
<1> QED
  BY <1>5, <1>6 DEF Latest
-----------------------------------------------------------------------------
(* InOrder: a set of numbers as an increasing enumeration.                 *)

LEMMA InOrderIs ==
  ASSUME NEW n \in Nat, NEW S \in SUBSET (1..n)
  PROVE  /\ Cardinality(S) \in Nat
         /\ DOMAIN InOrder(S) = 1..Cardinality(S)
         /\ \A k \in 1..Cardinality(S) : InOrder(S)[k] \in S
         /\ \A j, k \in 1..Cardinality(S) : j < k <=> InOrder(S)[j] < InOrder(S)[k]
         /\ \A q \in S : \E k \in 1..Cardinality(S) : InOrder(S)[k] = q
<1> DEFINE Upto(q) == {i \in S : i <= q}
           rank == [q \in S |-> Cardinality(Upto(q))]
           c == Cardinality(S)
<1>1. IsFiniteSet(S) /\ c \in Nat
  <2>1. IsFiniteSet(1..n)
    BY FS_Interval
  <2> QED
    BY <2>1, FS_Subset, FS_CardinalityType
<1>2. \A q \in S : rank[q] \in 1..c
  <2> TAKE q \in S
  <2>1. Upto(q) \in SUBSET S
    OBVIOUS
  <2>2. IsFiniteSet(Upto(q)) /\ Cardinality(Upto(q)) \in Nat /\ Cardinality(Upto(q)) <= c
    BY <1>1, <2>1, FS_Subset, FS_CardinalityType
  <2>3. q \in Upto(q)
    OBVIOUS
  <2>4. Cardinality(Upto(q)) # 0
    BY <2>2, <2>3, FS_EmptySet
  <2> QED
    BY <1>1, <2>2, <2>4
<1>3. \A p, q \in S : p < q => rank[p] < rank[q]
  <2> SUFFICES ASSUME NEW p \in S, NEW q \in S, p < q
               PROVE  rank[p] < rank[q]
    OBVIOUS
  <2>1. IsFiniteSet(Upto(q))
    BY <1>1, FS_Subset
  <2>2. Upto(p) \in SUBSET Upto(q)
    <3>1. \A i \in S : i \in Nat
      OBVIOUS
    <3>2. \A i \in S : i <= p => i <= q
      BY <3>1
    <3> QED
      BY <3>2
  <2>3. q \in Upto(q) /\ q \notin Upto(p)
    OBVIOUS
  <2>4. Upto(p) # Upto(q)
    BY <2>3
  <2>5. Cardinality(Upto(p)) <= Cardinality(Upto(q)) /\ Cardinality(Upto(p)) # Cardinality(Upto(q))
    BY <2>1, <2>2, <2>4, FS_Subset
  <2>6. rank[p] <= rank[q] /\ rank[p] # rank[q]
    BY <2>5
  <2> QED
    BY <1>1, <1>2, <2>6
<1> HIDE DEF rank, c
<1>4. \A k \in 1..c : \E q \in S : rank[q] = k
  <2>1. rank \in [S -> 1..c]
    BY <1>2 DEF rank
  <2>2. \A p, q \in S : rank[p] = rank[q] => p = q
    <3> SUFFICES ASSUME NEW p \in S, NEW q \in S, rank[p] = rank[q]
                 PROVE  p = q
      OBVIOUS
    <3>1. p \in Nat /\ q \in Nat /\ rank[p] \in Nat
      BY <1>2
    <3> QED
      BY <1>3, <3>1
  <2>3. rank \in Injection(S, 1..c)
    BY <2>1, <2>2 DEF Injection, IsInjective
  <2>4. IsFiniteSet(1..c) /\ Cardinality(1..c) = c
    BY <1>1, FS_Interval
  <2>5. rank \in Surjection(S, 1..c)
    BY <2>3, <2>4, FS_Injection DEF c
  <2> QED
    BY <2>5 DEF Surjection
<1>5. \A q \in S : rank[q] = Cardinality({i \in S : i <= q})
  BY DEF rank
<1>6. DOMAIN InOrder(S) = 1..c
  BY DEF InOrder, c
<1>7. \A k \in 1..c : InOrder(S)[k] \in S /\ rank[InOrder(S)[k]] = k
  <2> TAKE k \in 1..c
  <2>1. InOrder(S)[k] = CHOOSE q \in S : Cardinality({i \in S : i <= q}) = k
    BY DEF InOrder, c
  <2>2. \E q \in S : Cardinality({i \in S : i <= q}) = k
    BY <1>4, <1>5
  <2>3. InOrder(S)[k] \in S /\ Cardinality({i \in S : i <= InOrder(S)[k]}) = k
    BY <2>1, <2>2
  <2> QED
    BY <1>5, <2>3
<1>8. \A j, k \in 1..c : j < k <=> InOrder(S)[j] < InOrder(S)[k]
  <2> TAKE j, k \in 1..c
  <2>1. PICK p \in S : p = InOrder(S)[j] /\ rank[p] = j
    BY <1>7
  <2>2. PICK q \in S : q = InOrder(S)[k] /\ rank[q] = k
    BY <1>7
  <2>3. p \in Nat /\ q \in Nat /\ j \in Nat /\ k \in Nat
    OBVIOUS
  <2>4. (p < q => j < k) /\ (q < p => k < j)
    BY <1>3, <2>1, <2>2
  <2>5. p = q => j = k
    BY <2>1, <2>2
  <2>6. p < q <=> j < k
    BY <2>3, <2>4, <2>5
  <2> QED
    BY <2>1, <2>2, <2>6
<1>9. \A q \in S : \E k \in 1..c : InOrder(S)[k] = q
  <2> TAKE q \in S
  <2>1. rank[q] \in 1..c
    BY <1>2
  <2>2. PICK p \in S : p = InOrder(S)[rank[q]] /\ rank[p] = rank[q]
    BY <1>7, <2>1
  <2>3. p = q
    <3>1. p \in Nat /\ q \in Nat /\ rank[p] \in Nat
      BY <1>2
    <3> QED
      BY <1>3, <2>2, <3>1
  <2> QED
    BY <2>1, <2>2, <2>3
<1> QED
  BY <1>1, <1>6, <1>7, <1>8, <1>9 DEF c
-----------------------------------------------------------------------------
(* The lines of some files, and their order.                               *)

LEMMA FileIs ==
  ASSUME NEW B, NEW f \in FilesOf(B)
  PROVE  \A d \in Days : /\ f[d] \in Seq(Entries(B)) /\ Len(f[d]) \in Nat
                          /\ DOMAIN f[d] = 1..Len(f[d])
BY LenProperties DEF FilesOf

LEMMA LinesAre ==
  ASSUME NEW B, NEW f \in FilesOf(B), NEW x
  PROVE  x \in LinesIn(f) <=> \E d \in Days : \E i \in 1..Len(f[d]) : x = <<d, i>>
<1>1. \A d \in Days : DOMAIN f[d] = 1..Len(f[d])
  BY FileIs
<1> QED
  BY <1>1 DEF LinesIn

LEMMA LatestOfLines ==
  ASSUME NEW B, NEW f \in FilesOf(B), NEW X \in SUBSET LinesIn(f), X # {}
  PROVE  /\ Latest(X) \in X
         /\ \A y \in X \ {Latest(X)} : Before(y, Latest(X))
<1> DEFINE n == [d \in Days |-> Len(f[d])]
<1>1. n \in [Days -> Nat]
  BY FileIs
<1>2. \A x \in X : \E d \in Days : \E i \in 1..n[d] : x = <<d, i>>
  BY LinesAre
<1> HIDE DEF n
<1> QED
  BY <1>1, <1>2, LatestIs

\* The last of some lines, told: the one all the others come before.
LEMMA LatestTold ==
  ASSUME NEW B, NEW f \in FilesOf(B), NEW X \in SUBSET LinesIn(f), NEW z \in X,
         \A y \in X \ {z} : Before(y, z)
  PROVE  Latest(X) = z
<1>1. Latest(X) \in X /\ \A y \in X \ {Latest(X)} : Before(y, Latest(X))
  BY LatestOfLines
<1>2. PICK w : w = Latest(X)
  OBVIOUS
<1>3. SUFFICES ASSUME w # z PROVE FALSE
  BY <1>2
<1>4. Before(w, z) /\ Before(z, w)
  BY <1>1, <1>2, <1>3
<1>5. w \in LinesIn(f) /\ z \in LinesIn(f)
  BY <1>1, <1>2
<1>6. PICK d \in Days, i \in Nat : w = <<d, i>>
  BY <1>5, LinesAre
<1>7. PICK e \in Days, j \in Nat : z = <<e, j>>
  BY <1>5, LinesAre
<1> QED
  BY <1>4, <1>6, <1>7 DEF Before, Days

LEMMA LineTypes ==
  ASSUME NEW B, NEW f \in FilesOf(B)
  PROVE  \A d \in Days : \A i \in 1..Len(f[d]) :
           /\ f[d][i] \in Entries(B)
           /\ f[d][i].body \in B
           /\ f[d][i].prev \in Seq(B)
           /\ HashOf(f[d][i]) \in Seq(B)
<1> TAKE d \in Days
<1> TAKE i \in 1..Len(f[d])
<1>1. f[d][i] \in Entries(B)
  BY FileIs, ElementOfSeq
<1>2. f[d][i].body \in B /\ f[d][i].prev \in Seq(B)
  BY <1>1 DEF Entries
<1>3. HashOf(f[d][i]) \in Seq(B)
  BY <1>2, AppendProperties DEF HashOf
<1> QED
  BY <1>1, <1>2, <1>3

LEMMA AfterType ==
  ASSUME NEW B, NEW f \in FilesOf(B), NEW X \in SUBSET LinesIn(f)
  PROVE  HashAfter(f, X) \in Seq(B)
<1>1. CASE X = {}
  BY <1>1 DEF HashAfter, LineIn
<1>2. CASE X # {}
  <2>1. Latest(X) \in LinesIn(f)
    BY <1>2, LatestOfLines
  <2>2. PICK d \in Days : \E i \in 1..Len(f[d]) : Latest(X) = <<d, i>>
    BY <2>1, LinesAre
  <2>3. PICK i \in 1..Len(f[d]) : Latest(X) = <<d, i>>
    BY <2>2
  <2>4. HashAfter(f, X) = HashOf(f[d][i])
    BY <1>2, <2>3 DEF HashAfter, LineIn
  <2> QED
    BY <2>4, LineTypes
<1> QED
  BY <1>1, <1>2
-----------------------------------------------------------------------------
(* One more line, after all the others.                                    *)

LEMMA SameAfter ==
  ASSUME NEW B, NEW f \in FilesOf(B), NEW g, NEW X \in SUBSET LinesIn(f),
         \A d \in Days : \A i \in 1..Len(f[d]) : g[d][i] = f[d][i]
  PROVE  HashAfter(g, X) = HashAfter(f, X)
<1>1. CASE X = {}
  BY <1>1 DEF HashAfter, LineIn
<1>2. CASE X # {}
  <2>1. Latest(X) \in LinesIn(f)
    BY <1>2, LatestOfLines
  <2>2. PICK d \in Days : \E i \in 1..Len(f[d]) : Latest(X) = <<d, i>>
    BY <2>1, LinesAre
  <2>3. PICK i \in 1..Len(f[d]) : Latest(X) = <<d, i>>
    BY <2>2
  <2>4. g[d][i] = f[d][i]
    OBVIOUS
  <2> QED
    BY <1>2, <2>3, <2>4 DEF HashAfter, LineIn
<1> QED
  BY <1>1, <1>2

\* f with one more line on day d.
Longer(f, g, d, e) ==
  /\ \A k \in Days \ {d} : g[k] = f[k]
  /\ Len(g[d]) = Len(f[d]) + 1
  /\ \A i \in 1..Len(f[d]) : g[d][i] = f[d][i]
  /\ g[d][Len(f[d]) + 1] = e

LEMMA AppendedIsLonger ==
  ASSUME NEW B, NEW f \in FilesOf(B), NEW d \in Days, NEW e \in Entries(B),
         NEW g, g = [f EXCEPT ![d] = Append(@, e)]
  PROVE  g \in FilesOf(B) /\ Longer(f, g, d, e)
<1>1. PICK s \in Seq(Entries(B)) : s = f[d]
  BY FileIs
<1>2. /\ Append(s, e) \in Seq(Entries(B)) /\ Len(Append(s, e)) = Len(s) + 1
      /\ \A i \in 1..Len(s) : Append(s, e)[i] = s[i]
      /\ Append(s, e)[Len(s) + 1] = e
  BY AppendProperties
<1>3. g[d] = Append(s, e) /\ (\A k \in Days \ {d} : g[k] = f[k])
  BY <1>1 DEF FilesOf
<1>4. g \in FilesOf(B)
  BY <1>1, <1>2 DEF FilesOf
<1> QED
  BY <1>1, <1>2, <1>3, <1>4 DEF Longer

\* One more line, as appendLogEntry writes it.
LEMMA AppendedIs ==
  ASSUME NEW B, NEW f \in FilesOf(B), NEW d \in Days, NEW body \in B,
         NEW g, g = Appended(f, d, body)
  PROVE  /\ g \in FilesOf(B)
         /\ \E e \in Entries(B) :
              e.body = body /\ e.prev = HashAfter(f, LinesIn(f)) /\ Longer(f, g, d, e)
<1>1. PICK e : e = [body |-> body, prev |-> HashAfter(f, LinesIn(f))]
  OBVIOUS
<1>2. HashAfter(f, LinesIn(f)) \in Seq(B)
  BY AfterType
<1>3. e \in Entries(B) /\ e.body = body /\ e.prev = HashAfter(f, LinesIn(f))
  BY <1>1, <1>2 DEF Entries
<1>4. g = [f EXCEPT ![d] = Append(@, e)]
  BY <1>1 DEF Appended, TipHash
<1> QED
  BY <1>3, <1>4, AppendedIsLonger

\* The lines of g are those of f and one more of day d.
OneLineMore(f, g, d) ==
  /\ LinesIn(g) = LinesIn(f) \cup {<<d, Len(f[d]) + 1>>}
  /\ \A k \in Days : \A i \in 1..Len(f[k]) : i \in 1..Len(g[k]) /\ g[k][i] = f[k][i]
  /\ \A k \in Days : \A i \in 1..Len(g[k]) :
       i \in 1..Len(f[k]) \/ (k = d /\ i = Len(f[d]) + 1)

LEMMA LongerLines ==
  ASSUME NEW B, NEW f \in FilesOf(B), NEW g \in FilesOf(B), NEW d \in Days, NEW e,
         Longer(f, g, d, e)
  PROVE  OneLineMore(f, g, d)
<1>1. \A k \in Days : Len(f[k]) \in Nat /\ Len(g[k]) = IF k = d THEN Len(f[k]) + 1 ELSE Len(f[k])
  <2> TAKE k \in Days
  <2>1. Len(f[k]) \in Nat
    BY FileIs
  <2> QED
    BY <2>1 DEF Longer
<1>2. \A k \in Days : \A i \in 1..Len(f[k]) : i \in 1..Len(g[k]) /\ g[k][i] = f[k][i]
  BY <1>1 DEF Longer
<1>3. \A k \in Days : \A i \in 1..Len(g[k]) : i \in 1..Len(f[k]) \/ (k = d /\ i = Len(f[d]) + 1)
  BY <1>1
<1>4. Len(f[d]) + 1 \in 1..Len(g[d])
  BY <1>1
<1>5. \A x : x \in LinesIn(g) <=> x \in LinesIn(f) \/ x = <<d, Len(f[d]) + 1>>
  <2> TAKE x
  <2>1. x \in LinesIn(f) => x \in LinesIn(g)
    <3> SUFFICES ASSUME x \in LinesIn(f) PROVE x \in LinesIn(g)
      OBVIOUS
    <3>1. PICK k \in Days : \E i \in 1..Len(f[k]) : x = <<k, i>>
      BY LinesAre
    <3>2. PICK i \in 1..Len(f[k]) : x = <<k, i>>
      BY <3>1
    <3>3. i \in 1..Len(g[k])
      BY <1>2
    <3> QED
      BY <3>2, <3>3, LinesAre
  <2>2. x = <<d, Len(f[d]) + 1>> => x \in LinesIn(g)
    BY <1>4, LinesAre
  <2>3. x \in LinesIn(g) => x \in LinesIn(f) \/ x = <<d, Len(f[d]) + 1>>
    <3> SUFFICES ASSUME x \in LinesIn(g) PROVE x \in LinesIn(f) \/ x = <<d, Len(f[d]) + 1>>
      OBVIOUS
    <3>1. PICK k \in Days : \E i \in 1..Len(g[k]) : x = <<k, i>>
      BY LinesAre
    <3>2. PICK i \in 1..Len(g[k]) : x = <<k, i>>
      BY <3>1
    <3>3. CASE i \in 1..Len(f[k])
      BY <3>2, <3>3, LinesAre
    <3>4. CASE k = d /\ i = Len(f[d]) + 1
      BY <3>2, <3>4
    <3> QED
      BY <1>3, <3>3, <3>4
  <2> QED
    BY <2>1, <2>2, <2>3
<1>6. LinesIn(g) = LinesIn(f) \cup {<<d, Len(f[d]) + 1>>}
  BY <1>5
<1> QED
  BY <1>2, <1>3, <1>6 DEF OneLineMore

LEMMA ChainedOnward ==
  ASSUME NEW B, NEW f \in FilesOf(B), NEW g \in FilesOf(B), NEW d \in Days, NEW e,
         Longer(f, g, d, e), Chained(f), e.prev = HashAfter(f, LinesIn(f)),
         \A x \in LinesIn(f) : /\ Before(x, <<d, Len(f[d]) + 1>>)
                               /\ ~Before(<<d, Len(f[d]) + 1>>, x)
  PROVE  Chained(g)
<1>1. PICK new : new = <<d, Len(f[d]) + 1>>
  OBVIOUS
<1>2. LinesIn(g) = LinesIn(f) \cup {new}
  BY <1>1, LongerLines DEF OneLineMore
<1>3. \A k \in Days : \A i \in 1..Len(f[k]) : i \in 1..Len(g[k]) /\ g[k][i] = f[k][i]
  BY LongerLines DEF OneLineMore
<1>4. \A X \in SUBSET LinesIn(f) : HashAfter(g, X) = HashAfter(f, X)
  <2>1. \A k \in Days : \A i \in 1..Len(f[k]) : g[k][i] = f[k][i]
    BY <1>3
  <2> QED
    BY <2>1, SameAfter
<1>5. ~Before(new, new)
  <2>1. d \in Nat /\ Len(f[d]) + 1 \in Nat
    <3>1. Len(f[d]) \in Nat
      BY FileIs
    <3> QED
      BY <3>1 DEF Days
  <2> QED
    BY <1>1, <2>1 DEF Before
<1>6. ASSUME NEW x \in LinesIn(g)
      PROVE  g[x[1]][x[2]].prev = HashAfter(g, {y \in LinesIn(g) : Before(y, x)})
  <2>1. CASE x = new
    <3>1. {y \in LinesIn(g) : Before(y, x)} = LinesIn(f)
      BY <1>1, <1>2, <1>5, <2>1
    <3>2. g[x[1]][x[2]] = e
      BY <1>1, <2>1 DEF Longer
    <3> QED
      BY <1>4, <3>1, <3>2
  <2>2. CASE x \in LinesIn(f)
    <3>1. {y \in LinesIn(g) : Before(y, x)} = {y \in LinesIn(f) : Before(y, x)}
      BY <1>1, <1>2, <2>2
    <3>2. g[x[1]][x[2]] = f[x[1]][x[2]]
      <4>1. PICK k \in Days : \E i \in 1..Len(f[k]) : x = <<k, i>>
        BY <2>2, LinesAre
      <4>2. PICK i \in 1..Len(f[k]) : x = <<k, i>>
        BY <4>1
      <4> QED
        BY <1>3, <4>2
    <3>3. f[x[1]][x[2]].prev = HashAfter(f, {y \in LinesIn(f) : Before(y, x)})
      BY <2>2 DEF Chained, LineIn
    <3>4. {y \in LinesIn(f) : Before(y, x)} \in SUBSET LinesIn(f)
      OBVIOUS
    <3>5. HashAfter(g, {y \in LinesIn(f) : Before(y, x)}) = HashAfter(f, {y \in LinesIn(f) : Before(y, x)})
      BY <1>4, <3>4
    <3> QED
      BY <3>1, <3>2, <3>3, <3>5
  <2> QED
    BY <1>2, <2>1, <2>2
<1> QED
  BY <1>6 DEF Chained, LineIn
-----------------------------------------------------------------------------
(* Bulk export: whole day files again, rechained from the first entry.     *)

\* The entries a log becomes, and where they are filed.
Genesis(all, n) == [j \in 1..n |-> all[j].body]
EntryAt(all, i) == [body |-> all[i].body, prev |-> Genesis(all, i - 1)]
OnDay(all, d) == InOrder({i \in DOMAIN all : all[i].day = d})
DayFile(all, d) == [k \in DOMAIN OnDay(all, d) |-> EntryAt(all, OnDay(all, d)[k])]

LEMMA LoggedTypes ==
  ASSUME NEW B, NEW all \in Seq(Logged(B))
  PROVE  /\ Len(all) \in Nat /\ DOMAIN all = 1..Len(all)
         /\ \A i \in 1..Len(all) : /\ all[i].day \in Days /\ all[i].body \in B
<1>1. \A i \in 1..Len(all) : all[i] \in Logged(B)
  BY ElementOfSeq
<1> QED
  BY <1>1, LenProperties DEF Logged

LEMMA OnDayIs ==
  ASSUME NEW B, NEW all \in Seq(Logged(B)), NEW d \in Days
  PROVE  \E c \in Nat :
           /\ DOMAIN OnDay(all, d) = 1..c
           /\ \A k \in 1..c : OnDay(all, d)[k] \in 1..Len(all) /\ all[OnDay(all, d)[k]].day = d
           /\ \A j, k \in 1..c : j < k <=> OnDay(all, d)[j] < OnDay(all, d)[k]
           /\ \A i \in 1..Len(all) : all[i].day = d => \E k \in 1..c : OnDay(all, d)[k] = i
           /\ c = 0 <=> OnDay(all, d) = <<>>
<1>1. PICK S : S = {i \in DOMAIN all : all[i].day = d}
  OBVIOUS
<1>2. S \in SUBSET (1..Len(all)) /\ Len(all) \in Nat
  BY <1>1, LoggedTypes
<1>3. PICK c : c = Cardinality(S)
  OBVIOUS
<1>4. PICK seq : seq = InOrder(S)
  OBVIOUS
<1>5. /\ c \in Nat /\ DOMAIN seq = 1..c
      /\ \A k \in 1..c : seq[k] \in S
      /\ \A j, k \in 1..c : j < k <=> seq[j] < seq[k]
      /\ \A q \in S : \E k \in 1..c : seq[k] = q
  BY <1>2, <1>3, <1>4, InOrderIs
<1>6. seq = OnDay(all, d)
  BY <1>1, <1>4 DEF OnDay
<1>7. c = 0 <=> seq = <<>>
  <2>1. CASE c = 0
    <3>1. seq = [k \in 1..0 |-> CHOOSE n \in S : Cardinality({i \in S : i <= n}) = k]
      BY <1>3, <1>4, <2>1 DEF InOrder
    <3>2. seq = <<>>
      BY <3>1
    <3> QED
      BY <2>1, <3>2
  <2>2. CASE c # 0
    <3>1. 1 \in DOMAIN seq
      BY <1>5, <2>2
    <3>2. seq # <<>>
      BY <3>1
    <3> QED
      BY <2>2, <3>2
  <2> QED
    BY <2>1, <2>2
<1>8. \A i \in 1..Len(all) : i \in S <=> all[i].day = d
  BY <1>1, LoggedTypes
<1> QED
  BY <1>2, <1>5, <1>6, <1>7, <1>8

LEMMA EntryAtIs ==
  ASSUME NEW B, NEW all \in Seq(Logged(B)), NEW i \in 1..Len(all)
  PROVE  /\ EntryAt(all, i) \in Entries(B)
         /\ EntryAt(all, i).body = all[i].body
         /\ EntryAt(all, i).prev = Genesis(all, i - 1)
         /\ HashOf(EntryAt(all, i)) = Genesis(all, i)
<1>1. \A j \in 1..Len(all) : all[j].body \in B
  BY LoggedTypes
<1>2. Len(all) \in Nat /\ i - 1 \in Nat /\ i \in Nat
  BY LoggedTypes
<1>3. PICK prev : prev = Genesis(all, i - 1)
  OBVIOUS
<1>4. prev \in Seq(B) /\ Len(prev) = i - 1 /\ \A j \in 1..(i - 1) : prev[j] = all[j].body
  <2>1. \A j \in 1..(i - 1) : all[j].body \in B
    BY <1>1, <1>2
  <2> QED
    BY <1>2, <1>3, <2>1 DEF Genesis
<1>5. PICK e : e = EntryAt(all, i)
  OBVIOUS
<1>6. e \in Entries(B) /\ e.body = all[i].body /\ e.prev = prev
  BY <1>1, <1>3, <1>4, <1>5 DEF EntryAt, Entries
<1>7. Append(prev, all[i].body) = Genesis(all, i)
  <2>1. PICK whole : whole = Genesis(all, i)
    OBVIOUS
  <2>2. whole \in Seq(B) /\ Len(whole) = i /\ \A j \in 1..i : whole[j] = all[j].body
    <3>1. \A j \in 1..i : all[j].body \in B
      BY <1>1, <1>2
    <3> QED
      BY <1>2, <2>1, <3>1 DEF Genesis
  <2>3. PICK s : s = Append(prev, all[i].body)
    OBVIOUS
  <2>4. /\ s \in Seq(B) /\ Len(s) = i
        /\ \A j \in 1..(i - 1) : s[j] = prev[j]
        /\ s[i] = all[i].body
    <3>1. all[i].body \in B
      BY <1>1
    <3> QED
      BY <1>2, <1>4, <2>3, <3>1, AppendProperties
  <2>5. \A j \in 1..i : s[j] = whole[j]
    <3> TAKE j \in 1..i
    <3>1. CASE j = i
      BY <2>2, <2>4, <3>1
    <3>2. CASE j # i
      <4>1. j \in 1..(i - 1)
        BY <1>2, <3>2
      <4> QED
        BY <1>4, <2>2, <2>4, <4>1
    <3> QED
      BY <3>1, <3>2
  <2>6. s = whole
    BY <2>2, <2>4, <2>5, SeqEqual
  <2> QED
    BY <2>1, <2>3, <2>6
<1> QED
  BY <1>3, <1>5, <1>6, <1>7 DEF HashOf

LEMMA DayFileIs ==
  ASSUME NEW B, NEW all \in Seq(Logged(B)), NEW d \in Days, OnDay(all, d) # <<>>
  PROVE  /\ DayFile(all, d) \in Seq(Entries(B))
         /\ \A k \in 1..Len(DayFile(all, d)) :
              /\ DayFile(all, d)[k] = EntryAt(all, OnDay(all, d)[k])
              /\ OnDay(all, d)[k] \in 1..Len(all) /\ all[OnDay(all, d)[k]].day = d
         /\ \A j, k \in 1..Len(DayFile(all, d)) : j < k <=> OnDay(all, d)[j] < OnDay(all, d)[k]
         /\ \A i \in 1..Len(all) : all[i].day = d =>
              \E k \in 1..Len(DayFile(all, d)) : OnDay(all, d)[k] = i
<1>1. PICK c \in Nat :
        /\ DOMAIN OnDay(all, d) = 1..c
        /\ \A k \in 1..c : OnDay(all, d)[k] \in 1..Len(all) /\ all[OnDay(all, d)[k]].day = d
        /\ \A j, k \in 1..c : j < k <=> OnDay(all, d)[j] < OnDay(all, d)[k]
        /\ \A i \in 1..Len(all) : all[i].day = d => \E k \in 1..c : OnDay(all, d)[k] = i
  BY OnDayIs
<1>2. \A k \in 1..c : EntryAt(all, OnDay(all, d)[k]) \in Entries(B)
  BY <1>1, EntryAtIs
<1>3. PICK seq : seq = DayFile(all, d)
  OBVIOUS
<1>4. seq = [k \in 1..c |-> EntryAt(all, OnDay(all, d)[k])]
  BY <1>1, <1>3 DEF DayFile
<1>5. seq \in Seq(Entries(B)) /\ Len(seq) = c /\ \A k \in 1..c : seq[k] = EntryAt(all, OnDay(all, d)[k])
  BY <1>2, <1>4
<1> QED
  BY <1>1, <1>3, <1>5

\* A day has its file rewritten, or keeps it.
LEMMA RechainedIs ==
  ASSUME NEW B, NEW f \in FilesOf(B), NEW all \in Seq(Logged(B)), NEW ds,
         NEW g, g = Rechained(f, all, ds)
  PROVE  /\ g \in FilesOf(B)
         /\ \A d \in Days : /\ d \in ds /\ OnDay(all, d) # <<>> => g[d] = DayFile(all, d)
                            /\ d \notin ds \/ OnDay(all, d) = <<>> => g[d] = f[d]
<1>1. PICK entryOf : entryOf = [i \in DOMAIN all |->
                                  [body |-> all[i].body, prev |-> [j \in 1..(i - 1) |-> all[j].body]]]
  OBVIOUS
<1>2. \A i \in 1..Len(all) : entryOf[i] = EntryAt(all, i)
  BY <1>1, LoggedTypes DEF EntryAt, Genesis
<1>3. g = [d \in Days |-> IF d \in ds /\ OnDay(all, d) # <<>>
                          THEN [k \in DOMAIN OnDay(all, d) |-> entryOf[OnDay(all, d)[k]]]
                          ELSE f[d]]
  BY <1>1 DEF Rechained, OnDay
<1>4. \A d \in Days : [k \in DOMAIN OnDay(all, d) |-> entryOf[OnDay(all, d)[k]]] = DayFile(all, d)
  <2> TAKE d \in Days
  <2>1. PICK c \in Nat :
          /\ DOMAIN OnDay(all, d) = 1..c
          /\ \A k \in 1..c : OnDay(all, d)[k] \in 1..Len(all)
    BY OnDayIs
  <2>2. \A k \in DOMAIN OnDay(all, d) : entryOf[OnDay(all, d)[k]] = EntryAt(all, OnDay(all, d)[k])
    BY <1>2, <2>1
  <2> QED
    BY <2>2 DEF DayFile
<1>5. \A d \in Days : /\ d \in ds /\ OnDay(all, d) # <<>> => g[d] = DayFile(all, d)
                      /\ d \notin ds \/ OnDay(all, d) = <<>> => g[d] = f[d]
  BY <1>3, <1>4
<1>6. g \in FilesOf(B)
  <2>1. \A d \in Days : g[d] \in Seq(Entries(B))
    BY <1>5, DayFileIs, FileIs
  <2>2. g = [d \in Days |-> g[d]]
    BY <1>3
  <2> QED
    BY <2>1, <2>2 DEF FilesOf
<1> QED
  BY <1>5, <1>6

\* If the days of a log do not decrease, and every file that has a line is
\* rewritten, the files are one chain.
LEMMA RechainedChains ==
  ASSUME NEW B, NEW f \in FilesOf(B), NEW all \in Seq(Logged(B)),
         \A i, j \in 1..Len(all) : i < j => all[i].day <= all[j].day,
         \A d \in Days : Len(f[d]) # 0 => \E i \in 1..Len(all) : all[i].day = d,
         NEW g, g = Rechained(f, all, Days)
  PROVE  Chained(g)
<1>1. /\ g \in FilesOf(B)
      /\ \A d \in Days : /\ OnDay(all, d) # <<>> => g[d] = DayFile(all, d)
                         /\ OnDay(all, d) = <<>> => g[d] = f[d]
  BY RechainedIs
<1>2. \A d \in Days : OnDay(all, d) = <<>> => Len(g[d]) = 0
  <2> SUFFICES ASSUME NEW d \in Days, OnDay(all, d) = <<>> PROVE Len(g[d]) = 0
    OBVIOUS
  <2>1. ~\E i \in 1..Len(all) : all[i].day = d
    <3>1. PICK c \in Nat :
            /\ \A i \in 1..Len(all) : all[i].day = d => \E k \in 1..c : OnDay(all, d)[k] = i
            /\ c = 0 <=> OnDay(all, d) = <<>>
      BY OnDayIs
    <3> QED
      BY <3>1
  <2> QED
    BY <1>1, <2>1
\* The place of a line in the log.
<1> DEFINE Place(x) == OnDay(all, x[1])[x[2]]
<1>3. \A x \in LinesIn(g) : /\ Place(x) \in 1..Len(all) /\ all[Place(x)].day = x[1]
                            /\ g[x[1]][x[2]] = EntryAt(all, Place(x))
  <2> TAKE x \in LinesIn(g)
  <2>1. PICK d \in Days : \E k \in 1..Len(g[d]) : x = <<d, k>>
    BY <1>1, LinesAre
  <2>2. PICK k \in 1..Len(g[d]) : x = <<d, k>>
    BY <2>1
  <2>3. OnDay(all, d) # <<>>
    BY <1>2, <2>2
  <2>4. /\ g[d][k] = EntryAt(all, OnDay(all, d)[k])
        /\ OnDay(all, d)[k] \in 1..Len(all) /\ all[OnDay(all, d)[k]].day = d
    BY <1>1, <2>3, DayFileIs
  <2> QED
    BY <2>2, <2>4
<1>4. \A i \in 1..Len(all) : \E x \in LinesIn(g) : Place(x) = i
  <2> TAKE i \in 1..Len(all)
  <2>1. PICK d \in Days : d = all[i].day
    BY LoggedTypes
  <2>2. OnDay(all, d) # <<>>
    <3>1. PICK c \in Nat :
            /\ \A j \in 1..Len(all) : all[j].day = d => \E k \in 1..c : OnDay(all, d)[k] = j
            /\ c = 0 <=> OnDay(all, d) = <<>>
      BY OnDayIs
    <3> QED
      BY <2>1, <3>1
  <2>3. PICK k \in 1..Len(g[d]) : OnDay(all, d)[k] = i
    BY <1>1, <2>1, <2>2, DayFileIs
  <2>4. <<d, k>> \in LinesIn(g)
    BY <1>1, LinesAre
  <2> QED
    BY <2>3, <2>4
<1>5. \A x, y \in LinesIn(g) : /\ Before(x, y) <=> Place(x) < Place(y)
                               /\ Place(x) = Place(y) => x = y
  <2> TAKE x, y \in LinesIn(g)
  <2>1. PICK d \in Days : \E k \in 1..Len(g[d]) : x = <<d, k>>
    BY <1>1, LinesAre
  <2>2. PICK k \in 1..Len(g[d]) : x = <<d, k>>
    BY <2>1
  <2>3. PICK e \in Days : \E j \in 1..Len(g[e]) : y = <<e, j>>
    BY <1>1, LinesAre
  <2>4. PICK j \in 1..Len(g[e]) : y = <<e, j>>
    BY <2>3
  <2>5. PICK p \in 1..Len(all), q \in 1..Len(all) :
          p = Place(x) /\ q = Place(y) /\ all[p].day = d /\ all[q].day = e
    BY <1>3, <2>2, <2>4
  <2>6. d \in Nat /\ e \in Nat /\ p \in Nat /\ q \in Nat /\ k \in Nat /\ j \in Nat
    BY DEF Days
  <2>7. (p < q => d <= e) /\ (q < p => e <= d) /\ (p = q => d = e)
    BY <2>5
  <2>8. Before(x, y) <=> d < e \/ (d = e /\ k < j)
    BY <2>2, <2>4 DEF Before
  <2>9. CASE d # e
    BY <2>5, <2>6, <2>7, <2>8, <2>9
  <2>10. CASE d = e
    <3>1. g[d] = DayFile(all, d) /\ OnDay(all, d) # <<>>
      BY <1>1, <1>2, <2>2
    <3>2. \A a, b \in 1..Len(g[d]) : a < b <=> OnDay(all, d)[a] < OnDay(all, d)[b]
      BY <3>1, DayFileIs
    <3>3. p = OnDay(all, d)[k] /\ q = OnDay(all, d)[j]
      BY <2>2, <2>4, <2>5, <2>10
    <3>4. (k < j <=> p < q) /\ (j < k <=> q < p)
      BY <2>10, <3>2, <3>3
    <3>5. p = q => k = j
      BY <2>6, <3>4
    <3> QED
      BY <2>2, <2>4, <2>5, <2>6, <2>8, <2>10, <3>4, <3>5
  <2> QED
    BY <2>9, <2>10
<1> HIDE DEF Place
<1>6. ASSUME NEW x \in LinesIn(g)
      PROVE  g[x[1]][x[2]].prev = HashAfter(g, {y \in LinesIn(g) : Before(y, x)})
  <2>1. PICK i \in 1..Len(all) : i = Place(x) /\ g[x[1]][x[2]] = EntryAt(all, i)
    BY <1>3
  <2>2. g[x[1]][x[2]].prev = Genesis(all, i - 1)
    BY <2>1, EntryAtIs
  <2>3. PICK before : before = {y \in LinesIn(g) : Before(y, x)}
    OBVIOUS
  <2>4. \A y \in LinesIn(g) : Place(y) \in 1..Len(all)
    BY <1>3
  <2>5. CASE i = 1
    <3>1. \A y \in LinesIn(g) : ~Before(y, x)
      <4> TAKE y \in LinesIn(g)
      <4>1. PICK j \in 1..Len(all) : j = Place(y)
        BY <2>4
      <4>2. ~(j < i)
        BY <2>5
      <4> QED
        BY <1>5, <2>1, <4>1, <4>2
    <3>2. before = {}
      BY <2>3, <3>1
    <3>3. Genesis(all, i - 1) = <<>>
      <4>1. i - 1 = 0
        BY <2>5
      <4>2. Genesis(all, 0) = <<>>
        BY DEF Genesis
      <4> QED
        BY <4>1, <4>2
    <3> QED
      BY <2>2, <2>3, <3>2, <3>3 DEF HashAfter
  <2>6. CASE i # 1
    <3>1. PICK h \in 1..Len(all) : h = i - 1
      BY <2>6, LoggedTypes
    <3>2. PICK z \in LinesIn(g) : Place(z) = h
      BY <1>4
    <3>3. z \in before
      BY <1>5, <2>1, <2>3, <3>1, <3>2
    <3>4. \A y \in before \ {z} : Before(y, z)
      <4> TAKE y \in before \ {z}
      <4>1. y \in LinesIn(g) /\ Before(y, x) /\ y # z
        BY <2>3
      <4>2. Place(y) < i /\ Place(y) # h
        BY <1>5, <2>1, <3>2, <4>1
      <4>3. Place(y) < h
        BY <2>4, <3>1, <4>1, <4>2
      <4> QED
        BY <1>5, <3>2, <4>1, <4>3
    <3>5. Latest(before) = z
      <4>1. before \in SUBSET LinesIn(g)
        BY <2>3
      <4> QED
        BY <1>1, <3>3, <3>4, <4>1, LatestTold
    <3>6. HashAfter(g, before) = HashOf(EntryAt(all, h))
      BY <1>3, <3>2, <3>3, <3>5 DEF HashAfter, LineIn
    <3>7. HashOf(EntryAt(all, h)) = Genesis(all, h)
      BY EntryAtIs
    <3> QED
      BY <2>2, <2>3, <3>1, <3>6, <3>7
  <2> QED
    BY <2>5, <2>6
<1> QED
  BY <1>6 DEF Chained, LineIn
=============================================================================
