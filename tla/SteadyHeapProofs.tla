-------------------------- MODULE SteadyHeapProofs --------------------------
(***************************************************************************)
(* Proofs about SteadyHeap, for any elements and any keys that are natural *)
(* numbers: the paths of the tree, what moving elements along a path does  *)
(* to the order and to the set of the elements, and from these that every  *)
(* operation keeps the heap a heap and implements PriorityQueue.           *)
(***************************************************************************)
EXTENDS SteadyHeap, SequenceTheorems, WellFoundedInduction, TLAPS

(***************************************************************************)
(* Paths of the tree.  What holds on every path is shown by considering    *)
(* the first position for which it does not.                               *)
(***************************************************************************)

\* A set of naturals that is not empty has a smallest element.
LEMMA LeastNatural ==
    ASSUME NEW S \in SUBSET Nat, S # {} PROVE \E m \in S : \A n \in S : m <= n
<1>1. PICK R : IsWellFoundedOn(R, Nat) /\ \A m, n \in Nat : m < n => <<m, n>> \in R
  <2>1. \A m, n \in Nat : m < n => <<m, n>> \in OpToRel(<, Nat)
      BY DEF OpToRel
  <2> QED BY <2>1, NatLessThanWellFounded
<1>2. PICK m \in S : \A n \in S : <<n, m>> \notin R
  <2>1. IsWellFoundedOn(R, Nat) /\ S \subseteq Nat /\ S # {}
      BY <1>1
  <2> QED BY <2>1, WFMin
<1>3. \A n \in S : ~(n < m)
    BY <1>1, <1>2, Zenon
<1>4. \A n \in S : m <= n
    BY <1>3
<1> QED BY <1>4

\* path holds the paths up from the positions 1 .. i.
Paths(path, i) ==
    path = [n \in 0 .. i |-> IF n = 0 THEN {} ELSE {n} \cup path[n \div 2]]

\* The parent of a position is a position above it, and positions with one
\* parent are brothers.
LEMMA Parent ==
    ASSUME NEW n \in Nat, n >= 1
    PROVE  n \div 2 \in Nat /\ n \div 2 < n /\ (n >= 2 => n \div 2 >= 1)
           /\ 2 * (n \div 2) <= n /\ n <= 2 * (n \div 2) + 1
    OBVIOUS

LEMMA PathsExist == ASSUME NEW i \in Nat PROVE \E path : Paths(path, i)
<1> DEFINE Without == {n \in Nat : ~\E path : Paths(path, n)}
<1> SUFFICES ASSUME Without # {} PROVE FALSE
    OBVIOUS
<1>1. PICK m \in Without : \A n \in Without : m <= n
  <2> HIDE DEF Without
  <2>1. Without \in SUBSET Nat
      BY DEF Without
  <2> QED BY <2>1, LeastNatural
<1>2. CASE m = 0
  <2>1. Paths([n \in 0 .. 0 |-> {}], 0)
      BY DEF Paths
  <2> QED BY <1>1, <1>2, <2>1
<1>3. CASE m # 0
  <2>1. m - 1 \in Nat /\ m - 1 \notin Without /\ m \in Nat
      BY <1>1, <1>3
  <2>2. PICK path : Paths(path, m - 1)
      BY <2>1
  <2>3. \A n \in 0 .. m - 1 : path[n] = IF n = 0 THEN {} ELSE {n} \cup path[n \div 2]
      BY <2>2 DEF Paths
  <2> DEFINE longer == [n \in 0 .. m |-> IF n = m THEN {m} \cup path[m \div 2] ELSE path[n]]
  <2>4. \A n \in 0 .. m : longer[n] = IF n = 0 THEN {} ELSE {n} \cup longer[n \div 2]
    <3>1. longer[m] = {m} \cup path[m \div 2] /\ \A n \in 0 .. m - 1 : longer[n] = path[n]
        BY <2>1
    <3> HIDE DEF longer
    <3> SUFFICES ASSUME NEW n \in 0 .. m
                 PROVE  longer[n] = IF n = 0 THEN {} ELSE {n} \cup longer[n \div 2]
        OBVIOUS
    <3>2. CASE n = 0
      <4>1. 0 \in 0 .. m - 1
          BY <2>1
      <4> QED BY <2>3, <3>1, <3>2, <4>1
    <3>3. CASE n # 0
      <4>1. n \div 2 \in 0 .. m - 1 /\ n \in Nat
          BY <2>1, <3>3, Parent
      <4>2. longer[n \div 2] = path[n \div 2]
          BY <3>1, <4>1
      <4>3. n = m \/ n \in 0 .. m - 1
          BY <2>1
      <4> QED BY <2>3, <3>1, <3>3, <4>2, <4>3
    <3> QED BY <3>2, <3>3
  <2>5. Paths(longer, m)
    <3>1. [n \in 0 .. m |-> IF n = 0 THEN {} ELSE {n} \cup longer[n \div 2]]
              = [n \in 0 .. m |-> longer[n]]
        BY <2>4
    <3>2. longer = [n \in 0 .. m |-> longer[n]]
        OBVIOUS
    <3> QED BY <3>1, <3>2 DEF Paths
  <2> QED BY <1>1, <2>5
<1> QED BY <1>2, <1>3

LEMMA PathsUnique ==
    ASSUME NEW i \in Nat, NEW f, Paths(f, i),
           NEW j \in Nat, NEW g, Paths(g, j), i <= j
    PROVE  f[i] = g[i]
<1> DEFINE Differ == {n \in 0 .. i : f[n] # g[n]}
<1> SUFFICES ASSUME Differ # {} PROVE FALSE
    OBVIOUS
<1>1. PICK m \in Differ : \A n \in Differ : m <= n
  <2>1. Differ \in SUBSET Nat
      OBVIOUS
  <2> HIDE DEF Differ
  <2> QED BY <2>1, LeastNatural
<1>2. /\ f[m] = IF m = 0 THEN {} ELSE {m} \cup f[m \div 2]
      /\ g[m] = IF m = 0 THEN {} ELSE {m} \cup g[m \div 2]
  <2>1. m \in 0 .. i /\ m \in 0 .. j
      BY <1>1
  <2>2. f[m] = IF m = 0 THEN {} ELSE {m} \cup f[m \div 2]
      BY <2>1 DEF Paths
  <2>3. g[m] = IF m = 0 THEN {} ELSE {m} \cup g[m \div 2]
      BY <2>1 DEF Paths
  <2> QED BY <2>2, <2>3
<1>3. m # 0 /\ f[m] # g[m] /\ m \in 0 .. i
    BY <1>1, <1>2
<1>4. m \div 2 \in 0 .. i /\ m \div 2 \notin Differ
    BY <1>1, <1>3, Parent
<1>5. f[m \div 2] = g[m \div 2]
    BY <1>4
<1> QED BY <1>2, <1>3, <1>5

\* The path up from a position is that position and the path up from its parent.
LEMMA PathStep ==
    /\ PathUp(0) = {}
    /\ \A i \in Nat \ {0} : PathUp(i) = {i} \cup PathUp(i \div 2)
<1>1. ASSUME NEW i \in Nat PROVE \E f : Paths(f, i) /\ PathUp(i) = f[i]
  <2> DEFINE chosen == CHOOSE f : Paths(f, i)
  <2>1. Paths(chosen, i)
      BY PathsExist
  <2>2. PathUp(i) = chosen[i]
      BY DEF PathUp, Paths
  <2> QED BY <2>1, <2>2
<1>2. PathUp(0) = {}
  <2>1. PICK f : Paths(f, 0) /\ PathUp(0) = f[0]
      BY <1>1
  <2> QED BY <2>1 DEF Paths
<1>3. ASSUME NEW i \in Nat \ {0} PROVE PathUp(i) = {i} \cup PathUp(i \div 2)
  <2>1. i \div 2 \in Nat /\ i \div 2 <= i
      BY Parent
  <2>2. PICK f : Paths(f, i) /\ PathUp(i) = f[i]
      BY <1>1
  <2>3. PICK g : Paths(g, i \div 2) /\ PathUp(i \div 2) = g[i \div 2]
      BY <1>1, <2>1
  <2>4. f[i \div 2] = g[i \div 2]
      BY <2>1, <2>2, <2>3, PathsUnique
  <2>5. f[i] = {i} \cup f[i \div 2]
      BY <2>2 DEF Paths
  <2> QED BY <2>2, <2>3, <2>4, <2>5
<1> QED BY <1>2, <1>3

\* What a path is: it leads from i to the top through all positions between,
\* and the next one above n is n \div 2.
PathOK(i) ==
    /\ i \in PathUp(i) /\ 1 \in PathUp(i)
    /\ \A n \in PathUp(i) : n \in 1 .. i
    /\ \A n \in PathUp(i) : n >= 2 => n \div 2 \in PathUp(i)
    /\ \A m, n \in PathUp(i) : m < n => m <= n \div 2
    /\ \A n \in PathUp(i) \ {i} : \E c \in PathUp(i) : c \div 2 = n

LEMMA PathFacts == \A i \in Nat \ {0} : PathOK(i)
<1> DEFINE Bad == {i \in Nat \ {0} : ~PathOK(i)}
<1> SUFFICES ASSUME Bad # {} PROVE FALSE
    OBVIOUS
<1>1. PICK i \in Bad : \A n \in Bad : i <= n
  <2>1. Bad \in SUBSET Nat
      OBVIOUS
  <2> HIDE DEF Bad
  <2> QED BY <2>1, LeastNatural
<1>2. i \in Nat \ {0} /\ PathUp(i) = {i} \cup PathUp(i \div 2)
    BY <1>1, PathStep
<1>3. CASE i = 1
  <2>1. PathUp(1) = {1}
    <3>1. 1 \div 2 = 0
        OBVIOUS
    <3> QED BY <1>2, <1>3, <3>1, PathStep
  <2>2. PathOK(1)
      BY <2>1 DEF PathOK
  <2> QED BY <1>1, <1>3, <2>2
<1>4. CASE i # 1
  <2> DEFINE p == i \div 2
  <2>1. p \in Nat \ {0} /\ p < i /\ i \in Nat
      BY <1>2, <1>4, Parent
  <2>2. PathOK(p)
      BY <1>1, <2>1
  <2>3. /\ p \in PathUp(p) /\ 1 \in PathUp(p)
        /\ \A n \in PathUp(p) : n \in 1 .. p
        /\ \A n \in PathUp(p) : n >= 2 => n \div 2 \in PathUp(p)
        /\ \A m, n \in PathUp(p) : m < n => m <= n \div 2
        /\ \A n \in PathUp(p) \ {p} : \E c \in PathUp(p) : c \div 2 = n
      BY <2>2 DEF PathOK
  <2>4. PathUp(i) = {i} \cup PathUp(p) /\ i \div 2 = p
      BY <1>2
  <2> HIDE DEF p
  <2>5. i \in PathUp(i) /\ 1 \in PathUp(i)
      BY <2>3, <2>4
  <2>6. \A n \in PathUp(i) : n \in 1 .. i
      BY <2>1, <2>3, <2>4
  <2>7. \A n \in PathUp(i) : n >= 2 => n \div 2 \in PathUp(i)
      BY <2>3, <2>4
  <2>8. \A m, n \in PathUp(i) : m < n => m <= n \div 2
    <3> SUFFICES ASSUME NEW m \in PathUp(i), NEW n \in PathUp(i), m < n PROVE m <= n \div 2
        OBVIOUS
    <3>1. m # i
        BY <2>1, <2>6
    <3>2. m \in PathUp(p) /\ m <= p
        BY <2>3, <2>4, <3>1
    <3>3. CASE n = i
        BY <2>4, <3>2, <3>3
    <3>4. CASE n # i
        BY <2>3, <2>4, <3>2, <3>4
    <3> QED BY <3>3, <3>4
  <2>9. \A n \in PathUp(i) \ {i} : \E c \in PathUp(i) : c \div 2 = n
      BY <2>3, <2>4
  <2>10. PathOK(i)
      BY <2>5, <2>6, <2>7, <2>8, <2>9 DEF PathOK
  <2> QED BY <1>1, <2>10
<1> QED BY <1>3, <1>4

\* Two positions of a path with the same parent are the same.
LEMMA OneChild ==
    ASSUME NEW i \in Nat \ {0}, NEW m \in PathUp(i), NEW n \in PathUp(i),
           m \div 2 = n \div 2
    PROVE  m = n
<1>1. m \in Nat \ {0} /\ n \in Nat \ {0}
    BY PathFacts DEF PathOK
<1>2. (m < n => m <= n \div 2) /\ (n < m => n <= m \div 2)
    BY PathFacts DEF PathOK
<1>3. m \div 2 < m /\ n \div 2 < n /\ m \div 2 \in Nat
    BY <1>1, Parent
<1> QED BY <1>1, <1>2, <1>3

(***************************************************************************)
(* Moving elements.                                                        *)
(***************************************************************************)

\* A set of positions that is not empty has a last one.
LEMMA GreatestPosition ==
    ASSUME NEW l \in Nat, NEW S \in SUBSET (1 .. l), S # {}
    PROVE  Max(S) \in S /\ \A n \in S : n <= Max(S)
<1> DEFINE Below == {l - n : n \in S}
<1>1. Below \in SUBSET Nat /\ Below # {}
  <2>1. \A n \in S : l - n \in Nat
      OBVIOUS
  <2> QED BY <2>1
<1>2. PICK b \in Below : \A c \in Below : b <= c
  <2> HIDE DEF Below
  <2> QED BY <1>1, LeastNatural
<1>3. PICK m \in S : b = l - m
    BY <1>2
<1>4. \A n \in S : m >= n
  <2> SUFFICES ASSUME NEW n \in S PROVE m >= n
      OBVIOUS
  <2>1. l - m <= l - n /\ m \in Int /\ n \in Int
      BY <1>2, <1>3
  <2> QED BY <2>1
<1>5. Max(S) \in S /\ \A n \in S : Max(S) >= n
    BY <1>4 DEF Max
<1>6. \A n \in S : n \in Int
    OBVIOUS
<1> QED BY <1>5, <1>6

\* h is an array of l elements.
Array(h, l) == h \in [1 .. l -> Elements]

\* from takes each of the positions S once, to fill m positions.
TakesOnce(from, m, S) ==
    /\ from \in [1 .. m -> S]
    /\ \A a, b \in 1 .. m : from[a] = from[b] => a = b
    /\ \A n \in S : \E a \in 1 .. m : from[a] = n

\* The m elements of h it takes, and the elements at some positions.
Rearrange(h, from, m) == [n \in 1 .. m |-> h[from[n]]]
ElementsAt(h, S) == {h[n] : n \in S}

\* An array whose elements come from different places of an array has each of
\* them once, if that one has.
LEMMA Rearranged ==
    ASSUME NEW l \in Nat, NEW h, Array(h, l), NEW m \in Nat,
           NEW S, \A n \in S : n \in 1 .. l, NEW from, TakesOnce(from, m, S)
    PROVE  /\ Array(Rearrange(h, from, m), m)
           /\ IsInjective(h) => IsInjective(Rearrange(h, from, m))
           /\ Range(Rearrange(h, from, m)) = ElementsAt(h, S)
<1> DEFINE g == Rearrange(h, from, m)
<1>0. g = [n \in 1 .. m |-> h[from[n]]]
    BY DEF Rearrange
<1> HIDE DEF g
<1> USE <1>0 DEF TakesOnce, Array
<1>1. g \in [1 .. m -> Elements]
    OBVIOUS
<1>2. ASSUME IsInjective(h) PROVE IsInjective(g)
  <2>1. \A a, b \in 1 .. l : h[a] = h[b] => a = b
      BY <1>2 DEF IsInjective
  <2>2. \A a \in 1 .. m : g[a] = h[from[a]] /\ from[a] \in 1 .. l
      OBVIOUS
  <2>3. ASSUME NEW a \in 1 .. m, NEW b \in 1 .. m, g[a] = g[b] PROVE a = b
    <3>1. from[a] = from[b]
        BY <2>1, <2>2, <2>3
    <3> QED BY <3>1
  <2>4. DOMAIN g = 1 .. m
      OBVIOUS
  <2> QED BY <2>3, <2>4 DEF IsInjective
<1>3. Range(g) = {h[n] : n \in S}
  <2>1. Range(g) = {h[from[a]] : a \in 1 .. m}
      BY DEF Range
  <2>2. ASSUME NEW a \in 1 .. m PROVE from[a] \in S
      OBVIOUS
  <2>3. ASSUME NEW n \in S PROVE \E a \in 1 .. m : from[a] = n
      OBVIOUS
  <2>4. {h[from[a]] : a \in 1 .. m} \subseteq {h[n] : n \in S}
      BY <2>2
  <2>5. {h[n] : n \in S} \subseteq {h[from[a]] : a \in 1 .. m}
      BY <2>3
  <2> QED BY <2>1, <2>4, <2>5
<1> QED BY <1>1, <1>2, <1>3 DEF g, ElementsAt

\* Where MoveUp takes the element at n from.
Source(l, i, j) ==
    [n \in 1 .. l |-> IF n = j THEN i
                      ELSE IF n > j /\ n \in PathUp(i) THEN n \div 2
                      ELSE n]

\* It takes every element once.
LEMMA SourcePermutes ==
    ASSUME NEW l \in Nat, NEW i \in 1 .. l, NEW j \in PathUp(i)
    PROVE  TakesOnce(Source(l, i, j), l, 1 .. l)
<1> DEFINE S == Source(l, i, j)
           P == PathUp(i)
<1>1. /\ i \in P /\ j \in 1 .. i
      /\ \A n \in P : n \in 1 .. i
      /\ \A n \in P : n >= 2 => n \div 2 \in P
      /\ \A m, n \in P : m < n => m <= n \div 2
      /\ \A n \in P \ {i} : \E c \in P : c \div 2 = n
    BY PathFacts DEF PathOK
<1>2. \A a \in 1 .. l : S[a] = IF a = j THEN i ELSE IF a > j /\ a \in P THEN a \div 2 ELSE a
    BY DEF Source
<1>3. \A a \in 1 .. l : a > j /\ a \in P => /\ a \div 2 \in P /\ a \div 2 \in 1 .. l
                                          /\ j <= a \div 2 /\ a \div 2 < i
  <2> SUFFICES ASSUME NEW a \in 1 .. l, a > j, a \in P
               PROVE  /\ a \div 2 \in P /\ a \div 2 \in 1 .. l
                      /\ j <= a \div 2 /\ a \div 2 < i
      OBVIOUS
  <2>1. a >= 2 /\ a <= i /\ a \in Nat
      BY <1>1
  <2>2. a \div 2 \in P /\ j <= a \div 2
      BY <1>1, <2>1
  <2>3. a \div 2 \in 1 .. i /\ a \div 2 < a
      BY <1>1, <2>1, <2>2, Parent
  <2> QED BY <2>1, <2>2, <2>3
<1>4. S = Source(l, i, j) /\ DOMAIN S = 1 .. l
    BY DEF Source
<1>5. S \in [1 .. l -> 1 .. l]
  <2>1. \A a \in 1 .. l : S[a] \in 1 .. l
      BY <1>2, <1>3
  <2>2. S = [a \in 1 .. l |-> S[a]]
      BY DEF Source
  <2> HIDE DEF S
  <2> QED BY <2>1, <2>2
<1> HIDE DEF S
<1>6. ASSUME NEW a \in 1 .. l, NEW b \in 1 .. l, S[a] = S[b] PROVE a = b
  <2>1. CASE a > j /\ a \in P /\ b > j /\ b \in P
    <3>1. a \div 2 = b \div 2
        BY <1>2, <1>6, <2>1
    <3> QED BY <2>1, <3>1, OneChild DEF P
  <2>2. CASE (a > j /\ a \in P) /\ ~(b > j /\ b \in P)
      BY <1>1, <1>2, <1>3, <1>6, <2>2
  <2>3. CASE ~(a > j /\ a \in P) /\ (b > j /\ b \in P)
      BY <1>1, <1>2, <1>3, <1>6, <2>3
  <2>4. CASE ~(a > j /\ a \in P) /\ ~(b > j /\ b \in P)
      BY <1>1, <1>2, <1>6, <2>4
  <2> QED BY <2>1, <2>2, <2>3, <2>4
<1>7. ASSUME NEW n \in 1 .. l PROVE \E a \in 1 .. l : S[a] = n
  <2>1. CASE n = i
    <3>1. j \in 1 .. l
        BY <1>1
    <3> QED BY <1>2, <2>1, <3>1
  <2>2. CASE n # i /\ n \in P /\ n >= j
    <3>1. PICK c \in P : c \div 2 = n
        BY <1>1, <2>2
    <3>2. c \in 1 .. l /\ c > j
      <4>1. c \in 1 .. i
          BY <1>1
      <4>2. c \div 2 < c
          BY <4>1, Parent
      <4> QED BY <1>1, <2>2, <3>1, <4>1, <4>2
    <3> QED BY <1>2, <3>1, <3>2
  <2>3. CASE n # i /\ ~(n \in P /\ n >= j)
      BY <1>1, <1>2, <2>3
  <2> QED BY <2>1, <2>2, <2>3
<1> QED BY <1>4, <1>5, <1>6, <1>7 DEF TakesOnce

\* MoveUp loses and doubles no element.
LEMMA MoveUpKeeps ==
    ASSUME NEW l \in Nat, NEW h, Array(h, l), NEW i \in 1 .. l,
           NEW j \in PathUp(i)
    PROVE  /\ Array(MoveUp(h, i, j), l)
           /\ IsInjective(h) => IsInjective(MoveUp(h, i, j))
           /\ Range(MoveUp(h, i, j)) = Range(h)
<1> DEFINE g == MoveUp(h, i, j)
           from == Source(l, i, j)
<1>1. TakesOnce(from, l, 1 .. l)
    BY SourcePermutes
<1>2. g = Rearrange(h, from, l)
  <2>1. \A n \in 1 .. l : h[from[n]] = IF n = j THEN h[i]
                                      ELSE IF n > j /\ n \in PathUp(i) THEN h[n \div 2]
                                      ELSE h[n]
      BY DEF Source
  <2>2. DOMAIN h = 1 .. l
      BY DEF Array
  <2> HIDE DEF from
  <2> QED BY <2>1, <2>2 DEF MoveUp, Rearrange
<1> HIDE DEF g, from
<1>3. /\ Array(g, l)
      /\ IsInjective(h) => IsInjective(g)
      /\ Range(g) = ElementsAt(h, 1 .. l)
    BY <1>1, <1>2, Rearranged
<1>4. Range(h) = ElementsAt(h, 1 .. l)
    BY DEF Range, ElementsAt, Array
<1> QED BY <1>3, <1>4 DEF g

(***************************************************************************)
(* The order.                                                              *)
(***************************************************************************)

OrderedAt(h, k, n) == k[h[n \div 2]] <= k[h[n]]

AllOrdered(h, k, l) == \A n \in 2 .. l : OrderedAt(h, k, n)

\* The element at i may be earlier than its parent.
OrderedBut(h, k, l, i) == \A n \in 2 .. l : n # i => OrderedAt(h, k, n)

\* The element at the top may be anything.
OrderedBelow(h, k, l) == \A n \in 2 .. l : n \div 2 >= 2 => OrderedAt(h, k, n)

\* What sifting up from a leaf does: every element that it passes is put below
\* an earlier one.
LEMMA SiftUpOrders ==
    ASSUME NEW l \in Nat, NEW h, Array(h, l), NEW k \in [Elements -> Nat],
           NEW i \in 1 .. l, 2*i > l, OrderedBut(h, k, l, i)
    PROVE  /\ Array(SiftUp(h, k, i), l)
           /\ IsInjective(h) => IsInjective(SiftUp(h, k, i))
           /\ Range(SiftUp(h, k, i)) = Range(h)
           /\ AllOrdered(SiftUp(h, k, i), k, l)
<1> DEFINE P == PathUp(i)
           stops == {m \in P : m = 1 \/ k[h[m \div 2]] <= k[h[i]]}
           j == Max(stops)
           g == MoveUp(h, i, j)
<1>1. /\ i \in P /\ 1 \in P /\ i \in Nat \ {0}
      /\ \A n \in P : n \in 1 .. i
      /\ \A n \in P : n >= 2 => n \div 2 \in P
      /\ \A m, n \in P : m < n => m <= n \div 2
      /\ \A n \in P \ {i} : \E c \in P : c \div 2 = n
    BY PathFacts DEF PathOK
<1>2. j \in stops /\ \A n \in stops : n <= j
  <2>1. stops \in SUBSET (1 .. i) /\ stops # {}
      BY <1>1
  <2> HIDE DEF stops
  <2> QED BY <1>1, <2>1, GreatestPosition
<1>3. /\ j \in P /\ j \in 1 .. i
      /\ j = 1 \/ k[h[j \div 2]] <= k[h[i]]
      /\ \A n \in P : n > j => ~(k[h[n \div 2]] <= k[h[i]])
  <2>1. j \in P /\ (j = 1 \/ k[h[j \div 2]] <= k[h[i]])
      BY <1>2
  <2>2. j \in 1 .. i
      BY <1>1, <2>1
  <2>3. ASSUME NEW n \in P, n > j PROVE ~(k[h[n \div 2]] <= k[h[i]])
    <3>1. n \in Int
        BY <1>1
    <3>2. n \notin stops
      <4> HIDE DEF stops, j
      <4> QED BY <1>2, <2>2, <2>3, <3>1
    <3> QED BY <3>2
  <2> QED BY <2>1, <2>2, <2>3
<1> HIDE DEF j
<1>4. \A n \in 1 .. l : k[h[n]] \in Nat
    BY DEF Array
<1>5. SiftUp(h, k, i) = g
    BY DEF SiftUp, j
<1>6. Array(g, l) /\ (IsInjective(h) => IsInjective(g)) /\ Range(g) = Range(h)
    BY <1>3, MoveUpKeeps
<1>7. \A n \in 1 .. l : g[n] = IF n = j THEN h[i]
                               ELSE IF n > j /\ n \in P THEN h[n \div 2]
                               ELSE h[n]
    BY DEF MoveUp, Array
<1> HIDE DEF P, g
<1>8. ASSUME NEW n \in 2 .. l PROVE k[g[n \div 2]] <= k[g[n]]
  <2> DEFINE p == n \div 2
  <2>1. p \in 1 .. l /\ p < n /\ n \in 1 .. l /\ 2*p <= n
      BY Parent
  <2>2. n # i => k[h[p]] <= k[h[n]]
      BY DEF OrderedBut, OrderedAt
  <2>3. p # i
      BY <2>1
  <2>4. p >= 2 => k[h[p \div 2]] <= k[h[p]]
      BY <2>1, <2>3 DEF OrderedBut, OrderedAt
  <2>5. k[h[p]] \in Nat /\ k[h[n]] \in Nat /\ k[h[i]] \in Nat
        /\ (p >= 2 => k[h[p \div 2]] \in Nat)
    <3>1. p >= 2 => p \div 2 \in 1 .. l
        BY <2>1, Parent
    <3> QED BY <1>4, <2>1, <3>1
  <2>6. n \in P => p \in P
      BY <1>1
  <2>7. p = n \div 2
      OBVIOUS
  <2> HIDE DEF p
  <2> SUFFICES k[g[p]] <= k[g[n]]
      BY <2>7
  <2>8. CASE n \in P /\ n > j
    <3>1. p \in P /\ p >= j /\ g[n] = h[p] /\ ~(k[h[p]] <= k[h[i]])
        BY <1>1, <1>3, <1>7, <2>1, <2>6, <2>7, <2>8
    <3>2. CASE p = j
        BY <1>7, <2>1, <2>5, <3>1, <3>2
    <3>3. CASE p # j
      <4>1. p > j /\ p >= 2
          BY <1>3, <2>1, <3>1, <3>3
      <4>2. g[p] = h[p \div 2]
          BY <1>7, <2>1, <3>1, <4>1
      <4> QED BY <2>4, <3>1, <4>1, <4>2
    <3> QED BY <3>2, <3>3
  <2>9. CASE n = j
    <3>1. g[n] = h[i] /\ g[p] = h[p]
        BY <1>7, <2>1, <2>9
    <3>2. k[h[p]] <= k[h[i]]
        BY <1>3, <2>7, <2>9
    <3> QED BY <3>1, <3>2
  <2>10. CASE n \in P /\ n < j
    <3>1. g[n] = h[n] /\ g[p] = h[p] /\ n # i
        BY <1>3, <1>7, <2>1, <2>10
    <3> QED BY <2>2, <3>1
  <2>11. CASE n \notin P
    <3>1. g[n] = h[n] /\ n # i
        BY <1>1, <1>3, <1>7, <2>1, <2>11
    <3>2. CASE p = j
      <4>1. PICK c \in P : c \div 2 = p
          BY <1>1, <1>3, <2>3, <3>2
      <4>2. c > j
        <5>1. c \in Nat /\ c >= 1
            BY <1>1
        <5> QED BY <3>2, <4>1, <5>1, Parent
      <4>3. ~(k[h[p]] <= k[h[i]]) /\ g[p] = h[i]
          BY <1>3, <1>7, <2>1, <3>2, <4>1, <4>2
      <4> QED BY <2>2, <2>5, <3>1, <4>3
    <3>3. CASE p \in P /\ p > j
      <4>1. p >= 2 /\ g[p] = h[p \div 2]
          BY <1>3, <1>7, <2>1, <3>3
      <4> QED BY <2>2, <2>4, <2>5, <3>1, <4>1
    <3>4. CASE p # j /\ ~(p \in P /\ p > j)
      <4>1. g[p] = h[p]
          BY <1>7, <2>1, <3>4
      <4> QED BY <2>2, <3>1, <4>1
    <3> QED BY <3>2, <3>3, <3>4
  <2> QED BY <1>3, <2>1, <2>7, <2>8, <2>9, <2>10, <2>11
<1>9. AllOrdered(g, k, l)
    BY <1>8 DEF AllOrdered, OrderedAt
<1> QED BY <1>5, <1>6, <1>9

(***************************************************************************)
(* Popping.                                                                *)
(***************************************************************************)

LEMMA EarlierChildFacts ==
    ASSUME NEW l \in Nat, NEW h, Array(h, l), NEW k \in [Elements -> Nat],
           NEW n \in 1 .. l, 2*n <= l
    PROVE  /\ EarlierChild(h, k, n) \in 1 .. l
           /\ EarlierChild(h, k, n) \div 2 = n
           /\ EarlierChild(h, k, n) >= 2*n
           /\ \A c \in 1 .. l : c \div 2 = n => k[h[EarlierChild(h, k, n)]] <= k[h[c]]
<1>1. DOMAIN h = 1 .. l /\ \A c \in 1 .. l : k[h[c]] \in Nat
    BY DEF Array
<1>2. 2*n \in 1 .. l /\ (2*n) \div 2 = n /\ (2*n + 1) \div 2 = n
    OBVIOUS
<1>3. ASSUME NEW c \in 1 .. l, c \div 2 = n PROVE c = 2*n \/ c = 2*n + 1
    BY <1>3
<1>4. CASE 2*n + 1 \in 1 .. l /\ k[h[2*n + 1]] <= k[h[2*n]]
  <2>1. EarlierChild(h, k, n) = 2*n + 1
      BY <1>1, <1>4 DEF EarlierChild
  <2>2. \A c \in 1 .. l : c \div 2 = n => k[h[2*n + 1]] <= k[h[c]]
      BY <1>1, <1>3, <1>4
  <2> QED BY <1>2, <1>4, <2>1, <2>2
<1>5. CASE ~(2*n + 1 \in 1 .. l /\ k[h[2*n + 1]] <= k[h[2*n]])
  <2>1. EarlierChild(h, k, n) = 2*n
      BY <1>1, <1>5 DEF EarlierChild
  <2>2. ASSUME NEW c \in 1 .. l, c \div 2 = n PROVE k[h[2*n]] <= k[h[c]]
    <3>1. k[h[2*n]] \in Nat /\ k[h[c]] \in Nat
        BY <1>1, <1>2
    <3>2. CASE c = 2*n
        BY <3>1, <3>2
    <3>3. CASE c = 2*n + 1
        BY <1>5, <3>1, <3>3
    <3> QED BY <1>3, <2>2, <3>2, <3>3
  <2> QED BY <1>2, <2>1, <2>2
<1> QED BY <1>4, <1>5

\* The position i is reached from the top along the earlier children.
Reached(h, k, i) ==
    \A n \in PathUp(i) : n # i => EarlierChild(h, k, n) \in PathUp(i)

\* The earlier children lead to a leaf: the last position that they reach.
LEMMA EarlierLeafFacts ==
    ASSUME NEW l \in Nat \ {0}, NEW h, Array(h, l), NEW k \in [Elements -> Nat]
    PROVE  /\ EarlierLeaf(h, k) \in 1 .. l
           /\ 2 * EarlierLeaf(h, k) > l
           /\ Reached(h, k, EarlierLeaf(h, k))
<1> DEFINE R == {m \in 1 .. l : Reached(h, k, m)}
<1>1. 1 \in R
  <2>1. \A n \in PathUp(1) : n = 1
      BY PathFacts DEF PathOK
  <2> QED BY <2>1 DEF Reached
<1>2. PICK m \in R : \A n \in R : n <= m
  <2>1. R \in SUBSET (1 .. l) /\ R # {}
      BY <1>1
  <2> HIDE DEF R
  <2> QED BY <2>1, GreatestPosition
<1>3. m \in 1 .. l /\ Reached(h, k, m)
    BY <1>2
<1>4. ASSUME 2*m <= l PROVE FALSE
  <2> DEFINE c == EarlierChild(h, k, m)
  <2>1. c \in 1 .. l /\ c \div 2 = m /\ c >= 2*m
      BY <1>3, <1>4, EarlierChildFacts
  <2> HIDE DEF c
  <2>2. PathUp(c) = {c} \cup PathUp(m)
      BY <2>1, PathStep
  <2>3. \A n \in PathUp(c) : n # c => EarlierChild(h, k, n) \in PathUp(c)
      BY <1>3, <2>2 DEF Reached, c
  <2>4. c \in R
      BY <2>1, <2>3 DEF Reached
  <2>5. c <= m
      BY <1>2, <2>4
  <2> QED BY <1>3, <2>1, <2>5
<1>5. DOMAIN h = 1 .. l
    BY DEF Array
<1>6. EarlierLeaf(h, k) = CHOOSE i \in 1 .. l : 2*i \notin 1 .. l /\ Reached(h, k, i)
    BY <1>5 DEF EarlierLeaf, Reached
<1>7. 2*m \notin 1 .. l
    BY <1>4
<1>8. /\ EarlierLeaf(h, k) \in 1 .. l /\ Reached(h, k, EarlierLeaf(h, k))
      /\ 2 * EarlierLeaf(h, k) \notin 1 .. l
    BY <1>3, <1>6, <1>7
<1> QED BY <1>8

\* Where Sink takes the element at n from: l + 1 stands for the one that fills
\* the hole.
SinkSource(h, k, l) ==
    [n \in 1 .. l |-> IF n = EarlierLeaf(h, k) THEN l + 1
                      ELSE IF n \in PathUp(EarlierLeaf(h, k)) THEN EarlierChild(h, k, n)
                      ELSE n]

\* The path on which the hole sinks, and the children that move up along it.
LEMMA SinkPath ==
    ASSUME NEW l \in Nat \ {0}, NEW h, Array(h, l), NEW k \in [Elements -> Nat],
           NEW leaf, leaf = EarlierLeaf(h, k), NEW n \in PathUp(leaf), n # leaf
    PROVE  /\ n \in 1 .. l /\ n < leaf /\ 2*n <= l
           /\ EarlierChild(h, k, n) \in PathUp(leaf)
           /\ EarlierChild(h, k, n) \in 2 .. l
           /\ EarlierChild(h, k, n) \div 2 = n
<1>1. leaf \in 1 .. l /\ Reached(h, k, leaf)
    BY EarlierLeafFacts
<1>2. n \in 1 .. leaf /\ \E c \in PathUp(leaf) : c \div 2 = n /\ c \in 1 .. leaf
    BY <1>1, PathFacts DEF PathOK
<1>3. 2*n <= l
    BY <1>1, <1>2, Parent
<1>4. n \in 1 .. l /\ n < leaf
    BY <1>1, <1>2
<1>5. /\ EarlierChild(h, k, n) \in 1 .. l
      /\ EarlierChild(h, k, n) \div 2 = n
      /\ EarlierChild(h, k, n) >= 2*n
    BY <1>3, <1>4, EarlierChildFacts
<1>6. EarlierChild(h, k, n) \in PathUp(leaf)
    BY <1>1 DEF Reached
<1>7. EarlierChild(h, k, n) \in 2 .. l
    BY <1>4, <1>5
<1> QED BY <1>3, <1>4, <1>5, <1>6, <1>7

\* All elements but the one at the top stay, each of them once.
LEMMA SinkTakes ==
    ASSUME NEW l \in Nat \ {0}, NEW h, Array(h, l), NEW k \in [Elements -> Nat]
    PROVE  TakesOnce(SinkSource(h, k, l), l, 2 .. l + 1)
<1> DEFINE leaf == EarlierLeaf(h, k)
           P == PathUp(leaf)
           E(n) == EarlierChild(h, k, n)
           S == SinkSource(h, k, l)
<1>1. leaf \in 1 .. l /\ leaf \in P /\ 1 \in P /\ \A n \in P : n \in 1 .. leaf
  <2>1. leaf \in 1 .. l
      BY EarlierLeafFacts
  <2> HIDE DEF leaf
  <2> QED BY <2>1, PathFacts DEF PathOK
<1>2. \A n \in P : n # leaf => E(n) \in P /\ E(n) \in 2 .. l /\ E(n) \div 2 = n
    BY SinkPath
<1>3. \A n \in 1 .. l : S[n] = IF n = leaf THEN l + 1 ELSE IF n \in P THEN E(n) ELSE n
    BY DEF SinkSource
<1>4. S \in [1 .. l -> 2 .. l + 1]
  <2>1. \A n \in 1 .. l : S[n] \in 2 .. l + 1
      BY <1>1, <1>2, <1>3
  <2>2. S = [n \in 1 .. l |-> S[n]]
      BY DEF SinkSource
  <2> HIDE DEF S
  <2> QED BY <2>1, <2>2
<1>5. \A n \in P : n >= 2 => n \div 2 \in P /\ n \div 2 # leaf
  <2>1. \A n \in P : n >= 2 => n \div 2 \in P
      BY <1>1, PathFacts DEF PathOK
  <2>2. \A n \in P : n \div 2 # leaf
    <3>1. \A n \in P : n \div 2 < n /\ n <= leaf /\ n \in Nat /\ leaf \in Nat
        BY <1>1, Parent
    <3> QED BY <3>1
  <2> QED BY <2>1, <2>2
<1>6. \A m, n \in P : m \div 2 = n \div 2 => m = n
    BY <1>1, OneChild
<1> HIDE DEF S, leaf, P, E
<1>7. ASSUME NEW a \in 1 .. l, NEW b \in 1 .. l, S[a] = S[b] PROVE a = b
  <2>1. CASE a = leaf \/ b = leaf
      BY <1>1, <1>2, <1>3, <1>7, <2>1
  <2>2. CASE a # leaf /\ b # leaf /\ a \in P /\ b \in P
      BY <1>2, <1>3, <1>7, <2>2
  <2>3. CASE a # leaf /\ b # leaf /\ ~(a \in P /\ b \in P)
      BY <1>2, <1>3, <1>7, <2>3
  <2> QED BY <2>1, <2>2, <2>3
<1>8. ASSUME NEW n \in 2 .. l + 1 PROVE \E a \in 1 .. l : S[a] = n
  <2>1. CASE n = l + 1
      BY <1>1, <1>3, <2>1
  <2>2. CASE n # l + 1 /\ n \in P
    <3>1. n \div 2 \in P /\ n \div 2 # leaf
        BY <1>5, <2>2
    <3>2. E(n \div 2) = n
        BY <1>2, <1>6, <2>2, <3>1
    <3>3. n \div 2 \in 1 .. l
        BY <1>1, <3>1
    <3> QED BY <1>3, <3>1, <3>2, <3>3
  <2>3. CASE n # l + 1 /\ n \notin P
      BY <1>1, <1>3, <2>3
  <2> QED BY <2>1, <2>2, <2>3
<1> QED BY <1>4, <1>7, <1>8 DEF TakesOnce, S

LEMMA SinkKeeps ==
    ASSUME NEW l \in Nat \ {0}, NEW h, Array(h, l + 1), NEW rest, Array(rest, l),
           \A n \in 1 .. l : rest[n] = h[n], NEW k \in [Elements -> Nat], IsInjective(h)
    PROVE  /\ Array(Sink(rest, k, h[l + 1]), l)
           /\ IsInjective(Sink(rest, k, h[l + 1]))
           /\ Range(Sink(rest, k, h[l + 1])) = Range(h) \ {h[1]}
<1> DEFINE g == Sink(rest, k, h[l + 1])
           from == SinkSource(rest, k, l)
           leaf == EarlierLeaf(rest, k)
<1>1. TakesOnce(from, l, 2 .. l + 1)
    BY SinkTakes
<1>2. g = Rearrange(h, from, l)
  <2>1. DOMAIN rest = 1 .. l /\ DOMAIN h = 1 .. l + 1
      BY DEF Array
  <2>2. \A n \in 1 .. l : h[from[n]] = IF n = leaf THEN h[l + 1]
                                     ELSE IF n \in PathUp(leaf)
                                          THEN rest[EarlierChild(rest, k, n)]
                                     ELSE rest[n]
    <3> SUFFICES ASSUME NEW n \in 1 .. l
                 PROVE  h[from[n]] = IF n = leaf THEN h[l + 1]
                                     ELSE IF n \in PathUp(leaf)
                                          THEN rest[EarlierChild(rest, k, n)]
                                     ELSE rest[n]
        OBVIOUS
    <3>1. from[n] = IF n = leaf THEN l + 1
                    ELSE IF n \in PathUp(leaf) THEN EarlierChild(rest, k, n)
                    ELSE n
        BY DEF SinkSource
    <3>2. n \in PathUp(leaf) /\ n # leaf => EarlierChild(rest, k, n) \in 1 .. l
      <4>1. n \in PathUp(leaf) /\ n # leaf => EarlierChild(rest, k, n) \in 2 .. l
          BY SinkPath
      <4> QED BY <4>1
    <3> HIDE DEF from, leaf
    <3> QED BY <3>1, <3>2
  <2> HIDE DEF from
  <2> QED BY <2>1, <2>2 DEF Sink, Rearrange
<1> HIDE DEF g, from
<1>3. l + 1 \in Nat /\ \A n \in 2 .. l + 1 : n \in 1 .. l + 1
    OBVIOUS
<1>4. /\ Array(g, l) /\ IsInjective(g)
      /\ Range(g) = ElementsAt(h, 2 .. l + 1)
    BY <1>1, <1>2, <1>3, Rearranged
<1>5. ElementsAt(h, 2 .. l + 1) = Range(h) \ {h[1]}
  <2>1. DOMAIN h = 1 .. l + 1
      BY DEF Array
  <2>2. \A n \in 2 .. l + 1 : h[n] # h[1]
      BY <2>1 DEF IsInjective
  <2>3. \A n \in 1 .. l + 1 : n = 1 \/ n \in 2 .. l + 1
      OBVIOUS
  <2> QED BY <2>1, <2>2, <2>3 DEF ElementsAt, Range
<1> QED BY <1>4, <1>5 DEF g

\* Only the element that fills the hole may then be earlier than its parent.
LEMMA SinkOrders ==
    ASSUME NEW l \in Nat \ {0}, NEW h, Array(h, l), NEW k \in [Elements -> Nat],
           OrderedBelow(h, k, l), NEW e
    PROVE  OrderedBut(Sink(h, k, e), k, l, EarlierLeaf(h, k))
<1> DEFINE leaf == EarlierLeaf(h, k)
           P == PathUp(leaf)
           E(n) == EarlierChild(h, k, n)
           g == Sink(h, k, e)
<1>1. /\ leaf \in 1 .. l /\ 2*leaf > l /\ 1 \in P
      /\ \A n \in P : n \in 1 .. leaf
      /\ \A n \in P : n >= 2 => n \div 2 \in P
  <2>1. leaf \in 1 .. l /\ 2*leaf > l
      BY EarlierLeafFacts
  <2> HIDE DEF leaf
  <2> QED BY <2>1, PathFacts DEF PathOK
<1>2. \A n \in P : n # leaf => /\ n < leaf /\ 2*n <= l
                              /\ E(n) \in P /\ E(n) \in 2 .. l /\ E(n) \div 2 = n
    BY SinkPath
<1>3. \A n \in 1 .. l : g[n] = IF n = leaf THEN e ELSE IF n \in P THEN h[E(n)] ELSE h[n]
    BY DEF Sink, Array
<1>4. \A n \in 1 .. l : 2*n <= l => \A c \in 1 .. l : c \div 2 = n => k[h[E(n)]] <= k[h[c]]
    BY EarlierChildFacts
<1>5. \A m, n \in P : m \div 2 = n \div 2 => m = n
    BY <1>1, OneChild
<1>6. \A n \in 2 .. l : n \div 2 >= 2 => k[h[n \div 2]] <= k[h[n]]
    BY DEF OrderedBelow, OrderedAt
<1> HIDE DEF g, leaf, P, E
<1>7. ASSUME NEW n \in 2 .. l, n # leaf PROVE k[g[n \div 2]] <= k[g[n]]
  <2>1. PICK p \in Nat : p = n \div 2 /\ p \in 1 .. l /\ p < n /\ 2*p <= n /\ n \in 1 .. l
    <3>1. n \div 2 \in 1 .. l /\ n \div 2 < n /\ 2 * (n \div 2) <= n
        BY Parent
    <3> QED BY <3>1
  <2> SUFFICES k[g[p]] <= k[g[n]]
      BY <2>1
  <2>2. p # leaf
      BY <1>1, <2>1
  <2>3. CASE n \in P
    <3>1. p \in P /\ g[p] = h[E(p)] /\ g[n] = h[E(n)]
        BY <1>1, <1>3, <1>7, <2>1, <2>2, <2>3
    <3>2. E(p) = n
        BY <1>2, <1>5, <2>1, <2>2, <2>3, <3>1
    <3>3. E(n) \in 2 .. l /\ E(n) \div 2 = n /\ n >= 2
        BY <1>2, <1>7, <2>3
    <3>4. k[h[n]] <= k[h[E(n)]]
        BY <1>6, <3>3
    <3> QED BY <3>1, <3>2, <3>4
  <2>4. CASE n \notin P /\ p \in P
    <3>1. g[p] = h[E(p)] /\ g[n] = h[n]
        BY <1>3, <1>7, <2>1, <2>2, <2>4
    <3>2. 2*p <= l
        BY <1>2, <2>2, <2>4
    <3> QED BY <1>4, <2>1, <3>1, <3>2
  <2>5. CASE n \notin P /\ p \notin P
    <3>1. g[p] = h[p] /\ g[n] = h[n] /\ p >= 2
        BY <1>1, <1>3, <1>7, <2>1, <2>2, <2>5
    <3> QED BY <1>6, <2>1, <3>1
  <2> QED BY <2>3, <2>4, <2>5
<1> QED BY <1>7 DEF OrderedBut, OrderedAt, g, leaf

\* An array of one element or more loses the one at the top, and is a heap again
\* whatever that was.
LEMMA PopFacts ==
    ASSUME NEW h \in Seq(Elements), h # <<>>, IsInjective(h),
           NEW k \in [Elements -> Nat], OrderedBelow(h, k, Len(h))
    PROVE  /\ std_pop_heap(h, k) \in Seq(Elements)
           /\ IsInjective(std_pop_heap(h, k))
           /\ Range(std_pop_heap(h, k)) = Range(h) \ {h[1]}
           /\ AllOrdered(std_pop_heap(h, k), k, Len(std_pop_heap(h, k)))
<1>1. Len(h) \in Nat \ {0} /\ DOMAIN h = 1 .. Len(h) /\ Array(h, Len(h))
    BY EmptySeq, LenProperties DEF Array
<1>2. CASE Len(h) = 1
  <2>1. std_pop_heap(h, k) = <<>>
      BY <1>2 DEF std_pop_heap
  <2>2. Range(h) = {h[1]} /\ DOMAIN <<>> = {} /\ Len(<<>>) = 0
      BY <1>1, <1>2 DEF Range
  <2>3. Range(<<>>) = {} /\ IsInjective(<<>>)
      BY <2>2 DEF Range, IsInjective
  <2>4. AllOrdered(<<>>, k, 0) /\ <<>> \in Seq(Elements)
      BY DEF AllOrdered
  <2> QED BY <2>1, <2>2, <2>3, <2>4
<1>3. CASE Len(h) # 1
  <2>1. PICK l \in Nat \ {0} : Len(h) = l + 1
    <3>1. Len(h) - 1 \in Nat \ {0} /\ Len(h) = (Len(h) - 1) + 1
        BY <1>1, <1>3
    <3> QED BY <3>1
  <2> DEFINE rest == SubSeq(h, 1, l)
             leaf == EarlierLeaf(rest, k)
             sunk == Sink(rest, k, h[l + 1])
             r == std_pop_heap(h, k)
  <2>2. Array(rest, l) /\ \A n \in 1 .. l : rest[n] = h[n]
    <3>1. \A n \in 1 .. l : h[n] \in Elements
        BY <1>1, <2>1
    <3>2. rest = [n \in 1 .. l |-> h[n]]
        BY <1>1, <2>1
    <3> QED BY <3>1, <3>2 DEF Array
  <2>3. r = SiftUp(sunk, k, leaf)
    <3>1. Len(h) - 1 = l /\ Len(h) # 1
        BY <1>3, <2>1
    <3> QED BY <2>1, <3>1 DEF std_pop_heap
  <2> HIDE DEF rest, r
  <2>4. /\ Array(sunk, l) /\ IsInjective(sunk)
        /\ Range(sunk) = Range(h) \ {h[1]}
      BY <1>1, <2>1, <2>2, SinkKeeps
  <2>5. OrderedBelow(rest, k, l)
    <3> SUFFICES ASSUME NEW n \in 2 .. l, n \div 2 >= 2 PROVE OrderedAt(rest, k, n)
        BY DEF OrderedBelow
    <3>1. OrderedAt(h, k, n)
        BY <2>1 DEF OrderedBelow
    <3>2. n \in 1 .. l /\ n \div 2 \in 1 .. l
        BY Parent
    <3> QED BY <2>2, <3>1, <3>2 DEF OrderedAt
  <2>6. OrderedBut(sunk, k, l, leaf)
      BY <2>2, <2>5, SinkOrders
  <2>7. leaf \in 1 .. l /\ 2*leaf > l /\ l \in Nat
      BY <2>2, EarlierLeafFacts
  <2> HIDE DEF sunk, leaf
  <2>8. /\ Array(r, l) /\ IsInjective(r) /\ Range(r) = Range(sunk)
        /\ AllOrdered(r, k, l)
      BY <2>3, <2>4, <2>6, <2>7, SiftUpOrders
  <2>9. r \in Seq(Elements) /\ Len(r) = l
      BY <2>7, <2>8 DEF Array
  <2> QED BY <2>4, <2>8, <2>9 DEF r
<1> QED BY <1>2, <1>3

(***************************************************************************)
(* The other operations.                                                   *)
(***************************************************************************)

LEMMA PushFacts ==
    ASSUME NEW h \in Seq(Elements), IsInjective(h), NEW k \in [Elements -> Nat],
           AllOrdered(h, k, Len(h)), NEW e \in Elements, e \notin Range(h)
    PROVE  /\ std_push_heap(h, k, e) \in Seq(Elements)
           /\ IsInjective(std_push_heap(h, k, e))
           /\ Range(std_push_heap(h, k, e)) = Range(h) \cup {e}
           /\ AllOrdered(std_push_heap(h, k, e), k, Len(std_push_heap(h, k, e)))
<1> DEFINE l == Len(h)
           a == Append(h, e)
           r == std_push_heap(h, k, e)
<1>1. /\ l \in Nat /\ DOMAIN h = 1 .. l /\ DOMAIN a = 1 .. l + 1
      /\ a[l + 1] = e /\ \A n \in 1 .. l : a[n] = h[n] /\ h[n] \in Elements
    OBVIOUS
<1>2. a \in [1 .. l + 1 -> Elements]
  <2>1. a \in Seq(Elements) /\ Len(a) = l + 1
      OBVIOUS
  <2> HIDE DEF a
  <2> QED BY <2>1, LenProperties
<1>3. r = SiftUp(a, k, l + 1)
    BY DEF std_push_heap
<1> HIDE DEF l, a, r
<1>4. Array(a, l + 1)
    BY <1>2 DEF Array
<1>5. IsInjective(a)
    BY <1>1 DEF IsInjective, Range
<1>6. Range(a) = Range(h) \cup {e}
  <2>1. \A n \in 1 .. l + 1 : n = l + 1 \/ n \in 1 .. l
      BY <1>1
  <2>2. \A n \in 1 .. l : n \in 1 .. l + 1
      BY <1>1
  <2>3. l + 1 \in 1 .. l + 1
      BY <1>1
  <2> QED BY <1>1, <2>1, <2>2, <2>3 DEF Range
<1>7. OrderedBut(a, k, l + 1, l + 1)
  <2> SUFFICES ASSUME NEW n \in 2 .. l + 1, n # l + 1 PROVE OrderedAt(a, k, n)
      BY DEF OrderedBut
  <2>1. n \in 2 .. l /\ n \in 1 .. l /\ n \div 2 \in 1 .. l
      BY <1>1, Parent
  <2>2. OrderedAt(h, k, n)
      BY <2>1 DEF AllOrdered, l
  <2> QED BY <1>1, <2>1, <2>2 DEF OrderedAt
<1>8. l + 1 \in Nat /\ l + 1 \in 1 .. l + 1 /\ 2 * (l + 1) > l + 1
    BY <1>1
<1>9. /\ Array(r, l + 1) /\ IsInjective(r) /\ Range(r) = Range(a)
      /\ AllOrdered(r, k, l + 1)
    BY <1>3, <1>4, <1>5, <1>7, <1>8, SiftUpOrders
<1>10. r \in Seq(Elements) /\ Len(r) = l + 1
    BY <1>8, <1>9 DEF Array
<1> QED BY <1>6, <1>9, <1>10 DEF r

\* The element whose key has changed comes to the top, and those that it passes
\* are still in order among each other and with the rest.
LEMMA ForceFacts ==
    ASSUME NEW h \in Seq(Elements), IsInjective(h), NEW e \in Range(h),
           NEW old \in [Elements -> Nat], AllOrdered(h, old, Len(h)),
           NEW k \in [Elements -> Nat], \A f \in Elements \ {e} : k[f] = old[f]
    PROVE  /\ force_to_top(h, e) \in Seq(Elements) /\ force_to_top(h, e) # <<>>
           /\ IsInjective(force_to_top(h, e))
           /\ Range(force_to_top(h, e)) = Range(h)
           /\ force_to_top(h, e)[1] = e
           /\ OrderedBelow(force_to_top(h, e), k, Len(force_to_top(h, e)))
<1> DEFINE l == Len(h)
           i == CHOOSE n \in DOMAIN h : h[n] = e
           g == force_to_top(h, e)
           P == PathUp(i)
<1>1. l \in Nat /\ DOMAIN h = 1 .. l /\ Array(h, l)
    BY LenProperties DEF Array
<1>2. i \in 1 .. l /\ h[i] = e /\ \A n \in 1 .. l : n # i => h[n] # e
  <2>1. \E n \in DOMAIN h : h[n] = e
      BY DEF Range
  <2>2. i \in DOMAIN h /\ h[i] = e
      BY <2>1
  <2> HIDE DEF i
  <2> QED BY <1>1, <2>2 DEF IsInjective
<1> HIDE DEF i
<1>3. /\ i \in P /\ 1 \in P /\ i \in Nat /\ i <= l
      /\ \A n \in P : n \in 1 .. i
      /\ \A n \in P : n >= 2 => n \div 2 \in P
    BY <1>1, <1>2, PathFacts DEF PathOK
<1>4. g = MoveUp(h, i, 1)
    BY DEF force_to_top, i
<1> HIDE DEF l
<1>5. Array(g, l) /\ IsInjective(g) /\ Range(g) = Range(h)
    BY <1>1, <1>2, <1>3, <1>4, MoveUpKeeps
<1>6. \A n \in 1 .. l : g[n] = IF n = 1 THEN e ELSE IF n > 1 /\ n \in P THEN h[n \div 2] ELSE h[n]
    BY <1>1, <1>2, <1>4 DEF MoveUp
<1> HIDE DEF g, P
<1>7. ASSUME NEW n \in 2 .. l, n \div 2 >= 2 PROVE k[g[n \div 2]] <= k[g[n]]
  <2>1. PICK p \in Nat : p = n \div 2 /\ p \in 2 .. l /\ p < n /\ n \in 1 .. l /\ p \in 1 .. l
    <3>1. n \div 2 \in 2 .. l /\ n \div 2 < n /\ n \in 1 .. l /\ n \div 2 \in 1 .. l
        BY <1>1, <1>7, Parent
    <3> QED BY <3>1
  <2>2. PICK q \in Nat : q = p \div 2 /\ q \in 1 .. l /\ q < p
    <3>1. p \div 2 \in 1 .. l /\ p \div 2 < p
        BY <1>1, <2>1, Parent
    <3> QED BY <3>1
  <2> SUFFICES k[g[p]] <= k[g[n]]
      BY <2>1
  <2>3. old[h[p]] <= old[h[n]] /\ old[h[q]] <= old[h[p]]
      BY <2>1, <2>2 DEF AllOrdered, OrderedAt, l
  <2>4. \A m \in 1 .. l : m # i => k[h[m]] = old[h[m]] /\ old[h[m]] \in Nat
      BY <1>1, <1>2 DEF Array
  <2>5. \A m \in 1 .. l : old[h[m]] \in Nat
      BY <1>1 DEF Array
  <2>6. CASE n \in P
    <3>1. p \in P /\ n <= i
        BY <1>3, <2>1, <2>6
    <3>2. g[n] = h[p] /\ g[p] = h[q]
        BY <1>6, <2>1, <2>2, <2>6, <3>1
    <3>3. p # i /\ q # i
        BY <1>3, <2>1, <2>2, <3>1
    <3> QED BY <2>1, <2>2, <2>3, <2>4, <3>2, <3>3
  <2>7. CASE n \notin P
    <3>1. g[n] = h[n] /\ n # i
        BY <1>3, <1>6, <2>1, <2>7
    <3>2. CASE p \in P
      <4>1. g[p] = h[q]
          BY <1>6, <2>1, <2>2, <3>2
      <4>2. q # i
          BY <1>3, <2>2, <3>2
      <4>3. old[h[q]] <= old[h[n]]
          BY <2>1, <2>2, <2>3, <2>5
      <4> QED BY <2>1, <2>2, <2>4, <3>1, <4>1, <4>2, <4>3
    <3>3. CASE p \notin P
      <4>1. g[p] = h[p] /\ p # i
          BY <1>3, <1>6, <2>1, <3>3
      <4> QED BY <2>1, <2>3, <2>4, <3>1, <4>1
    <3> QED BY <3>2, <3>3
  <2> QED BY <2>6, <2>7
<1>8. g \in Seq(Elements) /\ Len(g) = l
    BY <1>1, <1>5 DEF Array
<1>9. l >= 1 /\ g[1] = e /\ g # <<>>
  <2>1. l >= 1
      BY <1>1, <1>2
  <2>2. 1 \in 1 .. l
      BY <1>1, <2>1
  <2> QED BY <1>6, <1>8, <2>1, <2>2, EmptySeq
<1>10. OrderedBelow(g, k, l)
    BY <1>7 DEF OrderedBelow, OrderedAt
<1> QED BY <1>5, <1>8, <1>9, <1>10 DEF g

\* The top of a heap has the earliest key: going up from any position leads to it.
LEMMA TopIsEarliest ==
    ASSUME NEW h \in Seq(Elements), NEW k \in [Elements -> Nat],
           AllOrdered(h, k, Len(h)), NEW n \in 1 .. Len(h)
    PROVE  k[h[1]] <= k[h[n]]
<1> DEFINE Early == {m \in 1 .. Len(h) : ~(k[h[1]] <= k[h[m]])}
<1> SUFFICES ASSUME Early # {} PROVE FALSE
    OBVIOUS
<1>1. Len(h) \in Nat /\ \A m \in 1 .. Len(h) : k[h[m]] \in Nat
    OBVIOUS
<1>2. PICK m \in Early : \A j \in Early : m <= j
  <2>1. Early \in SUBSET Nat
      BY <1>1
  <2> HIDE DEF Early
  <2> QED BY <2>1, LeastNatural
<1>3. m \in 2 .. Len(h) /\ ~(k[h[1]] <= k[h[m]])
    BY <1>1, <1>2
<1>4. m \div 2 \in 1 .. Len(h) /\ m \div 2 < m
    BY <1>1, <1>3, Parent
<1>5. m \div 2 \notin Early
  <2> HIDE DEF Early
  <2> QED BY <1>1, <1>2, <1>3, <1>4
<1>6. k[h[1]] <= k[h[m \div 2]]
    BY <1>4, <1>5
<1>7. k[h[m \div 2]] <= k[h[m]]
    BY <1>3 DEF AllOrdered, OrderedAt
<1>8. 1 \in 1 .. Len(h) /\ m \in 1 .. Len(h)
    BY <1>1, <1>3
<1> QED BY <1>1, <1>3, <1>4, <1>6, <1>7, <1>8

-----------------------------------------------------------------------------
(***************************************************************************)
(* The invariant, and what every step does to the set of the elements.     *)
(***************************************************************************)

IInv == TypeOK /\ HeapOrdered

LEMMA KeysFact == \A k \in [Elements -> Keys] : k \in [Elements -> Nat]
<1>1. \A n \in Keys : n \in Nat
    BY SteadyHeapAssumption
<1> QED BY <1>1

LEMMA Unfolded ==
    ASSUME IInv
    PROVE  /\ heap_ \in Seq(Elements) /\ IsInjective(heap_)
           /\ key \in [Elements -> Nat]
           /\ AllOrdered(heap_, key, Len(heap_))
    BY KeysFact DEF IInv, TypeOK, HeapOrdered, AllOrdered, OrderedAt

LEMMA Folded ==
    ASSUME heap_' \in Seq(Elements), IsInjective(heap_'), key' \in [Elements -> Keys],
           AllOrdered(heap_', key', Len(heap_'))
    PROVE  IInv'
    BY DEF IInv, TypeOK, HeapOrdered, AllOrdered, OrderedAt

\* One key changes.
LEMMA KeyChange ==
    ASSUME IInv, NEW e \in Elements, NEW n \in Keys, key' = [key EXCEPT ![e] = n]
    PROVE  /\ key' \in [Elements -> Keys] /\ key' \in [Elements -> Nat]
           /\ \A f \in Elements \ {e} : key'[f] = key[f]
<1>1. key \in [Elements -> Keys]
    BY DEF IInv, TypeOK
<1>2. key' \in [Elements -> Keys]
    BY <1>1
<1> QED BY <1>1, <1>2, KeysFact

LEMMA InsertKeeps ==
    ASSUME IInv, NEW e \in Elements, NEW n \in Keys, Insert(e, n)
    PROVE  IInv' /\ Range(heap_') = Range(heap_) \cup {e}
<1>1. /\ heap_ \in Seq(Elements) /\ IsInjective(heap_)
      /\ AllOrdered(heap_, key, Len(heap_))
    BY Unfolded
<1>2. /\ e \notin Range(heap_) /\ key' = [key EXCEPT ![e] = n]
      /\ heap_' = std_push_heap(heap_, key', e)
    BY DEF Insert
<1>3. /\ key' \in [Elements -> Keys] /\ key' \in [Elements -> Nat]
      /\ \A f \in Elements \ {e} : key'[f] = key[f]
    BY <1>2, KeyChange
<1>4. AllOrdered(heap_, key', Len(heap_))
  <2> SUFFICES ASSUME NEW i \in 2 .. Len(heap_) PROVE OrderedAt(heap_, key', i)
      BY DEF AllOrdered
  <2>1. Len(heap_) \in Nat /\ i \in 1 .. Len(heap_) /\ i \div 2 \in 1 .. Len(heap_)
      BY <1>1, Parent
  <2>2. \A j \in 1 .. Len(heap_) : heap_[j] \in Elements \ {e}
      BY <1>1, <1>2 DEF Range
  <2>3. OrderedAt(heap_, key, i)
      BY <1>1 DEF AllOrdered
  <2> QED BY <1>3, <2>1, <2>2, <2>3 DEF OrderedAt
<1>5. /\ heap_' \in Seq(Elements) /\ IsInjective(heap_')
      /\ Range(heap_') = Range(heap_) \cup {e}
      /\ AllOrdered(heap_', key', Len(heap_'))
    BY <1>1, <1>2, <1>3, <1>4, PushFacts
<1> QED BY <1>3, <1>5, Folded

LEMMA RemoveFirstKeeps ==
    ASSUME IInv, RemoveFirst
    PROVE  /\ IInv' /\ Range(heap_') = Range(heap_) \ {heap_[1]}
           /\ heap_[1] \in Range(heap_) /\ heap_[1] \in Elements
           /\ \A f \in Range(heap_) : key[heap_[1]] <= key[f]
<1>1. /\ heap_ \in Seq(Elements) /\ IsInjective(heap_)
      /\ key \in [Elements -> Nat]
      /\ AllOrdered(heap_, key, Len(heap_))
    BY Unfolded
<1>2. heap_ # <<>> /\ heap_' = std_pop_heap(heap_, key) /\ key' = key
    BY DEF RemoveFirst
<1>3. OrderedBelow(heap_, key, Len(heap_))
    BY <1>1 DEF AllOrdered, OrderedBelow
<1>4. /\ heap_' \in Seq(Elements) /\ IsInjective(heap_')
      /\ Range(heap_') = Range(heap_) \ {heap_[1]}
      /\ AllOrdered(heap_', key', Len(heap_'))
    BY <1>1, <1>2, <1>3, PopFacts
<1>5. key' \in [Elements -> Keys]
    BY <1>2 DEF IInv, TypeOK
<1>6. /\ Len(heap_) \in Nat \ {0}
      /\ heap_[1] \in Range(heap_) /\ heap_[1] \in Elements
  <2>1. Len(heap_) \in Nat \ {0} /\ DOMAIN heap_ = 1 .. Len(heap_)
      BY <1>1, <1>2, EmptySeq, LenProperties
  <2>2. 1 \in 1 .. Len(heap_)
      BY <2>1
  <2> QED BY <1>1, <2>1, <2>2 DEF Range
<1>7. \A f \in Range(heap_) : key[heap_[1]] <= key[f]
  <2>1. \A i \in 1 .. Len(heap_) : key[heap_[1]] <= key[heap_[i]]
      BY <1>1, TopIsEarliest
  <2>2. DOMAIN heap_ = 1 .. Len(heap_)
      BY <1>1
  <2> QED BY <2>1, <2>2 DEF Range
<1> QED BY <1>4, <1>5, <1>6, <1>7, Folded

\* The forced pop, which Reposition and Remove have in common.
LEMMA ForcePopKeeps ==
    ASSUME IInv, NEW e \in Elements, e \in Range(heap_), NEW n \in Keys,
           key' = [key EXCEPT ![e] = n], NEW r, r = force_pop_heap(heap_, key', e)
    PROVE  /\ r \in Seq(Elements) /\ IsInjective(r)
           /\ Range(r) = Range(heap_) \ {e}
           /\ AllOrdered(r, key', Len(r))
<1> DEFINE g == force_to_top(heap_, e)
<1>1. /\ heap_ \in Seq(Elements) /\ IsInjective(heap_)
      /\ key \in [Elements -> Nat]
      /\ AllOrdered(heap_, key, Len(heap_))
    BY Unfolded
<1>2. /\ key' \in [Elements -> Nat]
      /\ \A f \in Elements \ {e} : key'[f] = key[f]
    BY KeyChange
<1>3. /\ g \in Seq(Elements) /\ g # <<>> /\ IsInjective(g)
      /\ Range(g) = Range(heap_) /\ g[1] = e
      /\ OrderedBelow(g, key', Len(g))
    BY <1>1, <1>2, ForceFacts
<1>4. r = std_pop_heap(g, key')
    BY DEF force_pop_heap
<1> HIDE DEF g
<1>5. PICK h \in Seq(Elements) : h = g
    BY <1>3
<1>6. PICK k \in [Elements -> Nat] : k = key'
    BY <1>2
<1>7. /\ h # <<>> /\ IsInjective(h) /\ Range(h) = Range(heap_) /\ h[1] = e
      /\ OrderedBelow(h, k, Len(h))
    BY <1>3, <1>5, <1>6
<1>8. /\ std_pop_heap(h, k) \in Seq(Elements)
      /\ IsInjective(std_pop_heap(h, k))
      /\ Range(std_pop_heap(h, k)) = Range(h) \ {h[1]}
      /\ AllOrdered(std_pop_heap(h, k), k, Len(std_pop_heap(h, k)))
    BY <1>7, PopFacts
<1>9. r = std_pop_heap(h, k)
    BY <1>4, <1>5, <1>6
<1> QED BY <1>6, <1>7, <1>8, <1>9

LEMMA RepositionKeeps ==
    ASSUME IInv, NEW e \in Elements, NEW n \in Keys, Reposition(e, n)
    PROVE  IInv' /\ Range(heap_') = Range(heap_)
<1>1. /\ e \in Range(heap_) /\ key' = [key EXCEPT ![e] = n]
      /\ heap_' = std_push_heap(force_pop_heap(heap_, key', e), key', e)
    BY DEF Reposition
<1>2. PICK r : r = force_pop_heap(heap_, key', e)
    OBVIOUS
<1>3. /\ r \in Seq(Elements) /\ IsInjective(r)
      /\ Range(r) = Range(heap_) \ {e}
      /\ AllOrdered(r, key', Len(r))
    BY <1>1, <1>2, ForcePopKeeps
<1>4. key' \in [Elements -> Keys] /\ key' \in [Elements -> Nat]
    BY <1>1, KeyChange
<1>5. heap_' = std_push_heap(r, key', e) /\ e \notin Range(r)
    BY <1>1, <1>2, <1>3
<1>6. /\ heap_' \in Seq(Elements) /\ IsInjective(heap_')
      /\ Range(heap_') = Range(r) \cup {e}
      /\ AllOrdered(heap_', key', Len(heap_'))
    BY <1>3, <1>4, <1>5, PushFacts
<1> QED BY <1>1, <1>3, <1>4, <1>6, Folded

LEMMA RemoveKeeps ==
    ASSUME IInv, NEW e \in Elements, NEW n \in Keys, Remove(e, n)
    PROVE  IInv' /\ Range(heap_') = Range(heap_) \ {e}
<1>1. /\ e \in Range(heap_) /\ key' = [key EXCEPT ![e] = n]
      /\ heap_' = force_pop_heap(heap_, key', e)
    BY DEF Remove
<1>2. /\ heap_' \in Seq(Elements) /\ IsInjective(heap_')
      /\ Range(heap_') = Range(heap_) \ {e}
      /\ AllOrdered(heap_', key', Len(heap_'))
    BY <1>1, ForcePopKeeps
<1>3. key' \in [Elements -> Keys]
    BY <1>1, KeyChange
<1> QED BY <1>2, <1>3, Folded

LEMMA AlwaysIInv == Spec => []IInv
<1>1. Init => IInv
  <2> SUFFICES ASSUME Init PROVE IInv
      OBVIOUS
  <2>1. heap_ = <<>> /\ key \in [Elements -> Keys]
      BY DEF Init
  <2>2. heap_ \in Seq(Elements) /\ Len(heap_) = 0 /\ DOMAIN heap_ = {}
      BY <2>1
  <2>3. IsInjective(heap_)
      BY <2>2 DEF IsInjective
  <2>4. HeapOrdered
      BY <2>2 DEF HeapOrdered
  <2> QED BY <2>1, <2>2, <2>3, <2>4 DEF IInv, TypeOK
<1>2. IInv /\ [Next]_vars => IInv'
  <2> SUFFICES ASSUME IInv, [Next]_vars PROVE IInv'
      OBVIOUS
  <2>1. CASE Next
      BY <2>1, InsertKeeps, RemoveFirstKeeps, RepositionKeeps, RemoveKeeps DEF Next
  <2>2. CASE UNCHANGED vars
      BY <2>2 DEF vars, IInv, TypeOK, HeapOrdered
  <2> QED BY <2>1, <2>2
<1> QED BY <1>1, <1>2, PTL DEF Spec
-----------------------------------------------------------------------------
(* What is guaranteed *)

\* Whatever is pushed, popped, forced to the top and repositioned, the array
\* holds elements, and none of them twice (SteadyHeap.h:64-100).
THEOREM HeapTypesAlwaysOK == Spec => []TypeOK
<1>1. IInv => TypeOK
    BY DEF IInv
<1> QED BY <1>1, AlwaysIInv, PTL

\* After each use of force_pop_heap and push_heap with a changed key the array
\* is a heap again, of any size (SteadyHeap.h:76-100, SchedulerImpl.cpp:133-168).
THEOREM HeapAlwaysOrdered == Spec => []HeapOrdered
<1>1. IInv => HeapOrdered
    BY DEF IInv
<1> QED BY <1>1, AlwaysIInv, PTL

\* The array is a priority queue: pop removes an earliest element, force_pop_heap
\* the one asked for, and no operation removes, adds or doubles another
\* (SteadyHeap.h:64-100).
THEOREM HeapImplementsPriorityQueue == Spec => ImplementsPriorityQueue
<1> USE DEF Queue!vars, Queue!Next
<1>1. Init => Queue!Init
  <2>1. Range(<<>>) = {}
      BY DEF Range
  <2> QED BY <2>1 DEF Init, Queue!Init
<1>2. IInv /\ [Next]_vars => [Queue!Next]_(Queue!vars)
  <2> SUFFICES ASSUME IInv, [Next]_vars PROVE Queue!Next \/ UNCHANGED Queue!vars
      OBVIOUS
  <2>1. ASSUME RemoveFirst PROVE Queue!Next
    <3>1. Queue!RemoveFirst(heap_[1]) /\ heap_[1] \in Elements
        BY <2>1, RemoveFirstKeeps DEF RemoveFirst, Queue!RemoveFirst, Queue!Earliest
    <3> QED BY <3>1
  <2>2. ASSUME NEW e \in Elements, NEW n \in Keys, Insert(e, n) PROVE Queue!Next
    <3>1. Queue!Insert(e, n)
        BY <2>2, InsertKeeps DEF Insert, Queue!Insert
    <3> QED BY <3>1
  <2>3. ASSUME NEW e \in Elements, NEW n \in Keys, Reposition(e, n) PROVE Queue!Next
    <3>1. Queue!Reposition(e, n)
        BY <2>3, RepositionKeeps DEF Reposition, Queue!Reposition
    <3> QED BY <3>1
  <2>4. ASSUME NEW e \in Elements, NEW n \in Keys, Remove(e, n) PROVE Queue!Next
    <3>1. Queue!Remove(e, n)
        BY <2>4, RemoveKeeps DEF Remove, Queue!Remove
    <3> QED BY <3>1
  <2>5. CASE UNCHANGED vars
      BY <2>5 DEF vars
  <2> HIDE DEF Queue!Next, Queue!vars
  <2> QED BY <2>1, <2>2, <2>3, <2>4, <2>5 DEF Next
<1> QED BY <1>1, <1>2, AlwaysIInv, PTL DEF Spec, ImplementsPriorityQueue, Queue!Spec
=============================================================================
