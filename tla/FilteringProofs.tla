--------------------------- MODULE FilteringProofs ---------------------------
(***************************************************************************)
(* What a filter keeps.  It is computed by a recursive function, so this   *)
(* takes an induction over the length of the list, which rests on the      *)
(* well-founded order of the subsets of a finite set.                      *)
(***************************************************************************)
EXTENDS Filtering, FiniteSetTheorems, SequenceTheorems, TLAPS

\* A set of naturals has a least element: among the initial segments that its
\* members cut out of a finite one, a least one exists.
LEMMA LeastExists ==
  ASSUME NEW S \in SUBSET Nat, S # {}
  PROVE  \E x \in S : \A y \in S : x =< y
<1>1. PICK n \in S : TRUE
  OBVIOUS
<1> DEFINE Below == {{m \in 0..n : m =< k} : k \in S \intersect 0..n}
<1>2. Below \subseteq FiniteSubsetsOf(0..n) /\ Below # {}
  <2>1. IsFiniteSet(0..n)
    BY <1>1, FS_Interval
  <2>2. FiniteSubsetsOf(0..n) = SUBSET (0..n)
    BY <2>1, FS_FiniteSubsetsOfFinite
  <2>3. Below \subseteq SUBSET (0..n)
    OBVIOUS
  <2>4. {m \in 0..n : m =< n} \in Below
    BY <1>1
  <2> QED
    BY <2>2, <2>3, <2>4
<1>3. PICK t \in Below : \A u \in Below : ~(<<u, t>> \in StrictSubsetOrdering(0..n))
  BY <1>2, FS_StrictSubsetOrderingWellFounded, WFMin
<1>4. PICK k \in S \intersect 0..n : t = {m \in 0..n : m =< k}
  OBVIOUS
<1>5. ASSUME NEW y \in S, y < k
      PROVE  FALSE
  <2> DEFINE u == {m \in 0..n : m =< y}
  <2>1. u \in Below /\ u \subseteq t /\ u # t /\ t \subseteq 0..n
    BY <1>4, <1>5
  <2> QED
    BY <2>1, <1>3 DEF StrictSubsetOrdering
<1> QED
  BY <1>4, <1>5

\* So a statement about naturals up to n holds when it holds for 0 and passes from
\* k to k + 1: T is the set of those it holds for.
LEMMA Counting ==
  ASSUME NEW n \in Nat, NEW T, 0 \in T, \A k \in 0..n : k \in T /\ k < n => k + 1 \in T
  PROVE  0..n \subseteq T
<1> DEFINE S == 0..n \ T
<1>1. SUFFICES ASSUME S # {}
               PROVE  FALSE
  OBVIOUS
<1>2. PICK x \in S : \A y \in S : x =< y
  <2>1. S \in SUBSET Nat
    OBVIOUS
  <2> QED
    BY <1>1, <2>1, LeastExists
<1>3. x # 0 /\ x - 1 \in 0..n
  OBVIOUS
<1>4. x - 1 \notin S
  BY <1>2, <1>3
<1> QED
  BY <1>3, <1>4

\* What is computed from left to right over a list exists, and stays in the set that
\* each step stays in.
Computes(h, X, n, base, G) ==
  h \in [0..n -> X] /\ h[0] = base /\ \A k \in 1..n : h[k] = G[k][h[k - 1]]
LEMMA Recursion ==
  ASSUME NEW X, NEW n \in Nat, NEW base \in X, NEW G \in [1..n -> [X -> X]]
  PROVE  \E h : Computes(h, X, n, base, G)
<1> DEFINE Upto(k) == {g \in [0..k -> X] : g[0] = base /\ \A j \in 1..k : g[j] = G[j][g[j - 1]]}
           Defined == {k \in 0..n : Upto(k) # {}}
<1>1. 0 \in Defined
  <2>1. [k \in 0..0 |-> base] \in Upto(0)
    OBVIOUS
  <2> QED
    BY <2>1
<1>2. ASSUME NEW k \in 0..n, k \in Defined, k < n
      PROVE  k + 1 \in Defined
  <2>1. PICK g \in Upto(k) : TRUE
    BY <1>2
  <2> DEFINE e == [j \in 0..(k + 1) |-> IF j = k + 1 THEN G[k + 1][g[k]] ELSE g[j]]
  <2>2. k + 1 \in 1..n /\ k + 1 \in 0..n /\ k \in 0..k
    BY <1>2
  <2>3. g \in [0..k -> X]
    BY <2>1
  <2>4. G[k + 1][g[k]] \in X
    BY <2>2, <2>3
  <2>5. e \in [0..(k + 1) -> X]
    BY <2>3, <2>4
  <2>6. e[0] = base /\ \A j \in 1..(k + 1) : e[j] = G[j][e[j - 1]]
    <3>1. g[0] = base /\ \A j \in 1..k : g[j] = G[j][g[j - 1]]
      BY <2>1
    <3>2. e[0] = base
      BY <2>2, <3>1
    <3>3. ASSUME NEW j \in 1..(k + 1)
          PROVE  e[j] = G[j][e[j - 1]]
      <4>1. j - 1 \in 0..(k + 1) /\ j - 1 # k + 1 /\ e[j - 1] = g[j - 1]
        BY <2>2, <3>3
      <4>2. CASE j = k + 1
        BY <4>1, <4>2
      <4>3. CASE j # k + 1
        <5>1. j \in 1..k /\ e[j] = g[j]
          BY <2>2, <3>3, <4>3
        <5> QED
          BY <3>1, <4>1, <5>1
      <4> QED
        BY <4>2, <4>3
    <3> QED
      BY <3>2, <3>3
  <2>7. e \in Upto(k + 1)
    BY <2>5, <2>6
  <2> QED
    BY <2>2, <2>7
<1> HIDE DEF Upto
<1>3. n \in Defined
  <2> HIDE DEF Defined
  <2>1. 0..n \subseteq Defined
    BY <1>1, <1>2, Counting
  <2> QED
    BY <2>1
<1>4. PICK g \in Upto(n) : TRUE
  BY <1>3
<1>5. g \in [0..n -> X] /\ g[0] = base /\ \A j \in 1..n : g[j] = G[j][g[j - 1]]
  BY <1>4 DEF Upto
<1> QED
  BY <1>5 DEF Computes

\* A filter goes through the list and appends what is in the set.
FiltersBy(kept, s, S, B) ==
  /\ kept[0] = <<>> /\ Filtered(s, S) = kept[Len(s)]
  /\ \A k \in 0..Len(s) : kept[k] \in Seq(S \intersect B)
  /\ \A k \in 0..Len(s) : k < Len(s) =>
       kept[k + 1] = IF s[k + 1] \in S THEN Append(kept[k], s[k + 1]) ELSE kept[k]
LEMMA FilterSteps ==
  ASSUME NEW B, NEW s \in Seq(B), NEW S
  PROVE  \E kept : FiltersBy(kept, s, S, B)
<1> DEFINE N == Len(s)
           X == Seq(S \intersect B)
           Step(h, k) == IF s[k] \in S THEN Append(h, s[k]) ELSE h
           G == [k \in 1..N |-> [h \in X |-> Step(h, k)]]
           Body(f) == [k \in 0..N |-> IF k = 0 THEN <<>> ELSE Step(f[k - 1], k)]
<1>1. N \in Nat /\ <<>> \in X
  BY EmptySeq
<1>2. ASSUME NEW h \in X, NEW k \in 1..N
      PROVE  Step(h, k) \in X /\ G[k][h] = Step(h, k)
  <2>1. Step(h, k) \in X
    OBVIOUS
  <2> HIDE DEF Step
  <2> QED
    BY <2>1
<1> HIDE DEF Step
<1>3. G \in [1..N -> [X -> X]]
  <2> HIDE DEF X
  <2> QED
    BY <1>2
<1> HIDE DEF G, X
<1>4. PICK g : Computes(g, X, N, <<>>, G)
  <2> HIDE DEF N
  <2> QED
    BY <1>1, <1>3, Recursion
<1>5. g = Body(g)
  <2>1. ASSUME NEW k \in 0..N
        PROVE  g[k] = IF k = 0 THEN <<>> ELSE Step(g[k - 1], k)
    <3> HIDE DEF N
    <3>1. ASSUME k # 0 PROVE k \in 1..N /\ k - 1 \in 0..N
      BY <1>1, <3>1
    <3> QED
      BY <1>2, <1>4, <3>1 DEF Computes
  <2> QED
    BY <1>4, <2>1 DEF Computes
<1> DEFINE kept == CHOOSE f : f = Body(f)
<1>6. kept = Body(kept)
  BY <1>5
<1>7. Filtered(s, S) = kept[N]
  BY DEF Filtered, Step
<1> DEFINE T == {k \in 0..N : kept[k] \in X}
<1> HIDE DEF kept
<1>8. 0 \in T
  BY <1>1, <1>6
<1>9. ASSUME NEW k \in 0..N, k < N
      PROVE  kept[k + 1] = Step(kept[k], k + 1)
  <2>1. k + 1 \in 1..N /\ k + 1 \in 0..N /\ (k + 1) - 1 = k
    BY <1>1, <1>9
  <2>2. kept[k + 1] = Body(kept)[k + 1]
    BY <1>6
  <2>3. Body(kept)[k + 1] = Step(kept[(k + 1) - 1], k + 1)
    BY <2>1
  <2> QED
    BY <2>1, <2>2, <2>3
<1>10. ASSUME NEW k \in 0..N, k \in T, k < N
       PROVE  k + 1 \in T
  <2>1. k + 1 \in 1..N /\ k + 1 \in 0..N
    BY <1>1, <1>10
  <2>2. kept[k + 1] \in X
    BY <1>2, <1>9, <1>10, <2>1
  <2> QED
    BY <2>1, <2>2
<1>11. 0..N \subseteq T
  <2> HIDE DEF T
  <2> QED
    BY <1>1, <1>8, <1>10, Counting
<1>12. kept[0] = <<>>
  <2>1. kept[0] = Body(kept)[0]
    BY <1>6
  <2> QED
    BY <1>1, <2>1
<1>13. \A k \in 0..N : kept[k] \in X
  BY <1>11
<1>14. \A k \in 0..N : k < N => kept[k + 1] = Step(kept[k], k + 1)
  BY <1>9
<1>15. FiltersBy(kept, s, S, B)
  BY <1>7, <1>12, <1>13, <1>14 DEF FiltersBy, X, Step
<1> QED
  BY <1>15

\* What Filtered computes consists of elements of the list that are in the set, and has
\* all of them.
Holds(t, x) == \E j \in 1..Len(t) : t[j] = x
LEMMA FilterComputes ==
  ASSUME NEW B, NEW s \in Seq(B), NEW S
  PROVE  /\ Filtered(s, S) \in Seq(S \intersect B)
         /\ \A i \in 1..Len(s) : s[i] \in S => Holds(Filtered(s, S), s[i])
<1> DEFINE N == Len(s)
<1>1. N \in Nat
  OBVIOUS
<1>2. PICK kept : FiltersBy(kept, s, S, B)
  BY FilterSteps
<1> DEFINE T == {k \in 0..N : \A i \in 1..k : s[i] \in S => Holds(kept[k], s[i])}
<1>3. 0 \in T
  BY <1>1
<1>4. ASSUME NEW k \in 0..N, k \in T, k < N
      PROVE  k + 1 \in T
  <2>1. PICK h : h = kept[k]
    OBVIOUS
  <2>2. h \in Seq(S \intersect B) /\ Len(h) \in Nat
    BY <1>2, <2>1 DEF FiltersBy
  <2>3. kept[k + 1] = IF s[k + 1] \in S THEN Append(h, s[k + 1]) ELSE h
    BY <1>2, <1>4, <2>1 DEF FiltersBy
  <2>4. ASSUME NEW i \in 1..(k + 1), s[i] \in S
        PROVE  Holds(kept[k + 1], s[i])
    <3>1. i # k + 1 => Holds(h, s[i])
      BY <1>4, <2>1, <2>4
    <3>2. CASE s[k + 1] \in S
      <4>1. kept[k + 1] = Append(h, s[k + 1]) /\ s[k + 1] \in S \intersect B
        BY <1>4, <2>3, <3>2
      <4>2. /\ Len(Append(h, s[k + 1])) = Len(h) + 1 /\ Append(h, s[k + 1])[Len(h) + 1] = s[k + 1]
            /\ \A j \in 1..Len(h) : Append(h, s[k + 1])[j] = h[j]
        BY <2>2, <4>1
      <4> QED
        BY <2>2, <3>1, <4>1, <4>2 DEF Holds
    <3>3. CASE s[k + 1] \notin S
      BY <2>3, <2>4, <3>1, <3>3
    <3> QED
      BY <3>2, <3>3
  <2> QED
    BY <1>1, <1>4, <2>4
<1>5. 0..N \subseteq T
  <2> HIDE DEF T
  <2> QED
    BY <1>1, <1>3, <1>4, Counting
<1>6. N \in T
  BY <1>1, <1>5
<1> QED
  BY <1>1, <1>2, <1>6 DEF FiltersBy

\* And it keeps their order.
InTheirOrder(t, s, n) ==
  /\ \A i \in 1..Len(t) : \E a \in 1..n : t[i] = s[a]
  /\ \A i, j \in 1..Len(t) : i < j => \E a, b \in 1..n : a < b /\ t[i] = s[a] /\ t[j] = s[b]
LEMMA FilterOrders ==
  ASSUME NEW B, NEW s \in Seq(B), NEW S
  PROVE  InTheirOrder(Filtered(s, S), s, Len(s))
<1> DEFINE N == Len(s)
<1>1. N \in Nat
  OBVIOUS
<1>2. PICK kept : FiltersBy(kept, s, S, B)
  BY FilterSteps
<1> DEFINE T == {k \in 0..N : InTheirOrder(kept[k], s, k)}
<1>3. 0 \in T
  <2>1. PICK h : h = kept[0]
    OBVIOUS
  <2>2. h = <<>>
    BY <1>2, <2>1 DEF FiltersBy
  <2>3. InTheirOrder(h, s, 0)
    BY <2>2 DEF InTheirOrder
  <2> QED
    BY <1>1, <2>1, <2>3
<1>4. ASSUME NEW k \in 0..N, k \in T, k < N
      PROVE  k + 1 \in T
  <2>1. PICK h, g : h = kept[k] /\ g = kept[k + 1]
    OBVIOUS
  <2>2. h \in Seq(S \intersect B) /\ Len(h) \in Nat /\ InTheirOrder(h, s, k)
    BY <1>2, <1>4, <2>1 DEF FiltersBy
  <2>3. g = IF s[k + 1] \in S THEN Append(h, s[k + 1]) ELSE h
    BY <1>2, <1>4, <2>1 DEF FiltersBy
  <2>4. 1..k \subseteq 1..(k + 1) /\ k + 1 \in 1..(k + 1) /\ \A a \in 1..k : a < k + 1
    BY <1>1
  <2>5. CASE s[k + 1] \in S
    <3>1. g = Append(h, s[k + 1]) /\ s[k + 1] \in S \intersect B
      BY <1>4, <2>3, <2>5
    <3>2. /\ Len(g) = Len(h) + 1 /\ g[Len(h) + 1] = s[k + 1]
          /\ \A j \in 1..Len(h) : g[j] = h[j]
      BY <2>2, <3>1
    <3>3. ASSUME NEW i \in 1..Len(g)
          PROVE  \E a \in 1..(k + 1) : g[i] = s[a]
      <4>1. CASE i = Len(h) + 1
        BY <2>4, <3>2, <4>1
      <4>2. CASE i \in 1..Len(h)
        BY <2>2, <2>4, <3>2, <4>2 DEF InTheirOrder
      <4> QED
        BY <2>2, <3>2, <3>3, <4>1, <4>2
    <3>4. ASSUME NEW i \in 1..Len(g), NEW j \in 1..Len(g), i < j
          PROVE  \E a, b \in 1..(k + 1) : a < b /\ g[i] = s[a] /\ g[j] = s[b]
      <4>1. i \in 1..Len(h)
        BY <2>2, <3>2, <3>4
      <4>2. CASE j = Len(h) + 1
        <5>1. PICK a \in 1..k : g[i] = s[a]
          BY <2>2, <3>2, <4>1 DEF InTheirOrder
        <5>2. g[j] = s[k + 1] /\ a < k + 1
          BY <2>4, <3>2, <4>2
        <5> QED
          BY <2>4, <5>1, <5>2
      <4>3. CASE j \in 1..Len(h)
        <5>1. PICK a \in 1..k, b \in 1..k : a < b /\ h[i] = s[a] /\ h[j] = s[b]
          BY <2>2, <3>4, <4>1, <4>3 DEF InTheirOrder
        <5> QED
          BY <2>4, <3>2, <4>1, <4>3, <5>1
      <4> QED
        BY <2>2, <3>2, <3>4, <4>2, <4>3
    <3>5. InTheirOrder(g, s, k + 1)
      BY <3>3, <3>4 DEF InTheirOrder
    <3> QED
      BY <1>1, <1>4, <2>1, <3>5
  <2>6. CASE s[k + 1] \notin S
    <3>1. InTheirOrder(g, s, k + 1)
      BY <2>2, <2>3, <2>4, <2>6 DEF InTheirOrder
    <3> QED
      BY <1>1, <1>4, <2>1, <3>1
  <2> QED
    BY <2>5, <2>6
<1>5. 0..N \subseteq T
  <2> HIDE DEF T
  <2> QED
    BY <1>1, <1>3, <1>4, Counting
<1>6. N \in T
  BY <1>1, <1>5
<1> QED
  BY <1>1, <1>2, <1>6 DEF FiltersBy

LEMMA FilterKeeps ==
  ASSUME NEW B, NEW s \in Seq(B), NEW S
  PROVE  Filtered(s, S) \in Seq(S \intersect B)
BY FilterComputes
=============================================================================
