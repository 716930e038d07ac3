---------------------------- MODULE FlowPathProof ---------------------------
(***************************************************************************)
(* Proofs about FlowPath for any frames, timestamps, capacities, policies  *)
(* and overlays.                                                           *)
(***************************************************************************)
EXTENDS FlowPath, FiniteSetTheorems, WellFoundedInduction, NaturalsInduction,
        SequenceTheorems, TLAPS

-----------------------------------------------------------------------------
(***************************************************************************)
(* Induction, stated with sets                                             *)
(***************************************************************************)

\* A set of naturals has a least one.
LEMMA LeastNatural ==
    ASSUME NEW S \in SUBSET Nat, S # {}
    PROVE  \E n \in S : \A m \in S : n <= m
<1> DEFINE R == {ss \in Nat \X Nat : ss[1] < ss[2]}
<1>1. IsWellFoundedOn(R, Nat)
  BY NatLessThanWellFounded, Zenon DEF OpToRel
<1>2. PICK x \in S : \A y \in S : <<y, x>> \notin R
  <2> HIDE DEF R
  <2> QED BY <1>1, WFMin, Zenon
<1>3. ASSUME NEW y \in S PROVE x <= y
  <2>1. <<y, x>> \in Nat \X Nat /\ <<y, x>>[1] = y /\ <<y, x>>[2] = x
    OBVIOUS
  <2>2. ~(y < x)
    BY <1>2, <2>1, Zenon
  <2> QED BY <2>2
<1> QED BY <1>3

\* Induction over the naturals.
LEMMA SetInduction ==
    ASSUME NEW S, 0 \in S, \A n \in Nat : n \in S => n + 1 \in S
    PROVE  \A n \in Nat : n \in S
<1> SUFFICES ASSUME Nat \ S # {} PROVE FALSE
  OBVIOUS
<1>1. PICK n \in Nat \ S : \A m \in Nat \ S : n <= m
  BY LeastNatural
<1>2. n - 1 \in Nat /\ n - 1 \in S
  BY <1>1
<1> QED BY <1>1, <1>2

LEMMA MinIs ==
    ASSUME NEW S \in SUBSET Nat, S # {}
    PROVE  Min(S) \in S /\ \A m \in S : Min(S) <= m
BY LeastNatural DEF Min

LEMMA MaxIs ==
    ASSUME NEW n \in Nat, NEW S \in SUBSET (1..n), S # {}
    PROVE  Max(S) \in S /\ \A m \in S : m <= Max(S)
<1> DEFINE B == {u \in Nat : \A m \in S : m <= u}
<1>1. n \in B
  OBVIOUS
<1>2. PICK u \in B : \A v \in B : u <= v
  BY <1>1, LeastNatural
<1>3. u \in S
  <2> SUFFICES ASSUME u \notin S PROVE FALSE
    OBVIOUS
  <2>1. \A m \in S : m <= u - 1
    BY <1>2
  <2>2. PICK x \in S : TRUE
    OBVIOUS
  <2>3. x \in 1..n /\ x <= u
    BY <1>2
  <2> QED BY <1>2, <2>1, <2>3
<1> QED BY <1>2, <1>3 DEF Max

LEMMA CountTo ==
    ASSUME NEW n \in Nat
    PROVE  IsFiniteSet(1..n) /\ Cardinality(1..n) = n
<1>1. 1 \in Int /\ n \in Int
  OBVIOUS
<1>2. IsFiniteSet(1..n) /\ Cardinality(1..n) = IF 1 > n THEN 0 ELSE n - 1 + 1
  BY <1>1, FS_Interval, Zenon
<1> QED BY <1>2

\* What K computes on sets of places, always leaving the last place to the end.
Computes(g, base, n, K) ==
    /\ g[{}] = base
    /\ \A s \in SUBSET (1..n) : s # {} => g[s] = K[<<Max(s), g[s \ {Max(s)}]>>]

\* Values can be computed along a list: step K[<<i, v>>] takes v past place i.
LEMMA Recursion ==
    ASSUME NEW V, NEW base \in V, NEW n \in Nat, NEW K \in [(1..n) \X V -> V]
    PROVE  \E g \in [SUBSET (1..n) -> V] : Computes(g, base, n, K)
<1> DEFINE Solves(g, m) == Computes(g, base, m, K)
           Solvable(m) == \E g \in [SUBSET (1..m) -> V] : Solves(g, m)
           S == {m \in Nat : m <= n => Solvable(m)}
<1> HIDE DEF Solves, Solvable
<1>1. 0 \in S
  <2> DEFINE g == [s \in SUBSET (1..0) |-> base]
  <2>1. \A s \in SUBSET (1..0) : s = {}
    OBVIOUS
  <2>2. g \in [SUBSET (1..0) -> V] /\ Solves(g, 0)
    BY <2>1 DEF Solves, Computes
  <2> HIDE DEF g
  <2> QED BY <2>2 DEF Solvable
<1>2. ASSUME NEW m \in Nat, m \in S PROVE m + 1 \in S
  <2> SUFFICES ASSUME m + 1 <= n PROVE Solvable(m + 1)
    OBVIOUS
  <2>1. PICK g \in [SUBSET (1..m) -> V] : Solves(g, m)
    <3>1. m <= n
      OBVIOUS
    <3>2. Solvable(m)
      BY <1>2, <3>1
    <3> QED BY <3>2 DEF Solvable
  <2> DEFINE h == [s \in SUBSET (1..(m + 1)) |->
                       IF m + 1 \in s THEN K[<<m + 1, g[s \ {m + 1}]>>] ELSE g[s]]
  <2>2. \A s \in SUBSET (1..(m + 1)) : s \ {m + 1} \in SUBSET (1..m)
    OBVIOUS
  <2>3. h \in [SUBSET (1..(m + 1)) -> V]
    <3>1. ASSUME NEW s \in SUBSET (1..(m + 1)) PROVE h[s] \in V
      <4>1. g[s \ {m + 1}] \in V
        BY <2>1, <2>2
      <4>2. m + 1 \in 1..n /\ (m + 1 \notin s => s = s \ {m + 1})
        OBVIOUS
      <4> QED BY <4>1, <4>2
    <3> QED BY <3>1
  <2>4. ASSUME NEW s \in SUBSET (1..(m + 1)), s # {}
        PROVE  h[s] = K[<<Max(s), h[s \ {Max(s)}]>>]
    <3>1. Max(s) \in s /\ \A x \in s : x <= Max(s)
      <4>1. m + 1 \in Nat
        OBVIOUS
      <4> QED BY <2>4, <4>1, MaxIs
    <3>2. CASE m + 1 \in s
      <4>1. Max(s) = m + 1
        <5>1. Max(s) \in 1..(m + 1) /\ m + 1 <= Max(s)
          BY <2>4, <3>1, <3>2
        <5> QED BY <5>1
      <4>2. h[s \ {m + 1}] = g[s \ {m + 1}]
        BY <2>2
      <4> QED BY <3>2, <4>1, <4>2
    <3>3. CASE m + 1 \notin s
      <4>1. s \in SUBSET (1..m) /\ s \ {Max(s)} \in SUBSET (1..m)
        <5>1. \A x \in s : x \in 1..m
          BY <2>4, <3>3
        <5> QED BY <5>1
      <4>2. h[s] = g[s] /\ h[s \ {Max(s)}] = g[s \ {Max(s)}]
        BY <3>3, <4>1
      <4> QED BY <2>1, <2>4, <4>1, <4>2 DEF Solves, Computes
    <3> QED BY <3>2, <3>3
  <2>5. h[{}] = base
    BY <2>1 DEF Solves, Computes
  <2>6. Solves(h, m + 1)
    <3> HIDE DEF h
    <3> QED BY <2>4, <2>5 DEF Solves, Computes
  <2> HIDE DEF h
  <2> QED BY <2>3, <2>6 DEF Solvable
<1>3. n \in S
  <2> HIDE DEF S
  <2> QED BY <1>1, <1>2, SetInduction
<1>4. Solvable(n)
  BY <1>3
<1> QED BY <1>4 DEF Solvable, Solves

-----------------------------------------------------------------------------
(***************************************************************************)
(* Loops over lists                                                        *)
(***************************************************************************)

\* g tells what the loop of Collect has collected after each place.
Collects(g, s, T) ==
    /\ g[0] = <<>> /\ g[Len(s)] = Collect(s, T)
    /\ \A k \in 1..Len(s) :
          g[k] = IF s[k] \in T THEN Append(g[k - 1], s[k]) ELSE g[k - 1]

LEMMA CollectSteps ==
    ASSUME NEW S, NEW s \in Seq(S), NEW T
    PROVE  \E g \in [0..Len(s) -> Seq(S)] : Collects(g, s, T)
<1> DEFINE n == Len(s)
           V == Seq(S)
           K == [p \in (1..n) \X V |->
                    IF s[p[1]] \in T THEN Append(p[2], s[p[1]]) ELSE p[2]]
           Body(f) == [u \in SUBSET (1..n) |->
                          IF u = {} THEN <<>>
                          ELSE IF s[Max(u)] \in T THEN Append(f[u \ {Max(u)}], s[Max(u)])
                          ELSE f[u \ {Max(u)}]]
           iter == CHOOSE f : f = Body(f)
<1>1. n \in Nat /\ DOMAIN s = 1..n /\ <<>> \in V /\ \A i \in 1..n : s[i] \in S
  OBVIOUS
<1>2. K \in [(1..n) \X V -> V]
  BY <1>1
<1>3. PICK g \in [SUBSET (1..n) -> V] : Computes(g, <<>>, n, K)
  <2> HIDE DEF K, V, n
  <2> QED BY <1>1, <1>2, Recursion
<1>4. g = Body(g)
  <2>1. ASSUME NEW u \in SUBSET (1..n), u # {}
        PROVE  g[u] = IF s[Max(u)] \in T THEN Append(g[u \ {Max(u)}], s[Max(u)])
                      ELSE g[u \ {Max(u)}]
    <3>1. <<Max(u), g[u \ {Max(u)}]>> \in (1..n) \X V
      BY <1>1, <2>1, MaxIs
    <3>2. g[u] = K[<<Max(u), g[u \ {Max(u)}]>>]
      <4> HIDE DEF K, V, n
      <4> QED BY <1>3, <2>1 DEF Computes
    <3> QED BY <3>1, <3>2
  <2>2. g[{}] = <<>>
    <3> HIDE DEF K, V, n
    <3> QED BY <1>3 DEF Computes
  <2> HIDE DEF K, V, n
  <2> QED BY <1>3, <2>1, <2>2
<1>5. iter = Body(iter)
  <2> HIDE DEF Body
  <2> QED BY <1>4
<1>6. Collect(s, T) = iter[1..n]
  BY <1>1 DEF Collect, FoldLeft, MapThenFoldSet
<1>7. ASSUME NEW k \in 1..n
      PROVE  iter[1..k] = IF s[k] \in T THEN Append(iter[1..(k - 1)], s[k])
                          ELSE iter[1..(k - 1)]
  <2>1. 1..k \in SUBSET (1..n) /\ 1..k # {} /\ (1..k) \ {k} = 1..(k - 1)
    BY <1>1
  <2>2. Max(1..k) = k
    <3>1. Max(1..k) \in 1..k /\ \A m \in 1..k : m <= Max(1..k)
      <4> HIDE DEF n
      <4> QED BY <1>1, <2>1, MaxIs, Zenon
    <3> QED BY <3>1
  <2> HIDE DEF iter
  <2> QED BY <1>5, <2>1, <2>2
<1>8. iter[1..0] = <<>>
  <2>1. 1..0 = {}
    OBVIOUS
  <2> HIDE DEF iter
  <2> QED BY <1>5, <2>1
<1> DEFINE P == {k \in Nat : k <= n => iter[1..k] \in V}
<1>9. \A k \in Nat : k \in P
  <2> HIDE DEF iter, Body
  <2>1. 0 \in P
    BY <1>1, <1>8
  <2>2. ASSUME NEW k \in Nat, k \in P PROVE k + 1 \in P
    <3> SUFFICES ASSUME k + 1 <= n PROVE iter[1..(k + 1)] \in V
      OBVIOUS
    <3>1. k + 1 \in 1..n /\ (k + 1) - 1 = k /\ k <= n
      BY <1>1
    <3>2. iter[1..k] \in V
      BY <2>2, <3>1
    <3>3. iter[1..(k + 1)] = IF s[k + 1] \in T THEN Append(iter[1..k], s[k + 1])
                             ELSE iter[1..k]
      BY <1>7, <3>1
    <3> QED BY <1>1, <3>1, <3>2, <3>3
  <2> HIDE DEF P
  <2> QED BY <2>1, <2>2, SetInduction
<1> DEFINE h == [k \in 0..n |-> iter[1..k]]
<1>10. h \in [0..n -> V]
  <2> HIDE DEF iter, Body
  <2> QED BY <1>1, <1>9
<1>11. h[0] = <<>> /\ h[n] = Collect(s, T)
  <2> HIDE DEF iter, Body
  <2> QED BY <1>1, <1>6, <1>8
<1>12. ASSUME NEW k \in 1..n
       PROVE  h[k] = IF s[k] \in T THEN Append(h[k - 1], s[k]) ELSE h[k - 1]
  <2> HIDE DEF iter, Body
  <2> QED BY <1>1, <1>7
<1> HIDE DEF h
<1> QED BY <1>10, <1>11, <1>12 DEF Collects

\* h tells from which of the first k places of s the elements of r were taken,
\* in the order they have there; all of them belong to T.
TakenFrom(r, s, T, k, h) ==
    /\ h \in [1..Len(r) -> 1..k]
    /\ \A i, j \in 1..Len(r) : i < j => h[i] < h[j]
    /\ \A i \in 1..Len(r) : r[i] = s[h[i]] /\ r[i] \in T

\* Collect keeps the order of the list and takes no element that is not in T.
LEMMA CollectIs ==
    ASSUME NEW S, NEW s \in Seq(S), NEW T
    PROVE  /\ Collect(s, T) \in Seq(S)
           /\ \E h : TakenFrom(Collect(s, T), s, T, Len(s), h)
<1>1. PICK g \in [0..Len(s) -> Seq(S)] : Collects(g, s, T)
  BY CollectSteps
<1> DEFINE Taken(k) == \E h : TakenFrom(g[k], s, T, k, h)
           P == {k \in Nat : k <= Len(s) => Taken(k)}
<1> HIDE DEF Taken
<1>2. 0 \in P
  <2> DEFINE h == [i \in 1..0 |-> 0]
  <2>1. TakenFrom(g[0], s, T, 0, h)
    <3>1. g[0] = <<>> /\ Len(<<>>) = 0
      BY <1>1 DEF Collects
    <3> QED BY <3>1 DEF TakenFrom
  <2> HIDE DEF h
  <2> QED BY <2>1 DEF Taken
<1>3. ASSUME NEW k \in Nat, k \in P PROVE k + 1 \in P
  <2> SUFFICES ASSUME k + 1 <= Len(s) PROVE Taken(k + 1)
    OBVIOUS
  <2>1. k <= Len(s) /\ k \in 0..Len(s) /\ k + 1 \in 1..Len(s) /\ (k + 1) - 1 = k
    OBVIOUS
  <2>2. Taken(k)
    BY <1>3, <2>1
  <2>3. PICK h : TakenFrom(g[k], s, T, k, h)
    BY <2>2 DEF Taken
  <2>4. g[k] \in Seq(S) /\ g[k + 1] = IF s[k + 1] \in T THEN Append(g[k], s[k + 1]) ELSE g[k]
    BY <1>1, <2>1 DEF Collects
  <2>5. CASE s[k + 1] \notin T
    <3>1. g[k + 1] = g[k]
      BY <2>4, <2>5
    <3>2. h \in [1..Len(g[k]) -> 1..(k + 1)]
      BY <2>3, <2>4 DEF TakenFrom
    <3>3. TakenFrom(g[k + 1], s, T, k + 1, h)
      BY <2>3, <3>1, <3>2 DEF TakenFrom
    <3> QED BY <3>3 DEF Taken
  <2>6. CASE s[k + 1] \in T
    <3> DEFINE m == Len(g[k])
               q == Append(g[k], s[k + 1])
               e == [i \in 1..(m + 1) |-> IF i = m + 1 THEN k + 1 ELSE h[i]]
    <3>1. m \in Nat /\ g[k + 1] = q /\ Len(q) = m + 1
          /\ \A i \in 1..(m + 1) : q[i] = IF i = m + 1 THEN s[k + 1] ELSE g[k][i]
      BY <2>1, <2>4, <2>6
    <3>2. \A i \in 1..m : h[i] \in 1..k
      BY <2>3 DEF TakenFrom
    <3>3. e \in [1..(m + 1) -> 1..(k + 1)]
      BY <3>1, <3>2
    <3>4. ASSUME NEW i \in 1..(m + 1), NEW j \in 1..(m + 1), i < j PROVE e[i] < e[j]
      <4>1. i \in 1..m /\ e[i] = h[i] /\ h[i] \in 1..k
        BY <3>1, <3>2, <3>4
      <4>2. CASE j = m + 1
        BY <4>1, <4>2
      <4>3. CASE j # m + 1
        <5>1. j \in 1..m /\ e[j] = h[j]
          BY <3>1, <4>3
        <5> QED BY <2>3, <3>4, <4>1, <5>1 DEF TakenFrom
      <4> QED BY <4>2, <4>3
    <3>5. ASSUME NEW i \in 1..(m + 1) PROVE q[i] = s[e[i]] /\ q[i] \in T
      <4>1. CASE i = m + 1
        BY <2>6, <3>1, <4>1
      <4>2. CASE i # m + 1
        <5>1. i \in 1..m /\ e[i] = h[i] /\ q[i] = g[k][i]
          BY <3>1, <4>2
        <5> QED BY <2>3, <5>1 DEF TakenFrom
      <4> QED BY <4>1, <4>2
    <3>6. TakenFrom(g[k + 1], s, T, k + 1, e)
      <4> HIDE DEF e, q, m
      <4> QED BY <3>1, <3>3, <3>4, <3>5 DEF TakenFrom
    <3> HIDE DEF e
    <3> QED BY <3>6 DEF Taken
  <2> QED BY <2>5, <2>6
<1>4. Len(s) \in Nat /\ Len(s) \in P
  <2> HIDE DEF P
  <2> QED BY <1>2, <1>3, SetInduction
<1>5. Taken(Len(s))
  BY <1>4
<1> QED BY <1>1, <1>4, <1>5 DEF Taken, Collects

-----------------------------------------------------------------------------
(***************************************************************************)
(* A page of flows                                                         *)
(***************************************************************************)

\* The flows that snapshotBefore can compare.
Dated(D) == D \subseteq Int /\ \A i \in D : flows[i].last \in Int

\* snapshotBefore is a strict total order.
LEMMA BeforeTotal ==
    ASSUME NEW D, Dated(D), NEW i \in D, NEW j \in D
    PROVE  ~Before(i, i) /\ (Before(i, j) \/ Before(j, i) \/ i = j) /\ ~(Before(i, j) /\ Before(j, i))
<1>1. i \in Int /\ j \in Int /\ flows[i].last \in Int /\ flows[j].last \in Int
  BY DEF Dated
<1> QED BY <1>1 DEF Before

LEMMA BeforeTransitive ==
    ASSUME NEW D, Dated(D), NEW i \in D, NEW j \in D, NEW k \in D, Before(i, j), Before(j, k)
    PROVE  Before(i, k)
<1>1. /\ i \in Int /\ j \in Int /\ k \in Int
      /\ flows[i].last \in Int /\ flows[j].last \in Int /\ flows[k].last \in Int
  BY DEF Dated
<1> QED BY <1>1 DEF Before

\* w comes after all others of S.
IsWorst(S, w) == w \in S /\ \A k \in S \ {w} : Before(k, w)

LEMMA WorstExists ==
    ASSUME NEW D, Dated(D), NEW S \in SUBSET D, IsFiniteSet(S), S # {}
    PROVE  \E w : IsWorst(S, w)
<1> DEFINE Has(m) == \A U \in SUBSET D : IsFiniteSet(U) /\ Cardinality(U) = m + 1
                                             => \E w : IsWorst(U, w)
           P == {m \in Nat : Has(m)}
<1> HIDE DEF Has
<1>1. 0 \in P
  <2>1. ASSUME NEW U \in SUBSET D, IsFiniteSet(U), Cardinality(U) = 0 + 1
        PROVE  \E w : IsWorst(U, w)
    <3>1. PICK w : U = {w}
      <4>1. Cardinality(U) = 1
        BY <2>1
      <4> QED BY <2>1, <4>1, FS_Singleton, Zenon
    <3>2. IsWorst(U, w)
      BY <3>1 DEF IsWorst
    <3> QED BY <3>2
  <2> QED BY <2>1 DEF Has
<1>2. ASSUME NEW m \in Nat, m \in P PROVE m + 1 \in P
  <2>1. ASSUME NEW U \in SUBSET D, IsFiniteSet(U), Cardinality(U) = (m + 1) + 1
        PROVE  \E w : IsWorst(U, w)
    <3>1. PICK x \in U : TRUE
      BY <2>1, FS_EmptySet
    <3>2. IsFiniteSet(U \ {x}) /\ Cardinality(U \ {x}) = m + 1 /\ U \ {x} \in SUBSET D
      BY <2>1, <3>1, FS_RemoveElement
    <3>3. PICK w : IsWorst(U \ {x}, w)
      BY <1>2, <3>2 DEF Has
    <3>4. w \in U /\ w # x /\ w \in D /\ x \in D
      BY <3>3 DEF IsWorst
    <3>5. CASE Before(w, x)
      <4>1. ASSUME NEW k \in U \ {x} PROVE Before(k, x)
        <5>1. k \in D /\ (k = w \/ Before(k, w))
          BY <3>3 DEF IsWorst
        <5> QED BY <3>4, <3>5, <5>1, BeforeTransitive
      <4>2. IsWorst(U, x)
        BY <3>1, <4>1 DEF IsWorst
      <4> QED BY <4>2
    <3>6. CASE ~Before(w, x)
      <4>1. Before(x, w)
        BY <3>4, <3>6, BeforeTotal
      <4>2. IsWorst(U, w)
        BY <3>3, <3>4, <4>1 DEF IsWorst
      <4> QED BY <4>2
    <3> QED BY <3>5, <3>6
  <2>2. Has(m + 1)
    BY <2>1 DEF Has
  <2> QED BY <2>2
<1>3. \A m \in Nat : m \in P
  <2> HIDE DEF P
  <2> QED BY <1>1, <1>2, SetInduction
<1>4. Cardinality(S) \in Nat /\ Cardinality(S) # 0
  BY FS_CardinalityType, FS_EmptySet
<1>5. Cardinality(S) - 1 \in Nat /\ Cardinality(S) = (Cardinality(S) - 1) + 1
  BY <1>4
<1>6. Has(Cardinality(S) - 1)
  BY <1>3, <1>5
<1> QED BY <1>5, <1>6 DEF Has

\* page lists the members of S, newest first.
Lists(page, S) ==
    /\ page \in [1..Cardinality(S) -> S]
    /\ \A i, j \in DOMAIN page : i < j => Before(page[i], page[j])

LEMMA PageExists ==
    ASSUME NEW D, Dated(D), NEW S \in SUBSET D, IsFiniteSet(S)
    PROVE  \E page : Lists(page, S)
<1> DEFINE Has(m) == \A U \in SUBSET D : IsFiniteSet(U) /\ Cardinality(U) = m
                                             => \E page : Lists(page, U)
           P == {m \in Nat : Has(m)}
<1> HIDE DEF Has
<1>1. 0 \in P
  <2>1. ASSUME NEW U \in SUBSET D, IsFiniteSet(U), Cardinality(U) = 0
        PROVE  \E page : Lists(page, U)
    <3> DEFINE page == [i \in 1..0 |-> 0]
    <3>1. Lists(page, U)
      BY <2>1 DEF Lists
    <3> HIDE DEF page
    <3> QED BY <3>1
  <2> QED BY <2>1 DEF Has
<1>2. ASSUME NEW m \in Nat, m \in P PROVE m + 1 \in P
  <2>1. ASSUME NEW U \in SUBSET D, IsFiniteSet(U), Cardinality(U) = m + 1
        PROVE  \E page : Lists(page, U)
    <3>1. PICK w : IsWorst(U, w)
      BY <2>1, FS_EmptySet, WorstExists
    <3>2. w \in U
      BY <3>1 DEF IsWorst
    <3>3. IsFiniteSet(U \ {w}) /\ Cardinality(U \ {w}) = m /\ U \ {w} \in SUBSET D
      <4>1. IsFiniteSet(U \ {w}) /\ Cardinality(U \ {w}) = Cardinality(U) - 1
        BY <2>1, <3>2, FS_RemoveElement, Zenon
      <4> QED BY <2>1, <4>1
    <3>4. PICK q : Lists(q, U \ {w})
      BY <1>2, <3>3 DEF Has
    <3>5. q \in [1..m -> U \ {w}]
      BY <3>3, <3>4 DEF Lists
    <3> DEFINE page == [i \in 1..(m + 1) |-> IF i = m + 1 THEN w ELSE q[i]]
    <3>6. page \in [1..(m + 1) -> U]
      BY <3>2, <3>5
    <3>7. ASSUME NEW i \in 1..(m + 1), NEW j \in 1..(m + 1), i < j
          PROVE  Before(page[i], page[j])
      <4>1. i \in 1..m /\ page[i] = q[i] /\ q[i] \in U \ {w}
        BY <3>5, <3>7
      <4>2. CASE j = m + 1
        BY <3>1, <4>1, <4>2 DEF IsWorst
      <4>3. CASE j # m + 1
        <5>1. j \in 1..m /\ page[j] = q[j] /\ DOMAIN q = 1..m
          BY <3>5, <4>3
        <5> QED BY <3>4, <3>7, <4>1, <5>1 DEF Lists
      <4> QED BY <4>2, <4>3
    <3>8. DOMAIN page = 1..(m + 1)
      OBVIOUS
    <3> HIDE DEF page
    <3>9. Lists(page, U)
      BY <2>1, <3>6, <3>7, <3>8 DEF Lists
    <3> QED BY <3>9
  <2>2. Has(m + 1)
    BY <2>1 DEF Has
  <2> QED BY <2>2
<1>3. \A m \in Nat : m \in P
  <2> HIDE DEF P
  <2> QED BY <1>1, <1>2, SetInduction
<1>4. Cardinality(S) \in Nat
  BY FS_CardinalityType
<1>5. Has(Cardinality(S))
  BY <1>3, <1>4
<1> QED BY <1>5 DEF Has

\* g tells what the scan has kept after each place.
Scans(g, order, limit) ==
    /\ g[0] = {} /\ g[Len(order)] = Scan(order, limit)
    /\ \A k \in 1..Len(order) : g[k] = Keep(g[k - 1], order[k], limit)

LEMMA ScanSteps ==
    ASSUME NEW D, NEW order \in Seq(D), NEW limit
    PROVE  \E g \in [0..Len(order) -> SUBSET D] : Scans(g, order, limit)
<1> DEFINE n == Len(order)
           V == SUBSET D
           K == [p \in (1..n) \X V |-> Keep(p[2], order[p[1]], limit)]
           Body(f) == [u \in SUBSET (1..n) |->
                          IF u = {} THEN {}
                          ELSE Keep(f[u \ {Max(u)}], order[Max(u)], limit)]
           iter == CHOOSE f : f = Body(f)
<1>1. n \in Nat /\ DOMAIN order = 1..n /\ {} \in V /\ \A i \in 1..n : order[i] \in D
  OBVIOUS
<1>2. \A kept \in V, i \in 1..n : Keep(kept, order[i], limit) \in V
  BY <1>1 DEF Keep
<1>3. K \in [(1..n) \X V -> V]
  <2> HIDE DEF V, n
  <2> QED BY <1>2
<1>4. PICK g \in [SUBSET (1..n) -> V] : Computes(g, {}, n, K)
  <2> HIDE DEF K, V, n
  <2> QED BY <1>1, <1>3, Recursion
<1>5. g = Body(g)
  <2>1. ASSUME NEW u \in SUBSET (1..n), u # {}
        PROVE  g[u] = Keep(g[u \ {Max(u)}], order[Max(u)], limit)
    <3>1. Max(u) \in 1..n
      <4> HIDE DEF n
      <4> QED BY <1>1, <2>1, MaxIs
    <3>2. <<Max(u), g[u \ {Max(u)}]>> \in (1..n) \X V
      <4> HIDE DEF n, V
      <4> QED BY <3>1
    <3>3. g[u] = K[<<Max(u), g[u \ {Max(u)}]>>]
      <4> HIDE DEF K, V, n
      <4> QED BY <1>4, <2>1 DEF Computes
    <3> HIDE DEF V, n
    <3> QED BY <3>2, <3>3
  <2>2. g[{}] = {}
    <3> HIDE DEF K, V, n
    <3> QED BY <1>4 DEF Computes
  <2> HIDE DEF K, V, n
  <2> QED BY <1>4, <2>1, <2>2
<1>6. iter = Body(iter)
  <2> HIDE DEF Body
  <2> QED BY <1>5
<1>7. Scan(order, limit) = iter[1..n]
  BY <1>1 DEF Scan, FoldLeft, MapThenFoldSet
<1>8. ASSUME NEW k \in 1..n PROVE iter[1..k] = Keep(iter[1..(k - 1)], order[k], limit)
  <2>1. 1..k \in SUBSET (1..n) /\ 1..k # {} /\ (1..k) \ {k} = 1..(k - 1)
    <3> HIDE DEF n
    <3> QED BY <1>1
  <2>2. Max(1..k) = k
    <3>1. Max(1..k) \in 1..k /\ \A m \in 1..k : m <= Max(1..k)
      <4> HIDE DEF n
      <4> QED BY <1>1, <2>1, MaxIs, Zenon
    <3> QED BY <3>1
  <2> HIDE DEF iter
  <2> QED BY <1>6, <2>1, <2>2
<1>9. iter[1..0] = {}
  <2>1. 1..0 = {}
    OBVIOUS
  <2> HIDE DEF iter
  <2> QED BY <1>6, <2>1
<1> DEFINE P == {k \in Nat : k <= n => iter[1..k] \in V}
<1>10. \A k \in Nat : k \in P
  <2> HIDE DEF iter, Body
  <2>1. 0 \in P
    BY <1>1, <1>9
  <2>2. ASSUME NEW k \in Nat, k \in P PROVE k + 1 \in P
    <3> SUFFICES ASSUME k + 1 <= n PROVE iter[1..(k + 1)] \in V
      OBVIOUS
    <3>1. k + 1 \in 1..n /\ (k + 1) - 1 = k /\ k <= n
      BY <1>1
    <3>2. iter[1..k] \in V
      BY <2>2, <3>1
    <3>3. iter[1..(k + 1)] = Keep(iter[1..k], order[k + 1], limit)
      BY <1>8, <3>1
    <3> HIDE DEF V, n
    <3> QED BY <1>2, <3>1, <3>2, <3>3
  <2> HIDE DEF P
  <2> QED BY <2>1, <2>2, SetInduction
<1> DEFINE h == [k \in 0..n |-> iter[1..k]]
<1>11. h \in [0..n -> V]
  <2> HIDE DEF iter, Body, V
  <2> QED BY <1>1, <1>10
<1>12. h[0] = {} /\ h[n] = Scan(order, limit)
  <2> HIDE DEF iter, Body
  <2> QED BY <1>1, <1>7, <1>9
<1>13. ASSUME NEW k \in 1..n PROVE h[k] = Keep(h[k - 1], order[k], limit)
  <2> HIDE DEF iter, Body
  <2> QED BY <1>1, <1>8
<1> HIDE DEF h
<1> QED BY <1>11, <1>12, <1>13 DEF Scans

\* What has been kept of the flows seen: all while there is room, then as many as
\* there is room for, none of them after one that was left out.
Newest(kept, seen, limit, k) ==
    /\ kept \subseteq seen /\ IsFiniteSet(kept)
    /\ k <= limit => kept = seen /\ Cardinality(kept) = k
    /\ k >= limit => Cardinality(kept) = limit
    /\ \A i \in seen \ kept : \A x \in kept : Before(x, i)

\* One step of the scan keeps the newest.
LEMMA KeepNewest ==
    ASSUME NEW D, Dated(D), NEW seen \in SUBSET D, NEW id \in D \ seen,
           NEW limit \in Nat \ {0}, NEW k \in Nat, NEW kept, Newest(kept, seen, limit, k)
    PROVE  Newest(Keep(kept, id, limit), seen \cup {id}, limit, k + 1)
<1>1. kept \subseteq seen /\ IsFiniteSet(kept) /\ id \notin kept /\ kept \in SUBSET D /\ id \in D
  BY DEF Newest
<1>2. CASE k < limit
  <2>1. kept = seen /\ Cardinality(kept) = k
    BY <1>2 DEF Newest
  <2>2. Keep(kept, id, limit) = kept \cup {id}
    BY <1>2, <2>1 DEF Keep
  <2>3. IsFiniteSet(kept \cup {id}) /\ Cardinality(kept \cup {id}) = k + 1
    BY <1>1, <2>1, FS_AddElement
  <2>4. k + 1 >= limit => k + 1 = limit
    BY <1>2
  <2> QED BY <2>1, <2>2, <2>3, <2>4 DEF Newest
<1>3. CASE ~(k < limit)
  <2>1. Cardinality(kept) = limit /\ ~(Cardinality(kept) < limit) /\ ~(k + 1 <= limit)
    BY <1>3 DEF Newest
  <2> DEFINE worst == CHOOSE w \in kept : \A x \in kept \ {w} : Before(x, w)
  <2>2. worst \in kept /\ \A x \in kept \ {worst} : Before(x, worst)
    <3>1. kept # {}
      BY <2>1, FS_EmptySet
    <3>2. PICK w : IsWorst(kept, w)
      BY <1>1, <3>1, WorstExists
    <3> QED BY <3>2 DEF IsWorst
  <2>3. Keep(kept, id, limit) = IF Before(id, worst) THEN (kept \ {worst}) \cup {id} ELSE kept
    BY <2>1 DEF Keep
  <2> HIDE DEF worst
  <2>4. worst \in D /\ worst # id
    BY <1>1, <2>2
  <2>5. CASE Before(id, worst)
    <3> DEFINE new == (kept \ {worst}) \cup {id}
    <3>1. IsFiniteSet(kept \ {worst}) /\ Cardinality(kept \ {worst}) = limit - 1
      <4>1. IsFiniteSet(kept \ {worst}) /\ Cardinality(kept \ {worst}) = Cardinality(kept) - 1
        BY <1>1, <2>2, FS_RemoveElement, Zenon
      <4> QED BY <2>1, <4>1
    <3>2. IsFiniteSet(new) /\ Cardinality(new) = limit
      <4>1. IsFiniteSet(new) /\ Cardinality(new) = Cardinality(kept \ {worst}) + 1
        BY <1>1, <3>1, FS_AddElement
      <4> QED BY <3>1, <4>1
    <3>3. ASSUME NEW i \in (seen \cup {id}) \ new, NEW x \in new PROVE Before(x, i)
      <4>1. i \in D /\ x \in D
        BY <1>1
      <4>2. Before(x, worst)
        BY <2>2, <2>5
      <4>3. CASE i = worst
        BY <4>2, <4>3
      <4>4. CASE i # worst
        <5>1. i \in seen \ kept
          BY <4>4
        <5>2. Before(worst, i)
          BY <2>2, <5>1 DEF Newest
        <5> QED BY <2>4, <4>1, <4>2, <5>2, BeforeTransitive
      <4> QED BY <4>3, <4>4
    <3>4. new \subseteq seen \cup {id} /\ Keep(kept, id, limit) = new
      BY <1>1, <2>3, <2>5
    <3> HIDE DEF new
    <3> QED BY <2>1, <3>2, <3>3, <3>4 DEF Newest
  <2>6. CASE ~Before(id, worst)
    <3>1. Keep(kept, id, limit) = kept
      BY <2>3, <2>6
    <3>2. Before(worst, id)
      BY <1>1, <2>4, <2>6, BeforeTotal
    <3>3. ASSUME NEW i \in (seen \cup {id}) \ kept, NEW x \in kept PROVE Before(x, i)
      <4>1. CASE i = id
        <5>1. x \in D /\ (x = worst \/ Before(x, worst))
          BY <1>1, <2>2
        <5> QED BY <1>1, <2>4, <3>2, <4>1, <5>1, BeforeTransitive
      <4>2. CASE i # id
        BY <4>2 DEF Newest
      <4> QED BY <4>1, <4>2
    <3> QED BY <1>1, <2>1, <3>1, <3>3 DEF Newest
  <2> QED BY <2>5, <2>6
<1> QED BY <1>2, <1>3

\* The scan keeps the newest flows, in whatever order they come.
LEMMA ScanIs ==
    ASSUME NEW D, Dated(D), NEW order \in Seq(D), NEW limit \in Nat \ {0},
           \A i, j \in 1..Len(order) : i # j => order[i] # order[j]
    PROVE  Newest(Scan(order, limit), {order[i] : i \in 1..Len(order)}, limit, Len(order))
<1>1. PICK g \in [0..Len(order) -> SUBSET D] : Scans(g, order, limit)
  BY ScanSteps
<1> DEFINE Seen(k) == {order[i] : i \in 1..k}
           P == {k \in Nat : k <= Len(order) => Newest(g[k], Seen(k), limit, k)}
<1>2. 0 \in P
  <2>1. g[0] = {} /\ Seen(0) = {}
    BY <1>1 DEF Scans
  <2> HIDE DEF Seen
  <2>2. IsFiniteSet({}) /\ Cardinality({}) = 0 /\ ~(0 >= limit)
    BY FS_EmptySet
  <2>3. Newest(g[0], Seen(0), limit, 0)
    BY <2>1, <2>2 DEF Newest
  <2> QED BY <2>3
<1>3. ASSUME NEW k \in Nat, k \in P PROVE k + 1 \in P
  <2> SUFFICES ASSUME k + 1 <= Len(order) PROVE Newest(g[k + 1], Seen(k + 1), limit, k + 1)
    OBVIOUS
  <2>1. k <= Len(order) /\ k + 1 \in 1..Len(order) /\ (k + 1) - 1 = k
    OBVIOUS
  <2>2. Newest(g[k], Seen(k), limit, k)
    BY <1>3, <2>1
  <2>3. g[k + 1] = Keep(g[k], order[k + 1], limit)
    BY <1>1, <2>1 DEF Scans
  <2>4. Seen(k) \in SUBSET D /\ order[k + 1] \in D \ Seen(k)
    BY <2>1
  <2>5. Seen(k + 1) = Seen(k) \cup {order[k + 1]}
    <3>1. 1..(k + 1) = (1..k) \cup {k + 1}
      OBVIOUS
    <3> QED BY <3>1
  <2> HIDE DEF Seen
  <2> QED BY <2>2, <2>3, <2>4, <2>5, KeepNewest
<1>4. Len(order) \in Nat /\ Len(order) \in P
  <2> HIDE DEF P
  <2> QED BY <1>2, <1>3, SetInduction
<1> HIDE DEF Seen
<1>5. Newest(g[Len(order)], Seen(Len(order)), limit, Len(order))
  BY <1>4
<1> QED BY <1>1, <1>5 DEF Scans, Seen

\* The page RecentSnapshots returns has all that the scan kept.
LEMMA PageIs ==
    ASSUME NEW D, Dated(D), NEW order \in Seq(D), NEW limit,
           Scan(order, limit) \in SUBSET D, IsFiniteSet(Scan(order, limit))
    PROVE  /\ Lists(RecentSnapshots(order, limit), Scan(order, limit))
           /\ Scan(order, limit) = {RecentSnapshots(order, limit)[k] :
                                       k \in DOMAIN RecentSnapshots(order, limit)}
<1> DEFINE kept == Scan(order, limit)
           page == RecentSnapshots(order, limit)
           n == Cardinality(kept)
<1> HIDE DEF kept
<1>1. kept \in SUBSET D /\ IsFiniteSet(kept) /\ n \in Nat
  BY FS_CardinalityType DEF kept
<1>2. PICK q : Lists(q, kept)
  BY <1>1, PageExists
<1>3. page = CHOOSE q1 \in [1..n -> kept] : \A i, j \in DOMAIN q1 : i < j => Before(q1[i], q1[j])
  BY DEF RecentSnapshots, kept
<1>4. page \in [1..n -> kept] /\ \A i, j \in DOMAIN page : i < j => Before(page[i], page[j])
  <2> HIDE DEF page
  <2> QED BY <1>2, <1>3 DEF Lists
<1> HIDE DEF page
<1>5. Lists(page, kept)
  BY <1>4 DEF Lists
<1>6. page \in Injection(1..n, kept)
  <2>1. ASSUME NEW i \in 1..n, NEW j \in 1..n, page[i] = page[j] PROVE i = j
    <3>1. page[i] \in D /\ DOMAIN page = 1..n
      BY <1>1, <1>4
    <3>2. ~Before(page[i], page[j]) /\ ~Before(page[j], page[i])
      BY <2>1, <3>1, BeforeTotal
    <3>3. ~(i < j) /\ ~(j < i)
      BY <1>4, <3>1, <3>2
    <3> QED BY <3>3
  <2> HIDE DEF n
  <2> QED BY <1>4, <2>1 DEF Injection, IsInjective
<1>7. Cardinality(1..n) = n
  <2> HIDE DEF n
  <2> QED BY <1>1, CountTo
<1>8. page \in Surjection(1..n, kept)
  BY <1>1, <1>6, <1>7, FS_Injection
<1>9. kept = {page[k] : k \in DOMAIN page}
  BY <1>4, <1>8 DEF Surjection
<1> QED BY <1>5, <1>9 DEF kept, page

\* RecentExact, whatever the flows are.
LEMMA RecentIs ==
    ASSUME Dated(DOMAIN flows), IsFiniteSet(DOMAIN flows)
    PROVE  RecentExact
<1> DEFINE D == DOMAIN flows
<1> SUFFICES ASSUME NEW limit \in 1..Capacity, NEW order \in SetToSeqs(D)
             PROVE  LET page == RecentSnapshots(order, limit)
                    IN  /\ Len(page) = AtMost(limit, Cardinality(D))
                        /\ \A i \in 1..Len(page) - 1 : Before(page[i], page[i + 1])
                        /\ \A i \in D \ {page[k] : k \in DOMAIN page} :
                              \A k \in DOMAIN page : Before(page[k], i)
  BY DEF RecentExact
<1> DEFINE n == Cardinality(D)
           page == RecentSnapshots(order, limit)
           kept == Scan(order, limit)
<1> HIDE DEF D
<1>1. Dated(D) /\ IsFiniteSet(D) /\ n \in Nat /\ limit \in Nat \ {0}
  BY FS_CardinalityType, ConfigAssumption DEF D
<1>2. order \in [1..n -> D] /\ \A i, j \in 1..n : i # j => order[i] # order[j]
  BY DEF SetToSeqs
<1>3. order \in Seq(D) /\ Len(order) = n
  <2> HIDE DEF n
  <2> QED BY <1>1, <1>2
<1>4. D = {order[i] : i \in 1..n}
  <2>1. order \in Injection(1..n, D)
    <3> HIDE DEF n
    <3> QED BY <1>2 DEF Injection, IsInjective
  <2>2. Cardinality(1..n) = n
    <3> HIDE DEF n
    <3> QED BY <1>1, CountTo
  <2>3. order \in Surjection(1..n, D)
    BY <1>1, <2>1, <2>2, FS_Injection
  <2> QED BY <1>2, <2>3 DEF Surjection
<1> HIDE DEF n, page, kept
<1>5. Newest(kept, D, limit, n)
  BY <1>1, <1>2, <1>3, <1>4, ScanIs DEF kept
<1>6. kept \in SUBSET D /\ IsFiniteSet(kept)
  BY <1>5 DEF Newest
<1>7. Lists(page, kept) /\ kept = {page[k] : k \in DOMAIN page}
  BY <1>1, <1>3, <1>6, PageIs DEF kept, page
<1> DEFINE m == Cardinality(kept)
<1>8. m \in Nat /\ m = AtMost(limit, n)
  <2>1. m \in Nat
    BY <1>6, FS_CardinalityType
  <2> QED BY <1>1, <1>5, <2>1 DEF Newest, AtMost
<1> HIDE DEF m
<1>9. page \in [1..m -> kept] /\ \A i, j \in 1..m : i < j => Before(page[i], page[j])
  BY <1>7 DEF Lists, m
<1>10. Len(page) = m
  BY <1>8, <1>9
<1>11. \A i \in 1..Len(page) - 1 : Before(page[i], page[i + 1])
  BY <1>8, <1>9, <1>10
<1>12. ASSUME NEW i \in D \ {page[k] : k \in DOMAIN page}, NEW k \in DOMAIN page
       PROVE  Before(page[k], i)
  <2>1. page[k] \in kept /\ i \in D \ kept
    BY <1>7, <1>9
  <2> QED BY <1>5, <2>1 DEF Newest
<1> QED BY <1>8, <1>10, <1>11, <1>12 DEF page, n

-----------------------------------------------------------------------------
(***************************************************************************)
(* The heap                                                                *)
(***************************************************************************)

\* Lists, place by place.
LEMMA RemoveAtIs ==
    ASSUME NEW S, NEW s \in Seq(S), NEW p \in 1..Len(s)
    PROVE  /\ RemoveAt(s, p) \in Seq(S) /\ Len(RemoveAt(s, p)) = Len(s) - 1
           /\ \A i \in 1..(Len(s) - 1) : RemoveAt(s, p)[i] = IF i < p THEN s[i] ELSE s[i + 1]
<1> DEFINE a == SubSeq(s, 1, p - 1)
           b == SubSeq(s, p + 1, Len(s))
<1>1. a \in Seq(S) /\ Len(a) = p - 1 /\ \A i \in 1..(p - 1) : a[i] = s[i]
  OBVIOUS
<1>2. b \in Seq(S) /\ Len(b) = Len(s) - p /\ \A i \in 1..(Len(s) - p) : b[i] = s[p + i]
  OBVIOUS
<1>3. RemoveAt(s, p) = a \o b
  BY DEF RemoveAt
<1> HIDE DEF a, b
<1>4. a \o b \in Seq(S) /\ Len(a \o b) = Len(s) - 1
  <2>1. a \o b \in Seq(S) /\ Len(a \o b) = Len(a) + Len(b)
    BY <1>1, <1>2, ConcatProperties
  <2> QED BY <1>1, <1>2, <2>1
<1>5. ASSUME NEW i \in 1..(Len(s) - 1) PROVE (a \o b)[i] = IF i < p THEN s[i] ELSE s[i + 1]
  <2>1. CASE i < p
    BY <1>1, <1>2, <2>1
  <2>2. CASE ~(i < p)
    <3>1. (a \o b)[i] = b[i - (p - 1)] /\ i - (p - 1) \in 1..(Len(s) - p)
      BY <1>1, <1>2, <2>2
    <3>2. p + (i - (p - 1)) = i + 1
      OBVIOUS
    <3>3. b[i - (p - 1)] = s[p + (i - (p - 1))]
      BY <1>2, <3>1
    <3> QED BY <2>2, <3>1, <3>2, <3>3
  <2> QED BY <2>1, <2>2
<1> QED BY <1>3, <1>4, <1>5

LEMMA InsertAtIs ==
    ASSUME NEW S, NEW s \in Seq(S), NEW p \in 1..Len(s), NEW e \in S
    PROVE  /\ InsertAt(s, p, e) \in Seq(S) /\ Len(InsertAt(s, p, e)) = Len(s) + 1
           /\ \A i \in 1..(Len(s) + 1) :
                 InsertAt(s, p, e)[i] = IF i < p THEN s[i] ELSE IF i = p THEN e ELSE s[i - 1]
<1> DEFINE a == SubSeq(s, 1, p - 1)
           b == SubSeq(s, p, Len(s))
           c == a \o <<e>>
<1>1. a \in Seq(S) /\ Len(a) = p - 1 /\ \A i \in 1..(p - 1) : a[i] = s[i]
  OBVIOUS
<1>2. /\ b \in Seq(S) /\ Len(b) = Len(s) - p + 1
      /\ \A i \in 1..(Len(s) - p + 1) : b[i] = s[p + i - 1]
  OBVIOUS
<1>3. InsertAt(s, p, e) = c \o b
  BY DEF InsertAt
<1>4. c \in Seq(S) /\ Len(c) = p /\ \A i \in 1..p : c[i] = IF i < p THEN s[i] ELSE e
  <2> HIDE DEF a
  <2> QED BY <1>1
<1> HIDE DEF a, b, c
<1>5. c \o b \in Seq(S) /\ Len(c \o b) = Len(s) + 1
  <2>1. c \o b \in Seq(S) /\ Len(c \o b) = Len(c) + Len(b)
    BY <1>2, <1>4, ConcatProperties
  <2> QED BY <1>2, <1>4, <2>1
<1>6. ASSUME NEW i \in 1..(Len(s) + 1)
      PROVE  (c \o b)[i] = IF i < p THEN s[i] ELSE IF i = p THEN e ELSE s[i - 1]
  <2>1. CASE i <= p
    BY <1>2, <1>4, <2>1
  <2>2. CASE ~(i <= p)
    <3>1. (c \o b)[i] = b[i - p] /\ i - p \in 1..(Len(s) - p + 1)
      BY <1>2, <1>4, <2>2
    <3>2. p + (i - p) - 1 = i - 1
      OBVIOUS
    <3>3. b[i - p] = s[p + (i - p) - 1]
      BY <1>2, <3>1
    <3> QED BY <2>2, <3>1, <3>2, <3>3
  <2> QED BY <2>1, <2>2
<1> QED BY <1>3, <1>5, <1>6

\* The members of a list.
Elements(s) == {s[i] : i \in 1..Len(s)}

\* The order of a list agrees with entryHeap.Less, so that no flow is in it twice.
Sorted(f, s) == \A i, j \in 1..Len(s) : i < j => Older(f, s[i], s[j])

\* Flows that entryHeap.Less can compare.
Timed(f) == DOMAIN f \subseteq Int /\ \A i \in DOMAIN f : f[i].last \in Int

\* entryHeap.Less is a strict total order.
LEMMA OlderTotal ==
    ASSUME NEW f, Timed(f), NEW i \in DOMAIN f, NEW j \in DOMAIN f
    PROVE  ~Older(f, i, i) /\ (Older(f, i, j) \/ Older(f, j, i) \/ i = j)
<1>1. i \in Int /\ j \in Int /\ f[i].last \in Int /\ f[j].last \in Int
  BY DEF Timed
<1> QED BY <1>1 DEF Older

LEMMA OlderTransitive ==
    ASSUME NEW f, Timed(f), NEW i \in DOMAIN f, NEW j \in DOMAIN f, NEW k \in DOMAIN f,
           Older(f, i, j), Older(f, j, k)
    PROVE  Older(f, i, k)
<1>1. /\ i \in Int /\ j \in Int /\ k \in Int
      /\ f[i].last \in Int /\ f[j].last \in Int /\ f[k].last \in Int
  BY DEF Timed
<1> QED BY <1>1 DEF Older

\* A list without repetitions in which at most the flow id is out of place.
SortedBut(f, s, id) ==
    \A i, j \in 1..Len(s) :
        i < j => s[i] # s[j] /\ (s[i] # id /\ s[j] # id => Older(f, s[i], s[j]))

\* What is left of the heap when that flow is taken out is in order.
LEMMA RestIs ==
    ASSUME NEW f, NEW D, NEW order \in Seq(D), NEW id,
           SortedBut(f, order, id)
    PROVE  /\ RemoveFirst(order, id) \in Seq(D) /\ Sorted(f, RemoveFirst(order, id))
           /\ \A x : x \in Elements(RemoveFirst(order, id)) <=> x \in Elements(order) /\ x # id
<1> DEFINE n == Len(order)
<1>1. CASE ~\E i \in 1..n : order[i] = id
  <2>1. RemoveFirst(order, id) = order
    BY <1>1 DEF RemoveFirst
  <2> QED BY <1>1, <2>1 DEF Sorted, Elements, SortedBut
<1>2. CASE \E i \in 1..n : order[i] = id
  <2> DEFINE I == {i \in 1..n : order[i] = id}
             p == Min(I)
             rest == RemoveAt(order, p)
  <2>1. I \in SUBSET Nat /\ I # {}
    BY <1>2
  <2>2. p \in 1..n /\ order[p] = id
    <3>1. p \in I
      <4> HIDE DEF I
      <4> QED BY <2>1, MinIs
    <3> QED BY <3>1
  <2>3. RemoveFirst(order, id) = rest
    <3>1. SelectInSeq(order, LAMBDA v : v = id) = p
      BY <2>1 DEF SelectInSeq
    <3> QED BY <1>2, <3>1 DEF RemoveFirst
  <2> HIDE DEF p
  <2>4. /\ rest \in Seq(D) /\ Len(rest) = n - 1
        /\ \A i \in 1..(n - 1) : rest[i] = IF i < p THEN order[i] ELSE order[i + 1]
    BY <2>2, RemoveAtIs
  <2> HIDE DEF rest
  <2>5. \A i \in 1..n : i # p => order[i] # id
    <3>1. ASSUME NEW i \in 1..n, i # p PROVE order[i] # id
      <4>1. i < p \/ p < i
        BY <2>2, <3>1
      <4> QED BY <2>2, <4>1 DEF SortedBut
    <3> QED BY <3>1
  <2>6. Sorted(f, rest)
    <3>1. ASSUME NEW i \in 1..(n - 1), NEW j \in 1..(n - 1), i < j
          PROVE  Older(f, rest[i], rest[j])
      <4> DEFINE i1 == IF i < p THEN i ELSE i + 1
                 j1 == IF j < p THEN j ELSE j + 1
      <4>1. i1 \in 1..n /\ j1 \in 1..n /\ i1 < j1 /\ i1 # p /\ j1 # p
        BY <2>2, <3>1
      <4>2. rest[i] = order[i1] /\ rest[j] = order[j1]
        BY <2>4
      <4> HIDE DEF i1, j1
      <4> QED BY <2>5, <4>1, <4>2 DEF SortedBut
    <3> QED BY <2>4, <3>1 DEF Sorted
  <2>7. ASSUME NEW x PROVE x \in Elements(rest) <=> x \in Elements(order) \ {id}
    <3>1. ASSUME NEW i \in 1..(n - 1), x = rest[i] PROVE x \in Elements(order) \ {id}
      <4> DEFINE i1 == IF i < p THEN i ELSE i + 1
      <4>1. i1 \in 1..n /\ i1 # p /\ x = order[i1]
        BY <2>2, <2>4, <3>1
      <4> HIDE DEF i1
      <4> QED BY <2>5, <4>1 DEF Elements
    <3>2. ASSUME NEW i \in 1..n, x = order[i], x # id PROVE x \in Elements(rest)
      <4> DEFINE i1 == IF i < p THEN i ELSE i - 1
      <4>1. i # p
        BY <2>2, <3>2
      <4>2. i1 \in 1..(n - 1) /\ rest[i1] = order[i]
        <5>1. CASE i < p
          BY <2>2, <2>4, <5>1
        <5>2. CASE ~(i < p)
          <6>1. i - 1 \in 1..(n - 1) /\ ~(i - 1 < p) /\ (i - 1) + 1 = i
            BY <2>2, <4>1, <5>2
          <6> QED BY <2>4, <5>2, <6>1
        <5> QED BY <5>1, <5>2
      <4> HIDE DEF i1
      <4> QED BY <2>4, <3>2, <4>2 DEF Elements
    <3> QED BY <2>4, <3>1, <3>2 DEF Elements
  <2> QED BY <2>3, <2>4, <2>6, <2>7
<1> QED BY <1>1, <1>2

\* A flow put in front of the first that is younger is in its place.
LEMMA PlaceIs ==
    ASSUME NEW f, Timed(f), NEW order \in Seq(DOMAIN f), NEW id \in DOMAIN f,
           SortedBut(f, order, id)
    PROVE  /\ Place(f, order, id) \in Seq(DOMAIN f) /\ Sorted(f, Place(f, order, id))
           /\ Elements(Place(f, order, id)) = Elements(order) \cup {id}
<1> DEFINE D == DOMAIN f
           rest == RemoveFirst(order, id)
           n == Len(rest)
           I == {i \in 1..n : Older(f, id, rest[i])}
           y == IF I # {} THEN Min(I) ELSE 0
<1>1. rest \in Seq(D) /\ Sorted(f, rest) /\ Elements(rest) = Elements(order) \ {id}
  <2> HIDE DEF D
  <2>1. order \in Seq(D)
    BY DEF D
  <2>2. RemoveFirst(order, id) \in Seq(D)
    BY <2>1, RestIs
  <2>3. Sorted(f, RemoveFirst(order, id))
    BY <2>1, RestIs
  <2>4. \A x : x \in Elements(RemoveFirst(order, id)) <=> x \in Elements(order) /\ x # id
    BY <2>1, RestIs
  <2> QED BY <2>2, <2>3, <2>4
<1>2. Place(f, order, id) = IF y = 0 THEN Append(rest, id) ELSE InsertAt(rest, y, id)
  <2>1. SelectInSeq(rest, LAMBDA i : Older(f, id, i)) = y
    <3> HIDE DEF rest
    <3> QED BY DEF SelectInSeq
  <2> HIDE DEF y
  <2> QED BY <2>1 DEF Place
<1> HIDE DEF rest
<1>3. n \in Nat /\ \A i \in 1..n : rest[i] \in D /\ rest[i] # id
  <2>1. n \in Nat /\ \A i \in 1..n : rest[i] \in D
    BY <1>1
  <2>2. \A i \in 1..n : rest[i] \in Elements(rest)
    BY DEF Elements
  <2> QED BY <1>1, <2>1, <2>2
<1>4. CASE I = {}
  <2>1. Place(f, order, id) = Append(rest, id)
    BY <1>2, <1>4
  <2>2. \A i \in 1..n : Older(f, rest[i], id)
    <3> HIDE DEF n
    <3> QED BY <1>3, <1>4, OlderTotal
  <2> DEFINE q == Append(rest, id)
  <2>3. /\ q \in Seq(D) /\ Len(q) = n + 1
        /\ \A i \in 1..(n + 1) : q[i] = IF i = n + 1 THEN id ELSE rest[i]
    BY <1>1
  <2> HIDE DEF q
  <2>4. Sorted(f, q)
    <3>1. ASSUME NEW i \in 1..(n + 1), NEW j \in 1..(n + 1), i < j PROVE Older(f, q[i], q[j])
      <4>1. i \in 1..n /\ q[i] = rest[i]
        BY <1>3, <2>3, <3>1
      <4>2. CASE j = n + 1
        BY <2>2, <2>3, <4>1, <4>2
      <4>3. CASE j # n + 1
        <5>1. j \in 1..n /\ q[j] = rest[j]
          BY <1>3, <2>3, <4>3
        <5> QED BY <1>1, <3>1, <4>1, <5>1 DEF Sorted
      <4> QED BY <4>2, <4>3
    <3> QED BY <2>3, <3>1 DEF Sorted
  <2>5. Elements(q) = Elements(rest) \cup {id}
    <3>1. 1..(n + 1) = (1..n) \cup {n + 1} /\ n + 1 \notin 1..n
      BY <1>3
    <3> QED BY <2>3, <3>1 DEF Elements
  <2>6. id \in Elements(q) /\ Elements(q) = Elements(order) \cup {id}
    BY <1>1, <2>5
  <2> QED BY <2>1, <2>3, <2>4, <2>6 DEF q
<1>5. CASE I # {}
  <2>1. y \in 1..n /\ Older(f, id, rest[y]) /\ \A i \in 1..n : i < y => ~Older(f, id, rest[i])
    <3>1. I \in SUBSET Nat
      BY <1>3
    <3>2. y = Min(I)
      BY <1>5
    <3>3. y \in I /\ \A m \in I : y <= m
      <4> HIDE DEF I, y
      <4> QED BY <1>5, <3>1, <3>2, MinIs
    <3> HIDE DEF y
    <3> QED BY <3>1, <3>3
  <2>2. Place(f, order, id) = InsertAt(rest, y, id)
    BY <1>2, <2>1
  <2> HIDE DEF y
  <2>3. \A i \in 1..n : i < y => Older(f, rest[i], id)
    <3> HIDE DEF n
    <3> QED BY <1>3, <2>1, OlderTotal
  <2>4. \A i \in 1..n : i >= y => Older(f, id, rest[i])
    <3>1. ASSUME NEW i \in 1..n, i >= y PROVE Older(f, id, rest[i])
      <4>1. CASE i = y
        BY <2>1, <4>1
      <4>2. CASE i # y
        <5>1. Older(f, rest[y], rest[i])
          BY <1>1, <2>1, <3>1, <4>2 DEF Sorted
        <5> HIDE DEF n
        <5> QED BY <1>3, <2>1, <5>1, OlderTransitive
      <4> QED BY <4>1, <4>2
    <3> QED BY <3>1
  <2> DEFINE q == InsertAt(rest, y, id)
  <2>5. /\ q \in Seq(D) /\ Len(q) = n + 1
        /\ \A i \in 1..(n + 1) :
              q[i] = IF i < y THEN rest[i] ELSE IF i = y THEN id ELSE rest[i - 1]
    BY <1>1, <2>1, InsertAtIs
  <2> HIDE DEF q
  <2>6. Sorted(f, q)
    <3>1. ASSUME NEW i \in 1..(n + 1), NEW j \in 1..(n + 1), i < j PROVE Older(f, q[i], q[j])
      <4>1. CASE i < y
        <5>1. i \in 1..n /\ q[i] = rest[i]
          BY <1>3, <2>1, <2>5, <4>1
        <5>2. CASE j = y
          BY <2>1, <2>3, <2>5, <4>1, <5>1, <5>2
        <5>3. CASE j < y
          <6>1. j \in 1..n /\ q[j] = rest[j]
            BY <1>3, <2>1, <2>5, <5>3
          <6> QED BY <1>1, <3>1, <5>1, <6>1 DEF Sorted
        <5>4. CASE j > y
          <6>1. j - 1 \in 1..n /\ q[j] = rest[j - 1] /\ i < j - 1
            BY <1>3, <2>1, <2>5, <4>1, <5>4
          <6> QED BY <1>1, <5>1, <6>1 DEF Sorted
        <5> QED BY <2>1, <5>2, <5>3, <5>4
      <4>2. CASE i = y
        <5>1. j - 1 \in 1..n /\ q[j] = rest[j - 1] /\ j - 1 >= y /\ q[i] = id
          BY <1>3, <2>1, <2>5, <3>1, <4>2
        <5> QED BY <2>4, <5>1
      <4>3. CASE i > y
        <5>1. i - 1 \in 1..n /\ q[i] = rest[i - 1]
          BY <1>3, <2>1, <2>5, <4>3
        <5>2. j - 1 \in 1..n /\ q[j] = rest[j - 1]
          BY <1>3, <2>1, <2>5, <3>1, <4>3
        <5>3. i - 1 < j - 1
          BY <3>1
        <5> QED BY <1>1, <5>1, <5>2, <5>3 DEF Sorted
      <4> QED BY <2>1, <4>1, <4>2, <4>3
    <3> QED BY <2>5, <3>1 DEF Sorted
  <2>7. ASSUME NEW x PROVE x \in Elements(q) <=> x \in Elements(rest) \cup {id}
    <3>1. ASSUME NEW i \in 1..(n + 1), x = q[i] PROVE x \in Elements(rest) \cup {id}
      <4>1. CASE i < y
        <5>1. i \in 1..n /\ q[i] = rest[i]
          BY <1>3, <2>1, <2>5, <4>1
        <5> QED BY <3>1, <5>1 DEF Elements
      <4>2. CASE i = y
        BY <2>5, <3>1, <4>2
      <4>3. CASE i > y
        <5>1. i - 1 \in 1..n /\ q[i] = rest[i - 1]
          BY <1>3, <2>1, <2>5, <4>3
        <5> QED BY <3>1, <5>1 DEF Elements
      <4> QED BY <2>1, <4>1, <4>2, <4>3
    <3>2. ASSUME NEW i \in 1..n, x = rest[i] PROVE x \in Elements(q)
      <4>1. CASE i < y
        <5>1. i \in 1..(n + 1) /\ q[i] = rest[i]
          BY <1>3, <2>1, <2>5, <4>1
        <5> QED BY <2>5, <3>2, <5>1 DEF Elements
      <4>2. CASE ~(i < y)
        <5>1. i + 1 \in 1..(n + 1) /\ ~(i + 1 < y) /\ i + 1 # y /\ (i + 1) - 1 = i
          BY <1>3, <2>1, <4>2
        <5>2. q[i + 1] = rest[i]
          BY <2>5, <5>1
        <5> QED BY <2>5, <3>2, <5>1, <5>2 DEF Elements
      <4> QED BY <4>1, <4>2
    <3>3. id \in Elements(q)
      <4>1. y \in 1..(n + 1) /\ q[y] = id
        BY <1>3, <2>1, <2>5
      <4> QED BY <2>5, <4>1 DEF Elements
    <3> QED BY <2>5, <3>1, <3>2, <3>3 DEF Elements
  <2>8. Elements(q) = Elements(order) \cup {id}
    BY <1>1, <2>7
  <2> QED BY <2>2, <2>5, <2>6, <2>8 DEF q
<1> QED BY <1>4, <1>5

\* The heap of a registry: exactly its flows, oldest first.
Heap(f, s) ==
    /\ Timed(f) /\ s \in Seq(DOMAIN f) /\ Sorted(f, s)
    /\ \A x : x \in Elements(s) <=> x \in DOMAIN f

\* No flow is in the heap twice.
LEMMA HeapDistinct ==
    ASSUME NEW f, NEW s, Heap(f, s)
    PROVE  \A i, j \in 1..Len(s) : i # j => s[i] # s[j]
<1>1. Timed(f) /\ s \in Seq(DOMAIN f) /\ Sorted(f, s)
  BY DEF Heap
<1>2. ASSUME NEW i \in 1..Len(s), NEW j \in 1..Len(s), i # j, s[i] = s[j] PROVE FALSE
  <2>1. s[i] \in DOMAIN f /\ Len(s) \in Nat /\ (i < j \/ j < i)
    BY <1>1, <1>2
  <2>2. Older(f, s[i], s[i])
    BY <1>1, <1>2, <2>1 DEF Sorted
  <2> QED BY <1>1, <2>1, <2>2, OlderTotal
<1> QED BY <1>2

\* The heap is as long as the registry has flows.
LEMMA HeapSize ==
    ASSUME NEW f, NEW s, Heap(f, s)
    PROVE  IsFiniteSet(DOMAIN f) /\ Cardinality(DOMAIN f) = Len(s) /\ Len(s) \in Nat
<1> DEFINE D == DOMAIN f
<1> HIDE DEF D
<1>1. s \in Seq(D) /\ Len(s) \in Nat /\ \A x : x \in Elements(s) <=> x \in D
  BY DEF Heap, D
<1>2. s \in [1..Len(s) -> D]
  BY <1>1
<1>3. s \in Injection(1..Len(s), D)
  <2>1. \A i, j \in 1..Len(s) : s[i] = s[j] => i = j
    BY HeapDistinct
  <2> QED BY <1>2, <2>1 DEF Injection, IsInjective
<1>4. s \in Surjection(1..Len(s), D)
  <2>1. \A x \in D : \E i \in 1..Len(s) : s[i] = x
    BY <1>1 DEF Elements
  <2> QED BY <1>2, <2>1 DEF Surjection
<1>5. IsFiniteSet(1..Len(s)) /\ Cardinality(1..Len(s)) = Len(s)
  BY <1>1, CountTo
<1>6. ExistsBijection(1..Len(s), D)
  BY <1>3, <1>4 DEF ExistsBijection, Bijection
<1>7. IsFiniteSet(D) /\ Cardinality(D) = Len(s)
  BY <1>5, <1>6, FS_Bijection
<1> QED BY <1>1, <1>7 DEF D

\* Heap operations on the entry of one flow, when no other flow's time changed.
LEMMA HeapPlace ==
    ASSUME NEW f, NEW s, Heap(f, s), NEW id \in Int, NEW f2,
           \A x : x \in DOMAIN f2 <=> x \in DOMAIN f \/ x = id,
           f2[id].last \in Int, \A i \in DOMAIN f \ {id} : f2[i].last = f[i].last
    PROVE  Heap(f2, Place(f2, s, id))
<1>1. Timed(f) /\ s \in Seq(DOMAIN f) /\ Sorted(f, s) /\ \A x : x \in Elements(s) <=> x \in DOMAIN f
  BY DEF Heap
<1>2. Timed(f2)
  BY <1>1 DEF Timed
<1>3. s \in Seq(DOMAIN f2) /\ id \in DOMAIN f2
  <2>1. DOMAIN f \subseteq DOMAIN f2 /\ id \in DOMAIN f2
    OBVIOUS
  <2>2. \A i \in 1..Len(s) : s[i] \in DOMAIN f2
    BY <1>1, <2>1
  <2> QED BY <1>1, <2>1, <2>2
<1>4. SortedBut(f2, s, id)
  <2>1. ASSUME NEW i \in 1..Len(s), NEW j \in 1..Len(s), i < j
        PROVE  s[i] # s[j] /\ (s[i] # id /\ s[j] # id => Older(f2, s[i], s[j]))
    <3>1. s[i] # s[j]
      BY <1>1, <2>1, HeapDistinct
    <3>2. Older(f, s[i], s[j]) /\ s[i] \in DOMAIN f /\ s[j] \in DOMAIN f
      BY <1>1, <2>1 DEF Sorted
    <3>3. s[i] # id /\ s[j] # id => f2[s[i]].last = f[s[i]].last /\ f2[s[j]].last = f[s[j]].last
      BY <3>2
    <3> QED BY <3>1, <3>2, <3>3 DEF Older
  <2> QED BY <2>1 DEF SortedBut
<1>5. Place(f2, s, id) \in Seq(DOMAIN f2) /\ Sorted(f2, Place(f2, s, id))
  BY <1>2, <1>3, <1>4, PlaceIs
<1>6. Elements(Place(f2, s, id)) = Elements(s) \cup {id}
  BY <1>2, <1>3, <1>4, PlaceIs
<1>7. ASSUME NEW x PROVE x \in Elements(Place(f2, s, id)) <=> x \in DOMAIN f2
  BY <1>1, <1>6
<1> QED BY <1>2, <1>5, <1>7 DEF Heap

\* Nothing moves when no time changes.
LEMMA HeapSame ==
    ASSUME NEW f, NEW s, Heap(f, s), NEW f2, DOMAIN f2 = DOMAIN f,
           \A i \in DOMAIN f : f2[i].last = f[i].last
    PROVE  Heap(f2, s)
<1>1. Timed(f) /\ s \in Seq(DOMAIN f) /\ Sorted(f, s) /\ \A x : x \in Elements(s) <=> x \in DOMAIN f
  BY DEF Heap
<1>2. Timed(f2)
  BY <1>1 DEF Timed
<1>3. Sorted(f2, s)
  <2>1. ASSUME NEW i \in 1..Len(s), NEW j \in 1..Len(s), i < j PROVE Older(f2, s[i], s[j])
    <3>1. Older(f, s[i], s[j]) /\ s[i] \in DOMAIN f /\ s[j] \in DOMAIN f
      BY <1>1, <2>1 DEF Sorted
    <3> QED BY <3>1 DEF Older
  <2> QED BY <2>1 DEF Sorted
<1> QED BY <1>1, <1>2, <1>3 DEF Heap

\* The n oldest flows leave the map and the heap together.
LEMMA HeapDrop ==
    ASSUME NEW f, NEW s, Heap(f, s), NEW n \in 0..Len(s)
    PROVE  Heap(Without(f, {s[i] : i \in 1..n}), SubSeq(s, n + 1, Len(s)))
<1> DEFINE gone == {s[i] : i \in 1..n}
           f2 == Without(f, gone)
           q == SubSeq(s, n + 1, Len(s))
<1>1. Timed(f) /\ s \in Seq(DOMAIN f) /\ Sorted(f, s) /\ \A x : x \in Elements(s) <=> x \in DOMAIN f
  BY DEF Heap
<1>2. Len(s) \in Nat
  BY <1>1
<1>3. q \in Seq(DOMAIN f) /\ Len(q) = Len(s) - n /\ \A i \in 1..(Len(s) - n) : q[i] = s[n + i]
  BY <1>1
<1> HIDE DEF q
<1>4. DOMAIN f2 = DOMAIN f \ gone /\ \A i \in DOMAIN f \ gone : f2[i] = f[i]
  BY DEF Without
<1>5. \A i \in 1..Len(s) : s[i] \in gone <=> i <= n
  <2>1. ASSUME NEW i \in 1..Len(s), s[i] \in gone PROVE i <= n
    <3>1. PICK k \in 1..n : s[i] = s[k]
      BY <2>1
    <3>2. k \in 1..Len(s)
      BY <1>2
    <3>3. i = k
      BY <3>1, <3>2, HeapDistinct
    <3> QED BY <3>3
  <2> QED BY <1>2, <2>1
<1> HIDE DEF gone, f2
<1>6. Timed(f2)
  BY <1>1, <1>4 DEF Timed
<1>7. ASSUME NEW i \in 1..(Len(s) - n)
      PROVE  n + i \in 1..Len(s) /\ q[i] = s[n + i] /\ q[i] \in DOMAIN f2
  <2>1. n + i \in 1..Len(s) /\ ~(n + i <= n) /\ q[i] = s[n + i]
    BY <1>2, <1>3
  <2>2. s[n + i] \notin gone /\ s[n + i] \in DOMAIN f
    BY <1>1, <1>5, <2>1
  <2> QED BY <1>4, <2>1, <2>2
<1>8. q \in Seq(DOMAIN f2)
  BY <1>3, <1>7
<1>9. Sorted(f2, q)
  <2>1. ASSUME NEW i \in 1..Len(q), NEW j \in 1..Len(q), i < j PROVE Older(f2, q[i], q[j])
    <3>1. n + i < n + j /\ n + i \in 1..Len(s) /\ n + j \in 1..Len(s)
      BY <1>3, <1>7, <2>1
    <3>2. Older(f, s[n + i], s[n + j])
      BY <1>1, <3>1 DEF Sorted
    <3>3. f2[q[i]] = f[s[n + i]] /\ f2[q[j]] = f[s[n + j]]
      BY <1>3, <1>4, <1>7
    <3> QED BY <1>3, <1>7, <3>2, <3>3 DEF Older
  <2> QED BY <2>1 DEF Sorted
<1>10. ASSUME NEW x PROVE x \in Elements(q) <=> x \in DOMAIN f2
  <2>1. ASSUME x \in DOMAIN f2 PROVE x \in Elements(q)
    <3>1. PICK i \in 1..Len(s) : x = s[i]
      BY <1>1, <1>4, <2>1 DEF Elements
    <3>2. ~(i <= n)
      BY <1>4, <1>5, <2>1, <3>1
    <3>3. i - n \in 1..Len(q) /\ n + (i - n) = i
      BY <1>2, <1>3, <3>2
    <3>4. q[i - n] = x
      BY <1>3, <3>1, <3>3
    <3> QED BY <3>3, <3>4 DEF Elements
  <2>2. ASSUME x \in Elements(q) PROVE x \in DOMAIN f2
    <3>1. PICK i \in 1..Len(q) : x = q[i]
      BY <2>2 DEF Elements
    <3> QED BY <1>3, <1>7, <3>1
  <2> QED BY <2>1, <2>2
<1>11. Heap(f2, q)
  BY <1>6, <1>8, <1>9, <1>10 DEF Heap
<1> QED BY <1>11 DEF f2, q, gone

\* Expire stops exactly behind the last flow that is too old.
LEMMA ExpiredIs ==
    ASSUME NEW f, NEW s, Heap(f, s), NEW now \in Int
    PROVE  /\ Expired(f, s, now) \in 0..Len(s)
           /\ \A i \in 1..Len(s) : i <= Expired(f, s, now) <=> f[s[i]].last <= now - TTL
<1>1. Timed(f) /\ s \in Seq(DOMAIN f) /\ Sorted(f, s)
  BY DEF Heap
<1>2. Len(s) \in Nat /\ TTL \in Nat /\ \A i \in 1..Len(s) : s[i] \in DOMAIN f /\ f[s[i]].last \in Int
  BY <1>1, ConfigAssumption DEF Timed
<1> DEFINE Stops(n) == /\ \A i \in 1..n : f[s[i]].last <= now - TTL
                       /\ n < Len(s) => f[s[n + 1]].last > now - TTL
           A == {i \in 1..Len(s) : f[s[i]].last > now - TTL}
<1>3. \E n \in 0..Len(s) : Stops(n)
  <2>1. CASE A = {}
    <3>1. Len(s) \in 0..Len(s) /\ Stops(Len(s))
      BY <1>2, <2>1
    <3> QED BY <3>1
  <2>2. CASE A # {}
    <3>1. PICK a \in A : \A b \in A : a <= b
      <4>1. A \in SUBSET Nat
        BY <1>2
      <4> HIDE DEF A
      <4> QED BY <2>2, <4>1, LeastNatural
    <3>2. a - 1 \in 0..Len(s) /\ (a - 1) + 1 = a /\ f[s[a]].last > now - TTL
      BY <1>2
    <3>3. ASSUME NEW i \in 1..(a - 1) PROVE f[s[i]].last <= now - TTL
      <4>1. i \in 1..Len(s) /\ ~(a <= i)
        BY <3>2
      <4>2. i \notin A
        BY <3>1, <4>1
      <4> QED BY <1>2, <4>1, <4>2
    <3>4. Stops(a - 1)
      BY <3>2, <3>3
    <3> HIDE DEF Stops
    <3> QED BY <3>2, <3>4
  <2> QED BY <2>1, <2>2
<1> DEFINE n == Expired(f, s, now)
<1>4. n = CHOOSE m \in 0..Len(s) : Stops(m)
  BY DEF Expired
<1>5. n \in 0..Len(s) /\ Stops(n)
  <2> HIDE DEF n, Stops
  <2> QED BY <1>3, <1>4
<1> HIDE DEF n
<1>6. ASSUME NEW i \in 1..Len(s), ~(i <= n) PROVE ~(f[s[i]].last <= now - TTL)
  <2>1. n < Len(s) /\ n + 1 \in 1..Len(s) /\ f[s[n + 1]].last > now - TTL
    BY <1>2, <1>5, <1>6
  <2>2. CASE i = n + 1
    BY <1>2, <2>1, <2>2
  <2>3. CASE i # n + 1
    <3>1. n + 1 < i
      BY <1>2, <1>5, <1>6, <2>3
    <3>2. Older(f, s[n + 1], s[i])
      BY <1>1, <2>1, <3>1 DEF Sorted
    <3>3. f[s[n + 1]].last <= f[s[i]].last
      BY <1>2, <2>1, <3>2 DEF Older
    <3> QED BY <1>2, <2>1, <3>3
  <2> QED BY <2>2, <2>3
<1>7. \A i \in 1..Len(s) : i <= n => f[s[i]].last <= now - TTL
  BY <1>2, <1>5
<1> QED BY <1>5, <1>6, <1>7 DEF n

-----------------------------------------------------------------------------
(***************************************************************************)
(* Packets                                                                 *)
(***************************************************************************)

\* What capture can hand over.
Events == {Normalize(f, at) : f \in {x \in Frames : Supported(x)}, at \in 0..MaxTime}

Ends == [addr : Nat, port : Nat]

\* Normalization makes every packet valid, and the mapper knows its loudness.
LEMMA EventFacts ==
    ASSUME NEW e \in Events
    PROVE  /\ Valid(e) /\ e # None
           /\ e.at \in 0..MaxTime /\ e.src \in Ends /\ e.dst \in Ends
           /\ e.protocol \in Protocols /\ e.length \in Nat /\ Loudness[e.length] \in Nat
           /\ e = [at |-> e.at, src |-> e.src, dst |-> e.dst, protocol |-> e.protocol,
                   length |-> e.length, captured |-> e.captured, payload |-> e.payload,
                   flags |-> e.flags]
<1>1. PICK f \in Frames, at \in 0..MaxTime : Supported(f) /\ e = Normalize(f, at)
  BY DEF Events
<1>2. /\ f.src \in Nat \cup {Unset} /\ f.dst \in Nat \cup {Unset} /\ f.src # Unset /\ f.dst # Unset
      /\ f.sport \in Nat /\ f.dport \in Nat /\ f.length \in Nat /\ f.captured \in Nat
      /\ f.data \in Nat /\ f.payload \in Nat /\ f.transport \in Protocols
  BY <1>1, FramesAssumption DEF Supported, Protocols
<1> DEFINE captured == IF f.captured = 0 THEN f.data ELSE f.captured
           ports == f.transport \in {"tcp", "udp"}
<1>3. e = [at |-> at,
           src |-> [addr |-> f.src, port |-> IF ports THEN f.sport ELSE 0],
           dst |-> [addr |-> f.dst, port |-> IF ports THEN f.dport ELSE 0],
           protocol |-> f.transport,
           length |-> AtLeast(f.length, captured), captured |-> captured,
           payload |-> AtMost(f.payload, captured),
           flags |-> IF f.transport = "tcp" THEN f.flags ELSE {}]
  BY <1>1 DEF Normalize
<1>4. captured \in Nat
  BY <1>2
<1>5. e.length = AtLeast(f.length, captured) /\ e.captured = captured
      /\ e.payload = AtMost(f.payload, captured)
  BY <1>3
<1> HIDE DEF captured
<1>6. /\ e.length \in Nat /\ e.captured \in Nat /\ e.payload \in Nat
      /\ e.captured <= e.length /\ e.payload <= e.captured
  BY <1>2, <1>4, <1>5 DEF AtLeast, AtMost
<1>7. Loudness[e.length] \in Nat
  <2>1. Normalize(f, 0).length = e.length
    BY <1>1 DEF Normalize
  <2> QED BY <2>1, LoudnessAssumption
<1>8. e.at \in 0..MaxTime /\ e.protocol \in Protocols
  BY <1>2, <1>3
<1>9. e.src \in Ends /\ e.dst \in Ends /\ e.src.addr # Unset /\ e.dst.addr # Unset
  BY <1>2, <1>3 DEF Ends
<1>10. e # None
  <2>1. "at" \in DOMAIN e /\ "at" \notin DOMAIN None
    BY <1>3 DEF None
  <2> QED BY <2>1
<1>11. e = [at |-> e.at, src |-> e.src, dst |-> e.dst, protocol |-> e.protocol,
            length |-> e.length, captured |-> e.captured, payload |-> e.payload,
            flags |-> e.flags]
  BY <1>3
<1>12. Valid(e)
  BY <1>6, <1>8, <1>9 DEF Valid
<1> QED BY <1>6, <1>7, <1>8, <1>9, <1>10, <1>11, <1>12

LEMMA FlowIDType ==
    ASSUME NEW e, e.src \in Ends, e.dst \in Ends, e.protocol \in Protocols
    PROVE  FlowID(e) \in Int
<1> DEFINE k == Key(e)
           p == CHOOSE i \in 1..5 : <<"tcp", "udp", "icmp", "icmp6", "other">>[i] = k.protocol
<1>1. k.protocol \in Protocols /\ k.a \in Ends /\ k.b \in Ends
  BY DEF Key
<1>2. p \in 1..5
  <2>1. \E i \in 1..5 : <<"tcp", "udp", "icmp", "icmp6", "other">>[i] = k.protocol
    <3> HIDE DEF k
    <3>1. CASE k.protocol = "tcp"
      BY <3>1
    <3>2. CASE k.protocol = "udp"
      BY <3>2
    <3>3. CASE k.protocol = "icmp"
      BY <3>3
    <3>4. CASE k.protocol = "icmp6"
      BY <3>4
    <3>5. CASE k.protocol = "other"
      BY <3>5
    <3> QED BY <1>1, <3>1, <3>2, <3>3, <3>4, <3>5 DEF Protocols
  <2> HIDE DEF k
  <2> QED BY <2>1
<1>3. k.a.addr \in Nat /\ k.a.port \in Nat /\ k.b.addr \in Nat /\ k.b.port \in Nat
  <2> HIDE DEF k
  <2> QED BY <1>1 DEF Ends
<1>4. ID(k) = p + 8 * (k.a.addr + 8 * (k.a.port + 8 * (k.b.addr + 8 * k.b.port)))
  BY DEF ID
<1> HIDE DEF k, p
<1>5. ID(k) \in Int
  BY <1>2, <1>3, <1>4
<1> QED BY <1>5 DEF FlowID, k

-----------------------------------------------------------------------------
(***************************************************************************)
(* The inductive invariant                                                 *)
(***************************************************************************)

Snapshots ==
    [first : 1..MaxTime, last : 1..MaxTime, packets : 1..MaxPackets,
     ab : Nat, ba : Nat, event : Events]

\* The registry: its map, its heap and its snapshots.
RegistryInv ==
    /\ flows \in [DOMAIN flows -> Snapshots]
    /\ Heap(flows, oldest) /\ Len(oldest) <= Capacity
    /\ SnapshotsCoherent

\* Between Expire and Observe: there is room to count, and no flow is too old.
ExpiredInv ==
    pc = "observe" =>
        /\ FlowID(event) \in DOMAIN flows => flows[FlowID(event)].packets < MaxPackets
        /\ \A i \in DOMAIN flows : flows[i].last > event.at - TTL

\* Between Observe and Select: the flow was last seen less than the TTL ago.
ObservedInv ==
    pc = "select" =>
        /\ observed \in [sequence : Nat, previous : 0..MaxTime]
        /\ observed.previous # 0 /\ event.at > observed.previous =>
              event.at - observed.previous < TTL

\* n is the note of packet e under policy p.
IsNoteOf(n, e, p, overlay, sequence, gap) ==
    LET selection == Evaluate(Compile(p), e, overlay)
        scale == Scale(e, selection)
    IN  /\ Publishable(p) /\ selection.state = "play"
        /\ ScaleNotes(scale.mode, scale.root) # <<>>
        /\ gap \in Nat /\ gap < TTL * Tick
        /\ n = [note |-> Map(e, selection, sequence, gap), gap |-> gap,
                overlay |-> overlay, policy |-> p]

\* Between Select and Enqueue: the note is the one the packet was given.
NoteInv ==
    pc = "enqueue" =>
        \E p \in Policies, overlay \in Overlays :
            IsNoteOf(note, event, p, overlay, note.note.id[2], note.gap)

HandInv ==
    /\ pc \in {"next", "observe", "select", "enqueue"}
    /\ IF pc = "next" THEN event = None ELSE event \in Events
    /\ pc # "select" => observed = None
    /\ pc # "enqueue" => note = None
    /\ ExpiredInv /\ ObservedInv /\ NoteInv

Inv == RegistryInv /\ HandInv

LEMMA InitInv == Init => Inv
<1> SUFFICES ASSUME Init PROVE Inv
  OBVIOUS
<1> USE DEF Init
<1>1. DOMAIN flows = {} /\ oldest = <<>>
  OBVIOUS
<1>2. Heap(flows, oldest)
  <2>1. Timed(flows)
    BY <1>1 DEF Timed
  <2>2. oldest \in Seq(DOMAIN flows) /\ Len(oldest) = 0
    BY <1>1
  <2>3. Sorted(flows, oldest)
    BY <2>2 DEF Sorted
  <2>4. ASSUME NEW x PROVE x \in Elements(oldest) <=> x \in DOMAIN flows
    BY <1>1, <2>2 DEF Elements
  <2> QED BY <2>1, <2>2, <2>3, <2>4 DEF Heap
<1>3. RegistryInv
  <2>1. flows \in [DOMAIN flows -> Snapshots]
    BY <1>1
  <2>2. Len(oldest) <= Capacity
    BY <1>1, ConfigAssumption
  <2>3. SnapshotsCoherent
    BY <1>1 DEF SnapshotsCoherent
  <2> QED BY <1>2, <2>1, <2>2, <2>3 DEF RegistryInv
<1>4. HandInv
  BY DEF HandInv, ExpiredInv, ObservedInv, NoteInv
<1> QED BY <1>3, <1>4 DEF Inv

\* Expire removes exactly the flows that are too old.
LEMMA ExpireFacts ==
    ASSUME RegistryInv, NEW now \in Int, Expire(now)
    PROVE  /\ RegistryInv'
           /\ \A i : i \in DOMAIN flows' <=> i \in DOMAIN flows /\ flows[i].last > now - TTL
           /\ \A i \in DOMAIN flows' : flows'[i] = flows[i]
<1> DEFINE n == Expired(flows, oldest, now)
           gone == {oldest[i] : i \in 1..n}
<1>1. Heap(flows, oldest) /\ flows \in [DOMAIN flows -> Snapshots] /\ SnapshotsCoherent
      /\ Len(oldest) <= Capacity
  BY DEF RegistryInv
<1>2. n \in 0..Len(oldest) /\ \A i \in 1..Len(oldest) : i <= n <=> flows[oldest[i]].last <= now - TTL
  BY <1>1, ExpiredIs
<1>3. flows' = Without(flows, gone) /\ oldest' = SubSeq(oldest, n + 1, Len(oldest))
  BY DEF Expire
<1> HIDE DEF n
<1>4. Heap(flows', oldest')
  BY <1>1, <1>2, <1>3, HeapDrop
<1>5. /\ Len(oldest) \in Nat /\ oldest \in Seq(DOMAIN flows) /\ TTL \in Nat
      /\ \A i \in DOMAIN flows : flows[i].last \in Int
      /\ \A x \in DOMAIN flows : \E i \in 1..Len(oldest) : x = oldest[i]
  BY <1>1, ConfigAssumption DEF Heap, Timed, Elements
<1>6. Len(oldest') <= Capacity
  <2>1. Len(oldest') <= Len(oldest)
    BY <1>2, <1>3, <1>5
  <2>2. Len(oldest') \in Nat
    BY <1>4, HeapSize
  <2> QED BY <1>1, <1>5, <2>1, <2>2, ConfigAssumption
<1>7. ASSUME NEW i PROVE i \in gone <=> i \in DOMAIN flows /\ flows[i].last <= now - TTL
  <2>1. ASSUME i \in gone PROVE i \in DOMAIN flows /\ flows[i].last <= now - TTL
    <3>1. PICK k \in 1..n : i = oldest[k]
      BY <2>1
    <3>2. k \in 1..Len(oldest) /\ k <= n
      BY <1>2, <1>5
    <3> QED BY <1>2, <1>5, <3>1, <3>2
  <2>2. ASSUME i \in DOMAIN flows, flows[i].last <= now - TTL PROVE i \in gone
    <3>1. PICK k \in 1..Len(oldest) : i = oldest[k]
      BY <1>5, <2>2
    <3>2. k \in 1..n
      BY <1>2, <2>2, <3>1
    <3> QED BY <3>1, <3>2
  <2> QED BY <2>1, <2>2
<1> HIDE DEF gone
<1>8. DOMAIN flows' = DOMAIN flows \ gone /\ flows' = [i \in DOMAIN flows \ gone |-> flows[i]]
  BY <1>3 DEF Without
<1>9. \A i : i \in DOMAIN flows' <=> i \in DOMAIN flows /\ flows[i].last > now - TTL
  BY <1>5, <1>7, <1>8
<1>10. \A i \in DOMAIN flows' : flows'[i] = flows[i] /\ i \in DOMAIN flows
  BY <1>8
<1>11. flows' \in [DOMAIN flows' -> Snapshots]
  BY <1>1, <1>8
<1>12. SnapshotsCoherent'
  BY <1>1, <1>10 DEF SnapshotsCoherent
<1> QED BY <1>4, <1>6, <1>9, <1>10, <1>11, <1>12 DEF RegistryInv

\* A known flow is seen again, in time or late.
LEMMA UpdateFacts ==
    ASSUME RegistryInv, NEW e \in Events, e.at # 0, FlowID(e) \in DOMAIN flows,
           flows[FlowID(e)].packets < MaxPackets, Update(e, FlowID(e))
    PROVE  RegistryInv' /\ DOMAIN flows' = DOMAIN flows
<1> DEFINE id == FlowID(e)
           s == flows[id]
           u == Updated(s, e)
<1>1. Heap(flows, oldest) /\ flows \in [DOMAIN flows -> Snapshots] /\ SnapshotsCoherent
      /\ Len(oldest) <= Capacity /\ id \in DOMAIN flows
  BY DEF RegistryInv
<1>2. /\ s.first \in 1..MaxTime /\ s.last \in 1..MaxTime /\ s.packets \in 1..MaxPackets
      /\ s.ab \in Nat /\ s.ba \in Nat /\ s.event \in Events /\ s.event.at = s.last
      /\ s.first <= s.last /\ s.packets = s.ab + s.ba /\ FlowID(s.event) = id
  BY <1>1 DEF Snapshots, SnapshotsCoherent
<1>3. e.at \in 1..MaxTime /\ MaxTime \in Nat /\ MaxPackets \in Nat /\ s.packets < MaxPackets
  BY EventFacts, ConfigAssumption
<1>4. flows' = [flows EXCEPT ![id] = u]
      /\ oldest' = IF e.at > s.last THEN Place(flows', oldest, id) ELSE oldest
  BY DEF Update
<1>5. /\ u.first = AtMost(s.first, e.at) /\ u.last = AtLeast(s.last, e.at)
      /\ u.packets = s.packets + 1
      /\ u.ab = (IF AToB(e) THEN s.ab + 1 ELSE s.ab)
      /\ u.ba = (IF AToB(e) THEN s.ba ELSE s.ba + 1)
      /\ u.event = (IF e.at < s.event.at THEN s.event ELSE e)
      /\ u = [first |-> u.first, last |-> u.last, packets |-> u.packets,
              ab |-> u.ab, ba |-> u.ba, event |-> u.event]
  BY DEF Updated
<1>6. id = FlowID(e)
  OBVIOUS
<1> HIDE DEF u, s, id
<1>7. /\ u.first \in 1..MaxTime /\ u.last \in 1..MaxTime /\ u.packets \in 1..MaxPackets
      /\ u.ab \in Nat /\ u.ba \in Nat /\ u.packets = u.ab + u.ba /\ u.first <= u.last
      /\ u.event \in Events /\ u.event.at = u.last /\ FlowID(u.event) = id
  <2>1. /\ u.first \in 1..MaxTime /\ u.last \in 1..MaxTime /\ u.first <= u.last
    BY <1>2, <1>3, <1>5 DEF AtMost, AtLeast
  <2>2. u.packets \in 1..MaxPackets /\ u.ab \in Nat /\ u.ba \in Nat /\ u.packets = u.ab + u.ba
    BY <1>2, <1>3, <1>5
  <2>3. CASE e.at < s.last
    <3>1. u.event = s.event
      BY <1>2, <1>5, <2>3
    <3>2. u.last = s.last
      BY <1>2, <1>3, <1>5, <2>3 DEF AtLeast
    <3> QED BY <1>2, <2>1, <2>2, <3>1, <3>2
  <2>4. CASE ~(e.at < s.last)
    <3>1. u.event = e
      BY <1>2, <1>5, <2>4
    <3>2. u.last = e.at
      BY <1>2, <1>3, <1>5, <2>4 DEF AtLeast
    <3> QED BY <1>6, <2>1, <2>2, <3>1, <3>2
  <2> QED BY <2>1, <2>2, <2>3, <2>4
<1>8. u \in Snapshots
  BY <1>5, <1>7 DEF Snapshots
<1>9. /\ DOMAIN flows' = DOMAIN flows /\ flows'[id] = u
      /\ \A i \in DOMAIN flows \ {id} : flows'[i] = flows[i]
      /\ flows' \in [DOMAIN flows -> Snapshots]
  BY <1>1, <1>4, <1>8
<1>10. Heap(flows', oldest')
  <2>1. CASE e.at > s.last
    <3>1. id \in Int /\ oldest' = Place(flows', oldest, id)
      BY <1>1, <1>4, <2>1 DEF Heap, Timed
    <3>2. \A x : x \in DOMAIN flows' <=> x \in DOMAIN flows \/ x = id
      BY <1>1, <1>9
    <3>3. flows'[id].last \in Int /\ \A i \in DOMAIN flows \ {id} : flows'[i].last = flows[i].last
      BY <1>7, <1>9
    <3> QED BY <1>1, <3>1, <3>2, <3>3, HeapPlace
  <2>2. CASE ~(e.at > s.last)
    <3>1. oldest' = oldest /\ u.last = s.last
      BY <1>2, <1>3, <1>4, <1>5, <2>2 DEF AtLeast
    <3>2. \A i \in DOMAIN flows : flows'[i].last = flows[i].last
      BY <1>9, <3>1 DEF s
    <3> QED BY <1>1, <1>9, <3>1, <3>2, HeapSame
  <2> QED BY <2>1, <2>2
<1>11. Len(oldest') <= Capacity
  <2>1. Len(oldest') = Cardinality(DOMAIN flows') /\ Len(oldest) = Cardinality(DOMAIN flows)
    BY <1>1, <1>10, HeapSize
  <2> QED BY <1>1, <1>9, <2>1
<1>12. SnapshotsCoherent'
  <2>1. ASSUME NEW i \in DOMAIN flows'
        PROVE  /\ flows'[i].packets = flows'[i].ab + flows'[i].ba
               /\ flows'[i].first <= flows'[i].last
               /\ flows'[i].event.at = flows'[i].last
               /\ FlowID(flows'[i].event) = i
    <3>1. CASE i = id
      BY <1>7, <1>9, <3>1
    <3>2. CASE i # id
      BY <1>1, <1>9, <3>2 DEF SnapshotsCoherent
    <3> QED BY <3>1, <3>2
  <2> QED BY <2>1 DEF SnapshotsCoherent
<1> QED BY <1>9, <1>10, <1>11, <1>12 DEF RegistryInv

\* A new flow is added; a full registry gives up its oldest flow for it.
LEMMA CreateFacts ==
    ASSUME RegistryInv, NEW e \in Events, e.at # 0, FlowID(e) \notin DOMAIN flows,
           Create(e, FlowID(e))
    PROVE  /\ RegistryInv'
           /\ \A i \in DOMAIN flows \ DOMAIN flows' :
                 /\ Cardinality(DOMAIN flows) = Capacity
                 /\ \A j \in DOMAIN flows' \ {FlowID(e)} : flows[i].last <= flows[j].last
<1> DEFINE id == FlowID(e)
           full == Cardinality(DOMAIN flows) >= Capacity
           n == IF full THEN 1 ELSE 0
           kept == Without(flows, {oldest[i] : i \in 1..n})
           order == SubSeq(oldest, n + 1, Len(oldest))
           u == Entry(e)
<1>1. Heap(flows, oldest) /\ flows \in [DOMAIN flows -> Snapshots] /\ SnapshotsCoherent
      /\ Len(oldest) <= Capacity
  BY DEF RegistryInv
<1>2. /\ Len(oldest) = Cardinality(DOMAIN flows) /\ Len(oldest) \in Nat
      /\ Capacity \in Nat \ {0} /\ oldest \in Seq(DOMAIN flows)
  BY <1>1, HeapSize, ConfigAssumption DEF Heap
<1>3. full => Cardinality(DOMAIN flows) = Capacity /\ oldest # <<>> /\ Len(oldest) >= 1
  BY <1>1, <1>2
<1>4. n \in 0..Len(oldest)
  BY <1>2, <1>3
<1>5. /\ flows' = [i \in DOMAIN kept \cup {id} |-> IF i = id THEN u ELSE kept[i]]
      /\ oldest' = Place(flows', order, id)
  <2>1. CASE full
    <3>1. kept = Without(flows, {Head(oldest)})
      <4>1. {oldest[i] : i \in 1..n} = {Head(oldest)}
        <5>1. 1..n = {1} /\ Head(oldest) = oldest[1]
          BY <1>2, <1>3, <2>1
        <5> HIDE DEF n
        <5> QED BY <5>1
      <4> QED BY <4>1
    <3>2. order = Tail(oldest)
      <4>1. n + 1 = 2
        BY <2>1
      <4> HIDE DEF n
      <4> QED BY <1>2, <1>3, <2>1, <4>1
    <3> HIDE DEF kept, order, u, full
    <3> QED BY <2>1, <3>1, <3>2 DEF Create, full, u
  <2>2. CASE ~full
    <3>1. kept = flows
      <4>1. {oldest[i] : i \in 1..n} = {}
        BY <2>2
      <4>2. kept = [i \in DOMAIN flows |-> flows[i]]
        <5> HIDE DEF n
        <5> QED BY <4>1 DEF Without
      <4> HIDE DEF kept
      <4> QED BY <1>1, <4>2
    <3>2. order = oldest
      <4>1. n + 1 = 1
        BY <2>2
      <4> HIDE DEF n
      <4> QED BY <1>2, <4>1
    <3> HIDE DEF kept, order, u, full
    <3> QED BY <2>2, <3>1, <3>2 DEF Create, full, u
  <2> QED BY <2>1, <2>2
<1>6. Heap(kept, order)
  <2> HIDE DEF n
  <2> QED BY <1>1, <1>4, HeapDrop
<1>7. /\ DOMAIN kept = DOMAIN flows \ {oldest[i] : i \in 1..n}
      /\ \A i \in DOMAIN kept : kept[i] = flows[i] /\ i \in DOMAIN flows
  <2> HIDE DEF n
  <2> QED BY DEF Without
<1>8. Len(order) = Len(oldest) - n
  <2> HIDE DEF n
  <2> QED BY <1>2, <1>4
<1>9. e.at \in 1..MaxTime /\ id \in Int /\ MaxPackets \in Nat \ {0} /\ id \notin DOMAIN kept
  <2>1. e.at \in 1..MaxTime /\ MaxPackets \in Nat \ {0}
    BY EventFacts, ConfigAssumption
  <2>2. id \in Int
    BY EventFacts, FlowIDType
  <2>3. id \notin DOMAIN kept
    <3> HIDE DEF kept
    <3> QED BY <1>7
  <2> QED BY <2>1, <2>2, <2>3
<1>10. /\ u.first = e.at /\ u.last = e.at /\ u.packets = 1 /\ u.event = e
       /\ u.ab = (IF AToB(e) THEN 1 ELSE 0) /\ u.ba = (IF AToB(e) THEN 0 ELSE 1)
       /\ u = [first |-> u.first, last |-> u.last, packets |-> u.packets,
               ab |-> u.ab, ba |-> u.ba, event |-> u.event]
  BY DEF Entry
<1>11. id = FlowID(e)
  OBVIOUS
<1> HIDE DEF kept, order, u, id
<1>12. u \in Snapshots
  <2>1. u.ab \in Nat /\ u.ba \in Nat /\ u.packets \in 1..MaxPackets
    BY <1>9, <1>10
  <2> QED BY <1>9, <1>10, <2>1 DEF Snapshots
<1>13. /\ DOMAIN flows' = DOMAIN kept \cup {id} /\ flows'[id] = u
       /\ \A i \in DOMAIN kept : flows'[i] = flows[i]
  BY <1>5, <1>7, <1>9
<1>14. flows' \in [DOMAIN flows' -> Snapshots]
  <2>1. \A i \in DOMAIN flows' : flows'[i] \in Snapshots
    BY <1>1, <1>7, <1>12, <1>13
  <2> QED BY <1>5, <2>1
<1>15. Heap(flows', oldest')
  <2>1. \A x : x \in DOMAIN flows' <=> x \in DOMAIN kept \/ x = id
    BY <1>13
  <2>2. flows'[id].last \in Int /\ \A i \in DOMAIN kept \ {id} : flows'[i].last = kept[i].last
    BY <1>7, <1>9, <1>10, <1>13
  <2> QED BY <1>5, <1>6, <1>9, <2>1, <2>2, HeapPlace
<1>16. Len(oldest') <= Capacity
  <2>1. Len(oldest') = Cardinality(DOMAIN flows')
    BY <1>15, HeapSize
  <2>2. IsFiniteSet(DOMAIN kept) /\ Cardinality(DOMAIN kept) = Len(order) /\ Len(order) \in Nat
    BY <1>6, HeapSize
  <2>3. Cardinality(DOMAIN flows') = Cardinality(DOMAIN kept) + 1
    <3>1. Cardinality(DOMAIN kept \cup {id}) = Cardinality(DOMAIN kept) + 1
      BY <1>9, <2>2, FS_AddElement
    <3> QED BY <1>13, <3>1
  <2>4. Len(oldest) - n + 1 <= Capacity
    BY <1>2, <1>3
  <2> HIDE DEF n
  <2> QED BY <1>8, <2>1, <2>2, <2>3, <2>4
<1>17. SnapshotsCoherent'
  <2>1. ASSUME NEW i \in DOMAIN flows'
        PROVE  /\ flows'[i].packets = flows'[i].ab + flows'[i].ba
               /\ flows'[i].first <= flows'[i].last
               /\ flows'[i].event.at = flows'[i].last
               /\ FlowID(flows'[i].event) = i
    <3>1. CASE i = id
      <4>1. u.packets = u.ab + u.ba /\ u.first <= u.last /\ u.event.at = u.last
            /\ FlowID(u.event) = id
        BY <1>9, <1>10, <1>11
      <4> QED BY <1>13, <3>1, <4>1
    <3>2. CASE i # id
      BY <1>1, <1>7, <1>13, <3>2 DEF SnapshotsCoherent
    <3> QED BY <3>1, <3>2
  <2> QED BY <2>1 DEF SnapshotsCoherent
<1>18. ASSUME NEW i \in DOMAIN flows \ DOMAIN flows'
       PROVE  /\ Cardinality(DOMAIN flows) = Capacity
              /\ \A j \in DOMAIN flows' \ {id} : flows[i].last <= flows[j].last
  <2>1. PICK k \in 1..n : i = oldest[k]
    <3> HIDE DEF n
    <3> QED BY <1>7, <1>13
  <2>2. full /\ k = 1 /\ 1 \in 1..Len(oldest)
    BY <1>2, <1>3, <2>1
  <2>3. ASSUME NEW j \in DOMAIN flows' \ {id} PROVE flows[i].last <= flows[j].last
    <3>1. j \in DOMAIN flows /\ j # i
      BY <1>7, <1>13
    <3>2. PICK m \in 1..Len(oldest) : j = oldest[m]
      BY <1>1, <3>1 DEF Heap, Elements
    <3>3. 1 < m
      BY <1>2, <2>1, <2>2, <3>1, <3>2
    <3>4. Older(flows, i, j)
      BY <1>1, <2>1, <2>2, <3>2, <3>3 DEF Heap, Sorted
    <3>5. flows[i].last \in Int /\ flows[j].last \in Int
      BY <1>1, <3>1 DEF Heap, Timed
    <3> QED BY <3>4, <3>5 DEF Older
  <2> QED BY <1>3, <2>2, <2>3
<1> QED BY <1>11, <1>14, <1>15, <1>16, <1>17, <1>18 DEF RegistryInv

LEMMA ArriveInv ==
    ASSUME Inv, NEW f \in Frames, NEW at \in 0..MaxTime, Arrive(f, at)
    PROVE  Inv'
<1> DEFINE e == Normalize(f, at)
<1>1. /\ pc = "next" /\ pc' = "observe" /\ Supported(f) /\ event' = e /\ Expire(at)
      /\ FlowID(e) \in DOMAIN flows => flows[FlowID(e)].packets < MaxPackets
      /\ observed' = observed /\ note' = note
  BY DEF Arrive
<1>2. e \in Events /\ e.at = at /\ at \in Int
  <2>1. e.at = at
    BY DEF Normalize
  <2>2. e \in Events
    BY <1>1 DEF Events
  <2> QED BY <2>1, <2>2, ConfigAssumption
<1> HIDE DEF e
<1>3. /\ RegistryInv'
      /\ \A i : i \in DOMAIN flows' <=> i \in DOMAIN flows /\ flows[i].last > at - TTL
      /\ \A i \in DOMAIN flows' : flows'[i] = flows[i]
  BY <1>1, <1>2, ExpireFacts DEF Inv
<1>4. ExpiredInv'
  <2>1. FlowID(e) \in DOMAIN flows' => flows'[FlowID(e)].packets < MaxPackets
    BY <1>1, <1>3
  <2>2. \A i \in DOMAIN flows' : flows'[i].last > e.at - TTL
    BY <1>2, <1>3
  <2> QED BY <1>1, <2>1, <2>2 DEF ExpiredInv
<1>5. HandInv'
  <2>1. ObservedInv' /\ NoteInv'
    BY <1>1 DEF ObservedInv, NoteInv
  <2> QED BY <1>1, <1>2, <1>4, <2>1 DEF HandInv, Inv
<1> QED BY <1>3, <1>5 DEF Inv

LEMMA ObserveInv ==
    ASSUME Inv, Observe
    PROVE  Inv'
<1>1. pc = "observe" /\ event \in Events /\ observed = None /\ note = None /\ note' = note
      /\ ExpiredInv /\ RegistryInv
  BY DEF Observe, Inv, HandInv
<1>2. CASE event.at = 0
  <2>1. pc' = "next" /\ event' = None /\ flows' = flows /\ oldest' = oldest /\ observed' = observed
    BY <1>2 DEF Observe
  <2>2. RegistryInv'
    BY <1>1, <2>1 DEF RegistryInv, SnapshotsCoherent
  <2>3. HandInv'
    BY <1>1, <2>1 DEF HandInv, ExpiredInv, ObservedInv, NoteInv
  <2> QED BY <2>2, <2>3 DEF Inv
<1>3. CASE event.at # 0
  <2> DEFINE id == FlowID(event)
  <2>1. /\ IF id \in DOMAIN flows THEN Update(event, id) ELSE Create(event, id)
        /\ pc' = "select" /\ event' = event
    BY <1>1, <1>3, EventFacts DEF Observe
  <2>2. MaxTime \in Nat /\ event.at \in 0..MaxTime
    BY <1>1, EventFacts, ConfigAssumption
  <2>3. CASE id \in DOMAIN flows
    <3>1. Update(event, id) /\ flows[id].packets < MaxPackets /\ flows[id].last > event.at - TTL
      BY <1>1, <2>1, <2>3 DEF ExpiredInv
    <3>2. RegistryInv'
      BY <1>1, <1>3, <2>3, <3>1, UpdateFacts
    <3>3. flows[id].packets \in Nat /\ flows[id].last \in 1..MaxTime
      <4>1. flows[id] \in Snapshots
        BY <1>1, <2>3 DEF RegistryInv
      <4> HIDE DEF id
      <4> QED BY <4>1, ConfigAssumption DEF Snapshots
    <3>4. observed' = [sequence |-> flows[id].packets + 1, previous |-> flows[id].last]
      BY <3>1 DEF Update
    <3>5. ObservedInv'
      <4>1. observed' \in [sequence : Nat, previous : 0..MaxTime]
        BY <2>2, <3>3, <3>4
      <4>2. event'.at - observed'.previous < TTL
        <5>1. TTL \in Nat
          BY ConfigAssumption
        <5> HIDE DEF id
        <5> QED BY <2>1, <2>2, <3>1, <3>3, <3>4, <5>1
      <4> QED BY <4>1, <4>2 DEF ObservedInv
    <3>6. HandInv'
      BY <1>1, <2>1, <3>5 DEF HandInv, ExpiredInv, NoteInv
    <3> QED BY <3>2, <3>6 DEF Inv
  <2>4. CASE id \notin DOMAIN flows
    <3>1. Create(event, id)
      BY <2>1, <2>4
    <3>2. RegistryInv'
      BY <1>1, <1>3, <2>4, <3>1, CreateFacts
    <3>3. observed' = [sequence |-> 1, previous |-> 0]
      BY <3>1 DEF Create
    <3>4. ObservedInv'
      BY <2>2, <3>3 DEF ObservedInv
    <3>5. HandInv'
      BY <1>1, <2>1, <3>4 DEF HandInv, ExpiredInv, NoteInv
    <3> QED BY <3>2, <3>5 DEF Inv
  <2> QED BY <2>3, <2>4
<1> QED BY <1>2, <1>3

\* A pause within a stay, in milliseconds.
LEMMA GapFacts ==
    ASSUME Inv, pc = "select"
    PROVE  Gap \in Nat /\ Gap < TTL * Tick
<1>1. /\ observed.previous \in 0..MaxTime /\ event.at \in 0..MaxTime
      /\ TTL \in Nat \ {0} /\ Tick \in Nat \ {0} /\ MaxTime \in Nat
      /\ observed.previous # 0 /\ event.at > observed.previous => event.at - observed.previous < TTL
  BY EventFacts, ConfigAssumption DEF Inv, HandInv, ObservedInv
<1>2. \A x, t, k \in Nat : x < t /\ k # 0 => k * x \in Nat /\ k * x < t * k
  OBVIOUS
<1>3. CASE observed.previous # 0 /\ event.at > observed.previous
  <2>1. Gap = Tick * (event.at - observed.previous)
    BY <1>3 DEF Gap
  <2>2. event.at - observed.previous \in Nat /\ event.at - observed.previous < TTL
    BY <1>1, <1>3
  <2> DEFINE x == event.at - observed.previous
  <2> HIDE DEF x
  <2>3. x \in Nat /\ x < TTL /\ Gap = Tick * x
    BY <2>1, <2>2 DEF x
  <2> QED BY <1>1, <1>2, <2>3
<1>4. CASE ~(observed.previous # 0 /\ event.at > observed.previous)
  <2>1. Gap = 0
    BY <1>4 DEF Gap
  <2>2. Tick * 0 = 0 /\ Tick * 0 < TTL * Tick
    BY <1>1, <1>2
  <2> QED BY <2>1, <2>2
<1> QED BY <1>3, <1>4

LEMMA SelectInv ==
    ASSUME Inv, NEW p \in Policies, NEW overlay \in Overlays, Select(p, overlay)
    PROVE  Inv'
<1> DEFINE selection == Evaluate(Compile(p), event, overlay)
           scale == Scale(event, selection)
           played == selection.state = "play" /\ ScaleNotes(scale.mode, scale.root) # <<>>
<1> HIDE DEF selection
<1>1. /\ pc = "select" /\ Publishable(p) /\ observed' = None /\ flows' = flows /\ oldest' = oldest
      /\ pc' = (IF played THEN "enqueue" ELSE "next")
      /\ note' = (IF played
                  THEN [note |-> Map(event, selection, observed.sequence, Gap),
                        gap |-> Gap, overlay |-> overlay, policy |-> p]
                  ELSE None)
      /\ event' = (IF played THEN event ELSE None)
  BY DEF Select, selection, Published, Selector
<1>2. RegistryInv'
  BY <1>1 DEF Inv, RegistryInv, SnapshotsCoherent
<1>3. event \in Events
  BY <1>1 DEF Inv, HandInv
<1>4. CASE ~played
  <2>1. pc' = "next" /\ note' = None /\ event' = None
    BY <1>1, <1>4
  <2>2. HandInv'
    BY <1>1, <2>1 DEF HandInv, ExpiredInv, ObservedInv, NoteInv
  <2> QED BY <1>2, <2>2 DEF Inv
<1>5. CASE played
  <2>1. /\ pc' = "enqueue" /\ event' = event
        /\ note' = [note |-> Map(event, selection, observed.sequence, Gap),
                    gap |-> Gap, overlay |-> overlay, policy |-> p]
    BY <1>1, <1>5
  <2>2. Gap \in Nat /\ Gap < TTL * Tick
    BY <1>1, GapFacts
  <2> DEFINE gap == Gap
             n == note'
  <2> HIDE DEF gap
  <2>3. IsNoteOf(note', event, p, overlay, observed.sequence, gap)
    BY <1>1, <1>5, <2>1, <2>2 DEF IsNoteOf, selection, gap
  <2>4. NoteInv'
    <3> DEFINE sequence == observed.sequence
    <3>1. IsNoteOf(note', event', p, overlay, sequence, gap)
      BY <2>1, <2>3
    <3>2. note'.note.id[2] = sequence /\ note'.gap = gap
      BY <2>1 DEF Map, gap
    <3> HIDE DEF sequence
    <3>3. IsNoteOf(note', event', p, overlay, note'.note.id[2], note'.gap)
      BY <3>1, <3>2
    <3> QED BY <3>3 DEF NoteInv
  <2>5. HandInv'
    BY <1>1, <1>3, <2>1, <2>4 DEF HandInv, ExpiredInv, ObservedInv
  <2> QED BY <1>2, <2>5 DEF Inv
<1> QED BY <1>4, <1>5

LEMMA EnqueueInv ==
    ASSUME Inv, Enqueue
    PROVE  Inv'
<1>1. /\ pc = "enqueue" /\ pc' = "next" /\ event' = None /\ note' = None
      /\ flows' = flows /\ oldest' = oldest /\ observed' = observed
  BY DEF Enqueue
<1>2. RegistryInv'
  BY <1>1 DEF Inv, RegistryInv, SnapshotsCoherent
<1>3. HandInv'
  BY <1>1 DEF Inv, HandInv, ExpiredInv, ObservedInv, NoteInv
<1> QED BY <1>2, <1>3 DEF Inv

LEMMA StutterInv ==
    ASSUME Inv, UNCHANGED vars
    PROVE  Inv'
<1>1. /\ flows' = flows /\ oldest' = oldest /\ pc' = pc /\ event' = event
      /\ observed' = observed /\ note' = note
  BY DEF vars
<1>2. RegistryInv'
  BY <1>1 DEF Inv, RegistryInv, SnapshotsCoherent
<1>3. HandInv'
  BY <1>1 DEF Inv, HandInv, ExpiredInv, ObservedInv, NoteInv
<1> QED BY <1>2, <1>3 DEF Inv

\* The strengthened invariant holds in every reachable state.
LEMMA InvAlways == Spec => []Inv
<1>1. Inv /\ [Next]_vars => Inv'
  <2> SUFFICES ASSUME Inv, [Next]_vars PROVE Inv'
    OBVIOUS
  <2>1. CASE \E f \in Frames, at \in 0..MaxTime : Arrive(f, at)
    BY <2>1, ArriveInv
  <2>2. CASE Observe
    BY <2>2, ObserveInv
  <2>3. CASE \E p \in Policies, overlay \in Overlays : Select(p, overlay)
    BY <2>3, SelectInv
  <2>4. CASE Enqueue
    BY <2>4, EnqueueInv
  <2>5. CASE UNCHANGED vars
    BY <2>5, StutterInv
  <2> QED BY <2>1, <2>2, <2>3, <2>4, <2>5 DEF Next
<1> QED BY InitInv, <1>1, PTL DEF Spec

-----------------------------------------------------------------------------
(***************************************************************************)
(* The registry                                                            *)
(***************************************************************************)

LEMMA InvRegistry == Inv => RegistrySound
<1> SUFFICES ASSUME Inv PROVE RegistrySound
  OBVIOUS
<1>1. /\ flows \in [DOMAIN flows -> Snapshots] /\ Heap(flows, oldest) /\ Len(oldest) <= Capacity
      /\ SnapshotsCoherent /\ HandInv
  BY DEF Inv, RegistryInv
<1>2. \A i \in DOMAIN flows :
          /\ flows[i].first \in 1..MaxTime /\ flows[i].last \in 1..MaxTime
          /\ flows[i].packets \in 1..MaxPackets
          /\ flows[i].ab \in Nat /\ flows[i].ba \in Nat /\ flows[i].event \in Events
  BY <1>1 DEF Snapshots
<1>3. pc # "next" => event \in Events
  BY <1>1 DEF HandInv
<1>4. TypeOK
  <2>1. \A i \in DOMAIN flows : Valid(flows[i].event)
    BY <1>2, EventFacts
  <2>2. (pc = "next") = (event = None)
    BY <1>1, EventFacts DEF HandInv
  <2>3. (pc = "select") = (observed # None)
    <3>1. ASSUME pc = "select" PROVE observed # None
      <4>1. observed \in [sequence : Nat, previous : 0..MaxTime]
        BY <1>1, <3>1 DEF HandInv, ObservedInv
      <4>2. "sequence" \in DOMAIN observed /\ "sequence" \notin DOMAIN None
        BY <4>1 DEF None
      <4> QED BY <4>2
    <3> QED BY <1>1, <3>1 DEF HandInv
  <2>4. (pc = "enqueue") = (note # None)
    <3>1. ASSUME pc = "enqueue" PROVE note # None
      <4>1. PICK p, overlay : IsNoteOf(note, event, p, overlay, note.note.id[2], note.gap)
        BY <1>1, <3>1 DEF HandInv, NoteInv
      <4>2. "gap" \in DOMAIN note /\ "gap" \notin DOMAIN None
        BY <4>1 DEF IsNoteOf, None
      <4> QED BY <4>2
    <3> QED BY <1>1, <3>1 DEF HandInv
  <2>5. oldest \in Seq(DOMAIN flows) /\ pc \in {"next", "observe", "select", "enqueue"}
    BY <1>1 DEF Heap, HandInv
  <2> QED BY <1>2, <2>1, <2>2, <2>3, <2>4, <2>5 DEF TypeOK
<1>5. NormalizedIsValid
  BY <1>3, EventFacts DEF NormalizedIsValid
<1>6. IsFiniteSet(DOMAIN flows) /\ Cardinality(DOMAIN flows) = Len(oldest) /\ Len(oldest) \in Nat
  BY <1>1, HeapSize
<1>7. Indexed
  <2>1. DOMAIN oldest = 1..Len(oldest)
    BY <1>1 DEF Heap
  <2>2. ASSUME NEW x PROVE x \in {oldest[i] : i \in DOMAIN oldest} <=> x \in DOMAIN flows
    BY <1>1, <2>1 DEF Heap, Elements
  <2>3. {oldest[i] : i \in DOMAIN oldest} = DOMAIN flows
    BY <2>2
  <2>4. \A i, j \in DOMAIN oldest : i < j => Older(flows, oldest[i], oldest[j])
    BY <1>1, <2>1 DEF Heap, Sorted
  <2> QED BY <1>1, <1>6, <2>3, <2>4 DEF Indexed
<1>8. RecentExact
  <2>1. Dated(DOMAIN flows)
    BY <1>1 DEF Heap, Timed, Dated
  <2> QED BY <1>6, <2>1, RecentIs
<1> QED BY <1>1, <1>4, <1>5, <1>7, <1>8 DEF RegistrySound

\* For every capacity, TTL and stream of packets: what enters the registry is
\* valid, the map and the heap hold the same flows and never more than the
\* capacity, a late packet moves no flow backward in time, and a page of flows
\* is exactly the newest ones whatever order the map is iterated in.
THEOREM RegistrySoundAlways == Spec => []RegistrySound
BY InvAlways, InvRegistry, PTL

\* For every capacity, TTL and stream of packets: a flow leaves the registry
\* exactly when it is TTL older than the packet just read, or as the oldest of a
\* full registry when a new flow comes.
THEOREM RemovalsExactAlways == Spec => RemovalsExact
<1> DEFINE A ==
        /\ pc = "next" /\ pc' = "observe" =>
             DOMAIN flows' = {i \in DOMAIN flows : flows[i].last > event'.at - TTL}
        /\ pc = "observe" =>
             \A i \in DOMAIN flows \ DOMAIN flows' :
                 /\ FlowID(event) \notin DOMAIN flows
                 /\ Cardinality(DOMAIN flows) = Capacity
                 /\ \A j \in DOMAIN flows' \ {FlowID(event)} : flows[i].last <= flows[j].last
<1>1. Inv /\ [Next]_vars => [A]_vars
  <2> SUFFICES ASSUME Inv, Next PROVE A
    OBVIOUS
  <2>1. ASSUME NEW f \in Frames, NEW at \in 0..MaxTime, Arrive(f, at) PROVE A
    <3>1. pc = "next" /\ pc' = "observe" /\ event'.at = at /\ Expire(at) /\ at \in Int
      BY <2>1, ConfigAssumption DEF Arrive, Normalize
    <3>2. \A i : i \in DOMAIN flows' <=> i \in DOMAIN flows /\ flows[i].last > at - TTL
      BY <3>1, ExpireFacts DEF Inv
    <3> QED BY <3>1, <3>2
  <2>2. CASE Observe
    <3>1. pc = "observe" /\ event \in Events /\ ExpiredInv /\ RegistryInv
      BY <2>2 DEF Observe, Inv, HandInv
    <3>2. CASE event.at = 0
      BY <2>2, <3>1, <3>2 DEF Observe
    <3>3. CASE event.at # 0 /\ FlowID(event) \in DOMAIN flows
      <4>1. Update(event, FlowID(event)) /\ flows[FlowID(event)].packets < MaxPackets
        BY <2>2, <3>1, <3>3, EventFacts DEF Observe, ExpiredInv
      <4>2. DOMAIN flows' = DOMAIN flows
        BY <3>1, <3>3, <4>1, UpdateFacts
      <4> QED BY <3>1, <4>2
    <3>4. CASE event.at # 0 /\ FlowID(event) \notin DOMAIN flows
      <4>1. Create(event, FlowID(event))
        BY <2>2, <3>1, <3>4, EventFacts DEF Observe
      <4>2. \A i \in DOMAIN flows \ DOMAIN flows' :
                 /\ Cardinality(DOMAIN flows) = Capacity
                 /\ \A j \in DOMAIN flows' \ {FlowID(event)} : flows[i].last <= flows[j].last
        BY <3>1, <3>4, <4>1, CreateFacts
      <4> QED BY <3>1, <3>4, <4>2
    <3> QED BY <3>2, <3>3, <3>4
  <2>3. ASSUME NEW p \in Policies, NEW overlay \in Overlays, Select(p, overlay) PROVE A
    BY <2>3 DEF Select
  <2>4. CASE Enqueue
    BY <2>4 DEF Enqueue
  <2> HIDE DEF A
  <2> QED BY <2>1, <2>2, <2>3, <2>4 DEF Next
<1> QED BY <1>1, InvAlways, PTL DEF Spec, RemovalsExact

-----------------------------------------------------------------------------
(***************************************************************************)
(* The selector's rules                                                    *)
(***************************************************************************)

\* One more name than rules: uniqueRuleID always finds one that no rule has.
LEMMA UniqueRuleIDIs ==
    ASSUME NEW S, NEW rules \in Seq(S), NEW base, NEW k
    PROVE  /\ \E n \in 0..Len(rules) : UniqueRuleID(base, k, rules) = <<base, k, n>>
           /\ \A i \in 1..Len(rules) : rules[i].id # UniqueRuleID(base, k, rules)
<1> DEFINE N == Len(rules)
           Taken(n) == \E i \in 1..N : rules[i].id = <<base, k, n>>
           A == {n \in 0..N : ~Taken(n)}
<1>1. N \in Nat /\ DOMAIN rules = 1..N
  OBVIOUS
<1>2. A # {}
  <2> SUFFICES ASSUME A = {} PROVE FALSE
    OBVIOUS
  <2>1. \A n \in 0..N : Taken(n)
    OBVIOUS
  <2> DEFINE f == [n \in 0..N |-> CHOOSE i \in 1..N : rules[i].id = <<base, k, n>>]
  <2>2. \A n \in 0..N : f[n] \in 1..N /\ rules[f[n]].id = <<base, k, n>>
    BY <2>1
  <2>3. f \in [0..N -> 1..N]
    BY <2>2
  <2>4. IsFiniteSet(0..N) /\ Cardinality(0..N) = N + 1
    <3>1. 0 \in Int /\ N \in Int
      BY <1>1
    <3>2. IsFiniteSet(0..N) /\ Cardinality(0..N) = IF 0 > N THEN 0 ELSE N - 0 + 1
      <4> HIDE DEF N
      <4> QED BY <3>1, FS_Interval, Zenon
    <3> QED BY <1>1, <3>2
  <2>5. IsFiniteSet(1..N) /\ Cardinality(1..N) = N
    <3> HIDE DEF N
    <3> QED BY <1>1, CountTo
  <2>6. Cardinality(1..N) < Cardinality(0..N)
    BY <1>1, <2>4, <2>5
  <2> HIDE DEF f, N
  <2>7. PICK x \in 0..N, y \in 0..N : x # y /\ f[x] = f[y]
    <3> DEFINE X == 0..N
               Y == 1..N
    <3>1. f \in [X -> Y] /\ IsFiniteSet(X) /\ IsFiniteSet(Y) /\ Cardinality(Y) < Cardinality(X)
      BY <2>3, <2>4, <2>5, <2>6
    <3> HIDE DEF X, Y
    <3>2. \E x, y \in X : x # y /\ f[x] = f[y]
      BY <3>1, FS_PigeonHole
    <3> QED BY <3>2 DEF X
  <2>8. <<base, k, x>> = <<base, k, y>>
    BY <2>2, <2>7
  <2> QED BY <2>7, <2>8
<1>3. PICK n \in A : \A m \in A : n <= m
  <2>1. A \in SUBSET Nat
    OBVIOUS
  <2> HIDE DEF A
  <2> QED BY <1>2, <2>1, LeastNatural
<1> DEFINE Free(id) == /\ \A i \in DOMAIN rules : rules[i].id # id
                       /\ \A m \in 0..Len(rules) :
                             m < id[3] => \E i \in DOMAIN rules : rules[i].id = <<base, k, m>>
           Names == {<<base, k, m>> : m \in 0..Len(rules)}
           id0 == <<base, k, n>>
<1>4. id0 \in Names /\ Free(id0)
  <2>1. n \in 0..N /\ ~Taken(n) /\ id0[3] = n
    BY <1>3
  <2>2. ASSUME NEW m \in 0..N, m < n PROVE Taken(m)
    <3> HIDE DEF Taken, N
    <3>1. ~(n <= m)
      BY <1>1, <2>1, <2>2
    <3>2. m \notin A
      BY <1>3, <3>1
    <3> QED BY <3>2
  <2> QED BY <1>1, <2>1, <2>2
<1>5. UniqueRuleID(base, k, rules) = CHOOSE id \in Names : Free(id)
  BY DEF UniqueRuleID
<1>6. UniqueRuleID(base, k, rules) \in Names /\ Free(UniqueRuleID(base, k, rules))
  <2> HIDE DEF Names, Free, id0
  <2> QED BY <1>4, <1>5
<1> QED BY <1>1, <1>6

\* The rules the application adds.
SafetyRule(id, match) ==
    [id |-> id, enabled |-> TRUE, match |-> match, action |-> Plain("ignore")]

HttpSource == [Everything EXCEPT !.protocol = "tcp", !.sports = <<HttpPort, HttpPort>>]

HttpDestination == [Everything EXCEPT !.protocol = "tcp", !.dports = <<HttpPort, HttpPort>>]

PeerSource(k) ==
    [Everything EXCEPT !.protocol = "tcp", !.source = {Peers[k]}, !.sports = <<PeerPort, PeerPort>>]

PeerDestination(k) ==
    [Everything EXCEPT !.protocol = "tcp", !.destination = {Peers[k]},
                       !.dports = <<PeerPort, PeerPort>>]

LEMMA HttpIs ==
    ASSUME NEW rules
    PROVE  HttpSafetyRules(rules) =
               << SafetyRule(UniqueRuleID("http_source", 0, rules), HttpSource),
                  SafetyRule(UniqueRuleID("http_destination", 0, rules), HttpDestination) >>
BY DEF HttpSafetyRules, SafetyRule, HttpSource, HttpDestination

\* Two rules for each address of the host, one per direction.
PeerName(i) == IF i % 2 = 1 THEN "peer_source" ELSE "peer_destination"

PeerMatch(i) ==
    IF i % 2 = 1 THEN PeerSource((i + 1) \div 2) ELSE PeerDestination((i + 1) \div 2)

LEMMA PeerIs ==
    ASSUME NEW rules
    PROVE  /\ DOMAIN PeerSafetyRules(rules) = 1..2 * Len(Peers)
           /\ \A i \in 1..2 * Len(Peers) :
                 PeerSafetyRules(rules)[i] =
                     SafetyRule(UniqueRuleID(PeerName(i), (i + 1) \div 2, rules), PeerMatch(i))
           /\ PeerSafetyRules(rules) = [i \in 1..2 * Len(Peers) |-> PeerSafetyRules(rules)[i]]
<1> DEFINE rule(name, k, match) ==
               [id |-> UniqueRuleID(name, k, rules), enabled |-> TRUE,
                match |-> match, action |-> Plain("ignore")]
           pair(k) ==
               << rule("peer_source", k,
                       [Everything EXCEPT !.protocol = "tcp", !.source = {Peers[k]},
                                          !.sports = <<PeerPort, PeerPort>>]),
                  rule("peer_destination", k,
                       [Everything EXCEPT !.protocol = "tcp", !.destination = {Peers[k]},
                                          !.dports = <<PeerPort, PeerPort>>]) >>
<1>1. PeerSafetyRules(rules) = [i \in 1..2 * Len(Peers) |-> pair((i + 1) \div 2)[2 - (i % 2)]]
  BY DEF PeerSafetyRules
<1>2. \A k : pair(k)[1] = SafetyRule(UniqueRuleID("peer_source", k, rules), PeerSource(k))
             /\ pair(k)[2] = SafetyRule(UniqueRuleID("peer_destination", k, rules), PeerDestination(k))
  BY DEF SafetyRule, PeerSource, PeerDestination
<1> HIDE DEF pair
<1>3. ASSUME NEW i \in 1..2 * Len(Peers)
      PROVE  PeerSafetyRules(rules)[i] =
                 SafetyRule(UniqueRuleID(PeerName(i), (i + 1) \div 2, rules), PeerMatch(i))
  <2>1. PeerSafetyRules(rules)[i] = pair((i + 1) \div 2)[2 - (i % 2)]
    BY <1>1
  <2>2. Len(Peers) \in Nat /\ i \in Nat
    BY PortsAssumption
  <2>3. CASE i % 2 = 1
    <3>1. 2 - (i % 2) = 1
      BY <2>3
    <3> QED BY <1>2, <2>1, <2>3, <3>1 DEF PeerName, PeerMatch
  <2>4. CASE i % 2 # 1
    <3>1. i % 2 = 0
      BY <2>2, <2>4
    <3>2. 2 - (i % 2) = 2
      BY <3>1
    <3> QED BY <1>2, <2>1, <2>4, <3>2 DEF PeerName, PeerMatch
  <2> QED BY <2>3, <2>4
<1>4. DOMAIN PeerSafetyRules(rules) = 1..2 * Len(Peers)
  BY <1>1
<1>5. PeerSafetyRules(rules) = [i \in 1..2 * Len(Peers) |-> PeerSafetyRules(rules)[i]]
  BY <1>1
<1> QED BY <1>3, <1>4, <1>5

\* A safety rule is acceptable, whatever its name.
LEMMA SafetyRuleValid ==
    ASSUME NEW id, NEW i \in Nat
    PROVE  /\ ValidRule(SafetyRule(id, HttpSource)) /\ ValidRule(SafetyRule(id, HttpDestination))
           /\ ValidRule(SafetyRule(id, PeerMatch(i)))
<1>1. ValidAction(Plain("ignore"))
  BY DEF ValidAction, Plain
<1>2. HttpPort <= HttpPort /\ PeerPort <= PeerPort
  BY PortsAssumption
<1>3. \A m : Ordered(m.sports) /\ Ordered(m.dports) /\ Ordered(m.size) /\ m.protocol = "tcp"
             => ValidRule(SafetyRule(id, m))
  BY <1>1 DEF SafetyRule, ValidRule, Protocols
<1>4. /\ HttpSource.sports = <<HttpPort, HttpPort>> /\ HttpSource.dports = Unset
      /\ HttpSource.size = Unset /\ HttpSource.protocol = "tcp"
  BY DEF HttpSource, Everything
<1>5. /\ HttpDestination.sports = Unset /\ HttpDestination.dports = <<HttpPort, HttpPort>>
      /\ HttpDestination.size = Unset /\ HttpDestination.protocol = "tcp"
  BY DEF HttpDestination, Everything
<1>6. /\ PeerMatch(i).sports \in {Unset, <<PeerPort, PeerPort>>}
      /\ PeerMatch(i).dports \in {Unset, <<PeerPort, PeerPort>>}
      /\ PeerMatch(i).size = Unset /\ PeerMatch(i).protocol = "tcp"
  BY DEF PeerMatch, PeerSource, PeerDestination, Everything
<1>7. Ordered(Unset) /\ Ordered(<<HttpPort, HttpPort>>) /\ Ordered(<<PeerPort, PeerPort>>)
  BY <1>2 DEF Ordered
<1>8. ValidRule(SafetyRule(id, HttpSource)) /\ ValidRule(SafetyRule(id, HttpDestination))
  BY <1>3, <1>4, <1>5, <1>7
<1>9. ValidRule(SafetyRule(id, PeerMatch(i)))
  BY <1>3, <1>6, <1>7
<1> QED BY <1>8, <1>9

\* Two lists of acceptable rules without a common name are acceptable together.
LEMMA ConcatValid ==
    ASSUME NEW S, NEW s \in Seq(S), NEW t \in Seq(S), ValidRules(s), ValidRules(t),
           \A i \in 1..Len(s), j \in 1..Len(t) : s[i].id # t[j].id
    PROVE  s \o t \in Seq(S) /\ ValidRules(s \o t)
<1> DEFINE q == s \o t
           m == Len(s)
           n == Len(t)
<1>1. /\ m \in Nat /\ n \in Nat /\ DOMAIN s = 1..m /\ DOMAIN t = 1..n
      /\ q \in Seq(S) /\ DOMAIN q = 1..(m + n)
  <2>1. q \in Seq(S) /\ Len(q) = m + n
    BY ConcatProperties
  <2> HIDE DEF q
  <2> QED BY <2>1
<1>2. \A i \in 1..(m + n) : q[i] = IF i <= m THEN s[i] ELSE t[i - m]
  BY ConcatProperties
<1> HIDE DEF q, m, n
<1>3. /\ \A i, j \in 1..m : s[i].id = s[j].id => i = j
      /\ \A i, j \in 1..n : t[i].id = t[j].id => i = j
      /\ \A i \in 1..m : ValidRule(s[i])
      /\ \A i \in 1..n : ValidRule(t[i])
      /\ \A i \in 1..m, j \in 1..n : s[i].id # t[j].id
  BY <1>1 DEF ValidRules, UniqueIDs, m, n
<1>4. ASSUME NEW i \in 1..(m + n), NEW j \in 1..(m + n), q[i].id = q[j].id PROVE i = j
  <2>1. CASE i <= m /\ j <= m
    <3>1. i \in 1..m /\ j \in 1..m
      BY <1>1, <2>1
    <3> QED BY <1>2, <1>3, <1>4, <2>1, <3>1
  <2>2. CASE i <= m /\ ~(j <= m)
    <3>1. i \in 1..m /\ j - m \in 1..n
      BY <1>1, <2>2
    <3> QED BY <1>2, <1>3, <1>4, <2>2, <3>1
  <2>3. CASE ~(i <= m) /\ j <= m
    <3>1. j \in 1..m /\ i - m \in 1..n
      BY <1>1, <2>3
    <3> QED BY <1>2, <1>3, <1>4, <2>3, <3>1
  <2>4. CASE ~(i <= m) /\ ~(j <= m)
    <3>1. i - m \in 1..n /\ j - m \in 1..n
      BY <1>1, <2>4
    <3>2. i - m = j - m
      BY <1>2, <1>3, <1>4, <2>4, <3>1
    <3> QED BY <1>1, <3>2
  <2> QED BY <2>1, <2>2, <2>3, <2>4
<1>5. ASSUME NEW i \in 1..(m + n) PROVE ValidRule(q[i])
  <2>1. CASE i <= m
    <3>1. i \in 1..m
      BY <1>1, <2>1
    <3> QED BY <1>2, <1>3, <2>1, <3>1
  <2>2. CASE ~(i <= m)
    <3>1. i - m \in 1..n
      BY <1>1, <2>2
    <3> QED BY <1>2, <1>3, <2>2, <3>1
  <2> QED BY <2>1, <2>2
<1>6. ValidRules(q)
  BY <1>1, <1>4, <1>5 DEF ValidRules, UniqueIDs
<1> QED BY <1>1, <1>6 DEF q

\* What the selector relies on about its safety tier.
IsSafetyTier(s, rules) ==
    /\ s \in Seq({SafetyRule(r.id, r.match) : r \in Range(s)}) /\ ValidRules(s)
    /\ \A i \in 1..Len(s), j \in 1..Len(rules) : s[i].id # rules[j].id
    /\ \A m \in {HttpSource, HttpDestination} : \E i \in 1..Len(s) : s[i].match = m
    /\ \A k \in 1..Len(Peers) :
          /\ \E i \in 1..Len(s) : s[i].match = PeerSource(k)
          /\ \E i \in 1..Len(s) : s[i].match = PeerDestination(k)

LEMMA SafetyTier ==
    ASSUME NEW S, NEW rules \in Seq(S)
    PROVE  IsSafetyTier(SafetyRules(rules), rules)
<1> DEFINE http == HttpSafetyRules(rules)
           all == rules \o http
           peer == PeerSafetyRules(all)
           n == 2 * Len(Peers)
           a == UniqueRuleID("http_source", 0, rules)
           b == UniqueRuleID("http_destination", 0, rules)
           name(i) == UniqueRuleID(PeerName(i), (i + 1) \div 2, all)
           A == {SafetyRule(a, HttpSource), SafetyRule(b, HttpDestination)}
           B == {SafetyRule(name(i), PeerMatch(i)) : i \in 1..n}
<1>1. n \in Nat /\ Len(Peers) \in Nat
  BY PortsAssumption
<1>2. http = <<SafetyRule(a, HttpSource), SafetyRule(b, HttpDestination)>>
  BY HttpIs
<1> HIDE DEF http
<1>3. http \in Seq(A) /\ Len(http) = 2 /\ http[1] = SafetyRule(a, HttpSource)
      /\ http[2] = SafetyRule(b, HttpDestination)
  BY <1>2
<1>4. /\ \A i \in 1..Len(rules) : rules[i].id # a /\ rules[i].id # b
      /\ \E m \in 0..Len(rules) : a = <<"http_source", 0, m>>
      /\ \E m \in 0..Len(rules) : b = <<"http_destination", 0, m>>
  BY UniqueRuleIDIs
<1> HIDE DEF a, b
<1>5. /\ all \in Seq(S \cup A) /\ Len(all) = Len(rules) + 2
      /\ \A i \in 1..(Len(rules) + 2) :
            all[i] = IF i <= Len(rules) THEN rules[i] ELSE http[i - Len(rules)]
  <2> HIDE DEF A
  <2>1. rules \in Seq(S \cup A) /\ http \in Seq(S \cup A)
    BY <1>3
  <2>2. all \in Seq(S \cup A) /\ Len(all) = Len(rules) + Len(http)
        /\ \A i \in 1..(Len(rules) + Len(http)) :
              all[i] = IF i <= Len(rules) THEN rules[i] ELSE http[i - Len(rules)]
    BY <2>1, ConcatProperties
  <2> HIDE DEF all
  <2> QED BY <1>3, <2>2
<1> HIDE DEF all
<1>6. ASSUME NEW i \in 1..n
      PROVE  /\ \A j \in 1..Len(all) : all[j].id # name(i)
             /\ \E m \in 0..Len(all) : name(i) = <<PeerName(i), (i + 1) \div 2, m>>
  <2> DEFINE base == PeerName(i)
             k == (i + 1) \div 2
             T == S \cup A
  <2> HIDE DEF base, k, T
  <2>1. all \in Seq(T)
    BY <1>5 DEF T
  <2>2. /\ \E m \in 0..Len(all) : UniqueRuleID(base, k, all) = <<base, k, m>>
        /\ \A j \in 1..Len(all) : all[j].id # UniqueRuleID(base, k, all)
    BY <2>1, UniqueRuleIDIs
  <2> QED BY <2>2 DEF base, k
<1>7. ASSUME NEW i \in 1..n
      PROVE  name(i) # a /\ name(i) # b /\ \A j \in 1..Len(rules) : rules[j].id # name(i)
  <2>1. Len(rules) \in Nat
    OBVIOUS
  <2>2. /\ Len(rules) + 1 \in 1..Len(all) /\ Len(rules) + 2 \in 1..Len(all)
        /\ all[Len(rules) + 1] = http[1] /\ all[Len(rules) + 2] = http[2]
        /\ \A j \in 1..Len(rules) : j \in 1..Len(all) /\ all[j] = rules[j]
    BY <1>5, <2>1
  <2>3. http[1].id = a /\ http[2].id = b
    BY <1>3 DEF SafetyRule
  <2> HIDE DEF name
  <2> QED BY <1>6, <2>2, <2>3
<1>8. /\ peer \in [1..n -> B]
      /\ \A i \in 1..n : peer[i] = SafetyRule(name(i), PeerMatch(i))
  <2>1. \A i \in 1..n : peer[i] = SafetyRule(name(i), PeerMatch(i))
    BY PeerIs
  <2>2. peer = [i \in 1..n |-> peer[i]]
    BY PeerIs
  <2> HIDE DEF peer, name, n
  <2> QED BY <2>1, <2>2
<1> HIDE DEF peer, name, n
<1>9. peer \in Seq(B) /\ Len(peer) = n
  BY <1>1, <1>8
<1>10. ValidRules(http)
  <2>1. a # b
    BY <1>4
  <2>2. ValidRule(http[1]) /\ ValidRule(http[2])
    <3>1. 0 \in Nat
      OBVIOUS
    <3> QED BY <1>3, <3>1, SafetyRuleValid
  <2>3. DOMAIN http = {1, 2} /\ http[1].id = a /\ http[2].id = b
    BY <1>3 DEF SafetyRule
  <2> QED BY <2>1, <2>2, <2>3 DEF ValidRules, UniqueIDs
<1>11. \A i \in 1..n : peer[i].id = name(i)
  BY <1>8 DEF SafetyRule
<1>12. ValidRules(peer)
  <2>1. ASSUME NEW i \in 1..n, NEW j \in 1..n, peer[i].id = peer[j].id PROVE i = j
    <3>1. name(i) = name(j)
      BY <1>11, <2>1
    <3>2. PeerName(i) = PeerName(j) /\ (i + 1) \div 2 = (j + 1) \div 2
      BY <1>6, <3>1
    <3>3. i % 2 = 1 <=> j % 2 = 1
      BY <3>2 DEF PeerName
    <3> QED BY <1>1, <3>2, <3>3
  <2>2. ASSUME NEW i \in 1..n PROVE ValidRule(peer[i])
    <3>1. i \in Nat
      BY <1>1
    <3> QED BY <1>8, <3>1, SafetyRuleValid
  <2> QED BY <1>8, <2>1, <2>2 DEF ValidRules, UniqueIDs
<1> DEFINE s == http \o peer
<1>13. s = SafetyRules(rules)
  BY DEF SafetyRules, http, peer, all
<1>14. /\ s \in Seq(A \cup B) /\ Len(s) = 2 + n
       /\ \A i \in 1..(2 + n) : s[i] = IF i <= 2 THEN http[i] ELSE peer[i - 2]
  <2> HIDE DEF A, B
  <2>1. http \in Seq(A \cup B) /\ peer \in Seq(A \cup B)
    BY <1>3, <1>9
  <2>2. /\ s \in Seq(A \cup B) /\ Len(s) = Len(http) + Len(peer)
        /\ \A i \in 1..(Len(http) + Len(peer)) :
              s[i] = IF i <= Len(http) THEN http[i] ELSE peer[i - Len(http)]
    BY <2>1, ConcatProperties
  <2> HIDE DEF s
  <2> QED BY <1>3, <1>9, <2>2
<1>15. ValidRules(s)
  <2>1. ASSUME NEW i \in 1..Len(http), NEW j \in 1..Len(peer) PROVE http[i].id # peer[j].id
    <3>1. j \in 1..n /\ (i = 1 \/ i = 2)
      BY <1>3, <1>9
    <3>2. http[1].id = a /\ http[2].id = b
      BY <1>3 DEF SafetyRule
    <3> QED BY <1>7, <1>11, <3>1, <3>2
  <2> DEFINE T == A \cup B
  <2>2. http \in Seq(T) /\ peer \in Seq(T)
    <3> HIDE DEF A, B
    <3> QED BY <1>3, <1>9
  <2> HIDE DEF T
  <2> QED BY <1>10, <1>12, <2>1, <2>2, ConcatValid
<1> HIDE DEF s
<1>16. /\ 1 \in 1..Len(s) /\ 2 \in 1..Len(s) /\ s[1] = http[1] /\ s[2] = http[2]
       /\ \A i \in 1..n : 2 + i \in 1..Len(s) /\ s[2 + i] = peer[i]
  <2>1. ASSUME NEW i \in 1..n PROVE 2 + i \in 1..Len(s) /\ s[2 + i] = peer[i]
    <3>1. 2 + i \in 1..(2 + n) /\ ~(2 + i <= 2) /\ (2 + i) - 2 = i
      BY <1>1
    <3> QED BY <1>14, <3>1
  <2> QED BY <1>1, <1>14, <2>1
<1>17. \A i \in 1..Len(s) : \/ s[i] = http[1] \/ s[i] = http[2]
                            \/ \E j \in 1..n : s[i] = peer[j]
  <2>1. ASSUME NEW i \in 1..Len(s)
        PROVE  s[i] = http[1] \/ s[i] = http[2] \/ \E j \in 1..n : s[i] = peer[j]
    <3>1. CASE i <= 2
      <4>1. i = 1 \/ i = 2
        BY <3>1
      <4> QED BY <1>16, <4>1
    <3>2. CASE ~(i <= 2)
      <4>1. i \in 1..(2 + n) /\ i - 2 \in 1..n
        BY <1>1, <1>14, <3>2
      <4>2. s[i] = peer[i - 2]
        BY <1>14, <3>2, <4>1
      <4> QED BY <4>1, <4>2
    <3> QED BY <3>1, <3>2
  <2> QED BY <2>1
<1>18. \A i \in 1..Len(s) : s[i] = SafetyRule(s[i].id, s[i].match)
  <2>1. \A id, m : SafetyRule(id, m) = SafetyRule(SafetyRule(id, m).id, SafetyRule(id, m).match)
    BY DEF SafetyRule
  <2> QED BY <1>3, <1>8, <1>17, <2>1
<1>19. s \in Seq({SafetyRule(r.id, r.match) : r \in Range(s)})
  <2> DEFINE U == {SafetyRule(r.id, r.match) : r \in Range(s)}
  <2>1. DOMAIN s = 1..Len(s) /\ Len(s) \in Nat
    BY <1>14
  <2>2. \A i \in 1..Len(s) : s[i] \in U
    BY <1>18, <2>1 DEF Range
  <2> HIDE DEF U
  <2>3. s \in Seq(U)
    BY <1>14, <2>1, <2>2
  <2> QED BY <2>3 DEF U
<1>20. \A i \in 1..Len(s), j \in 1..Len(rules) : s[i].id # rules[j].id
  <2>1. http[1].id = a /\ http[2].id = b
    BY <1>3 DEF SafetyRule
  <2> QED BY <1>4, <1>7, <1>11, <1>17, <2>1
<1>21. \A m \in {HttpSource, HttpDestination} : \E i \in 1..Len(s) : s[i].match = m
  <2>1. s[1].match = HttpSource /\ s[2].match = HttpDestination
    BY <1>3, <1>16 DEF SafetyRule
  <2> QED BY <1>16, <2>1
<1>22. ASSUME NEW k \in 1..Len(Peers)
       PROVE  /\ \E i \in 1..Len(s) : s[i].match = PeerSource(k)
              /\ \E i \in 1..Len(s) : s[i].match = PeerDestination(k)
  <2>1. /\ 2 * k - 1 \in 1..n /\ 2 * k \in 1..n
        /\ (2 * k - 1) % 2 = 1 /\ (2 * k) % 2 # 1
        /\ ((2 * k - 1) + 1) \div 2 = k /\ (2 * k + 1) \div 2 = k
    BY <1>1 DEF n
  <2>2. PeerMatch(2 * k - 1) = PeerSource(k) /\ PeerMatch(2 * k) = PeerDestination(k)
    BY <2>1 DEF PeerMatch
  <2>3. peer[2 * k - 1].match = PeerSource(k) /\ peer[2 * k].match = PeerDestination(k)
    <3>1. \A id, m : SafetyRule(id, m).match = m
      BY DEF SafetyRule
    <3>2. \A i \in 1..n : peer[i].match = PeerMatch(i)
      BY <1>8, <3>1
    <3> QED BY <2>1, <2>2, <3>2
  <2> QED BY <1>16, <2>1, <2>3
<1> QED BY <1>13, <1>15, <1>19, <1>20, <1>21, <1>22 DEF IsSafetyTier

\* A tier of the configuration's own rules: acceptable, and its rules are rules of
\* the configuration.
LEMMA TierIs ==
    ASSUME NEW S, NEW rules \in Seq(S), NEW T
    PROVE  /\ Collect(rules, T) \in Seq(S)
           /\ \A i \in 1..Len(Collect(rules, T)) :
                 /\ Collect(rules, T)[i] \in T
                 /\ \E k \in 1..Len(rules) : Collect(rules, T)[i] = rules[k]
           /\ ValidRules(rules) => ValidRules(Collect(rules, T))
<1> DEFINE t == Collect(rules, T)
<1> HIDE DEF t
<1>1. PICK h : TakenFrom(t, rules, T, Len(rules), h)
  BY CollectIs DEF t
<1>2. t \in Seq(S)
  BY CollectIs DEF t
<1>3. /\ Len(t) \in Nat /\ DOMAIN t = 1..Len(t) /\ DOMAIN rules = 1..Len(rules)
      /\ \A i \in 1..Len(t) : h[i] \in 1..Len(rules) /\ t[i] = rules[h[i]] /\ t[i] \in T
  BY <1>1, <1>2 DEF TakenFrom
<1>4. ASSUME ValidRules(rules) PROVE ValidRules(t)
  <2>1. ASSUME NEW i \in 1..Len(t), NEW j \in 1..Len(t), t[i].id = t[j].id PROVE i = j
    <3>1. h[i] = h[j]
      BY <1>3, <1>4, <2>1 DEF ValidRules, UniqueIDs
    <3>2. ~(i < j) /\ ~(j < i)
      BY <1>1, <1>3, <3>1 DEF TakenFrom
    <3> QED BY <1>3, <3>2
  <2>2. \A i \in 1..Len(t) : ValidRule(t[i])
    BY <1>3, <1>4 DEF ValidRules
  <2> QED BY <1>3, <2>1, <2>2 DEF ValidRules, UniqueIDs
<1> QED BY <1>2, <1>3, <1>4 DEF t

\* The tiers of a configuration.
Exact(p) == {r \in Range(p.rules) : r.match.flow # Unset}

LEMMA CompileIs ==
    ASSUME NEW p
    PROVE  /\ Compile(p).safety = SafetyRules(p.rules) /\ Compile(p).default = p.default
           /\ Compile(p).pinned = Collect(p.rules, Exact(p))
           /\ Compile(p).user = Collect(p.rules, Range(p.rules) \ Exact(p))
BY DEF Compile, Exact

\* Every acceptable configuration compiles.
LEMMA Compiles ==
    ASSUME NEW p \in Policies, ValidRules(p.rules), ValidAction(p.default), p.default.channel # 0
    PROVE  NewSelector(Compile(p))
<1> DEFINE rules == p.rules
           S == Range(rules)
           safety == SafetyRules(rules)
           pinned == Collect(rules, Exact(p))
           user == Collect(rules, S \ Exact(p))
           U == {SafetyRule(r.id, r.match) : r \in Range(safety)}
           V == U \cup S
<1>1. rules \in Seq(S)
  BY PoliciesAssumption
<1>2. /\ Compile(p).safety = safety /\ Compile(p).default = p.default
      /\ Compile(p).pinned = pinned /\ Compile(p).user = user
  BY CompileIs
<1>3. IsSafetyTier(safety, rules)
  <2> HIDE DEF S, rules
  <2> QED BY <1>1, SafetyTier
<1> HIDE DEF safety
<1>4. /\ safety \in Seq(U) /\ ValidRules(safety)
      /\ \A i \in 1..Len(safety), j \in 1..Len(rules) : safety[i].id # rules[j].id
  BY <1>3 DEF IsSafetyTier
<1> HIDE DEF U, S
<1>5. ValidRules(rules)
  OBVIOUS
<1> HIDE DEF rules
<1>6. /\ pinned \in Seq(S) /\ ValidRules(pinned)
      /\ \A i \in 1..Len(pinned) : /\ pinned[i] \in Exact(p)
                                   /\ \E k \in 1..Len(rules) : pinned[i] = rules[k]
  BY <1>1, <1>5, TierIs
<1>7. /\ user \in Seq(S) /\ ValidRules(user)
      /\ \A i \in 1..Len(user) : /\ user[i] \in S \ Exact(p)
                                 /\ \E k \in 1..Len(rules) : user[i] = rules[k]
  <2> DEFINE T == S \ Exact(p)
  <2> HIDE DEF T
  <2>1. user = Collect(rules, T)
    BY DEF T
  <2> HIDE DEF user
  <2>2. /\ user \in Seq(S) /\ ValidRules(user)
        /\ \A i \in 1..Len(user) : /\ user[i] \in T
                                   /\ \E k \in 1..Len(rules) : user[i] = rules[k]
    BY <1>1, <1>5, <2>1, TierIs
  <2> QED BY <2>2 DEF T
<1> HIDE DEF pinned, user
<1>8. safety \in Seq(V) /\ pinned \in Seq(V) /\ user \in Seq(V)
  BY <1>4, <1>6, <1>7
<1> HIDE DEF V
<1> DEFINE q == safety \o pinned
<1>9. q \in Seq(V) /\ ValidRules(q)
  <2>1. \A i \in 1..Len(safety), j \in 1..Len(pinned) : safety[i].id # pinned[j].id
    BY <1>4, <1>6
  <2> QED BY <1>4, <1>6, <1>8, <2>1, ConcatValid
<1>10. \A i \in 1..Len(q) : \/ \E j \in 1..Len(safety) : q[i] = safety[j]
                            \/ \E j \in 1..Len(pinned) : q[i] = pinned[j]
  <2>1. /\ Len(q) = Len(safety) + Len(pinned) /\ Len(safety) \in Nat /\ Len(pinned) \in Nat
        /\ \A i \in 1..(Len(safety) + Len(pinned)) :
              q[i] = IF i <= Len(safety) THEN safety[i] ELSE pinned[i - Len(safety)]
    BY <1>8, ConcatProperties
  <2> HIDE DEF q
  <2>2. ASSUME NEW i \in 1..Len(q)
        PROVE  \/ \E j \in 1..Len(safety) : q[i] = safety[j]
               \/ \E j \in 1..Len(pinned) : q[i] = pinned[j]
    <3>1. CASE i <= Len(safety)
      BY <2>1, <3>1
    <3>2. CASE ~(i <= Len(safety))
      <4>1. i - Len(safety) \in 1..Len(pinned) /\ q[i] = pinned[i - Len(safety)]
        BY <2>1, <3>2
      <4> QED BY <4>1
    <3> QED BY <3>1, <3>2
  <2> QED BY <2>2
<1> HIDE DEF q
<1>11. ValidRules(q \o user)
  <2>1. ASSUME NEW i \in 1..Len(q), NEW j \in 1..Len(user) PROVE q[i].id # user[j].id
    <3>1. PICK k \in 1..Len(rules) : user[j] = rules[k]
      BY <1>7
    <3>2. CASE \E l \in 1..Len(safety) : q[i] = safety[l]
      BY <1>4, <3>1, <3>2
    <3>3. CASE \E l \in 1..Len(pinned) : q[i] = pinned[l]
      <4>1. PICK m \in 1..Len(rules) : q[i] = rules[m] /\ q[i] \in Exact(p)
        BY <1>6, <3>3
      <4>2. m # k
        BY <1>7, <3>1, <4>1
      <4>3. DOMAIN rules = 1..Len(rules)
        BY <1>1
      <4> QED BY <1>5, <3>1, <4>1, <4>2, <4>3 DEF ValidRules, UniqueIDs
    <3> QED BY <1>10, <3>2, <3>3
  <2> QED BY <1>7, <1>8, <1>9, <2>1, ConcatValid
<1>12. \A i \in DOMAIN safety : safety[i].action.state = "ignore"
  <2>1. ASSUME NEW i \in DOMAIN safety PROVE safety[i].action.state = "ignore"
    <3>1. safety[i] \in U
      BY <1>4
    <3>2. PICK id, m : safety[i] = SafetyRule(id, m)
      BY <3>1 DEF U
    <3> QED BY <3>2 DEF SafetyRule, Plain
  <2> QED BY <2>1
<1>13. \A i \in DOMAIN pinned : pinned[i].match.flow # Unset
  BY <1>6 DEF Exact
<1> QED BY <1>2, <1>11, <1>12, <1>13 DEF NewSelector, q

\* What firstMatch returns.
LEMMA FirstMatchIs ==
    ASSUME NEW S, NEW rules \in Seq(S), \A r \in S : r # None, NEW e, NEW id
    PROVE  \/ /\ FirstMatch(rules, e, id) = None
              /\ \A i \in 1..Len(rules) : ~(rules[i].enabled /\ Matches(rules[i].match, e, id))
           \/ \E i \in 1..Len(rules) :
                 /\ rules[i].enabled /\ Matches(rules[i].match, e, id)
                 /\ FirstMatch(rules, e, id) = rules[i] /\ rules[i] # None
<1> DEFINE Hit(i) == rules[i].enabled /\ Matches(rules[i].match, e, id)
           hits == {i \in DOMAIN rules : Hit(i)}
<1>1. DOMAIN rules = 1..Len(rules) /\ \A i \in 1..Len(rules) : rules[i] # None
  OBVIOUS
<1>2. FirstMatch(rules, e, id) = IF hits = {} THEN None
                                 ELSE rules[CHOOSE i \in hits : \A j \in hits : i <= j]
  BY DEF FirstMatch
<1> HIDE DEF Hit
<1>3. CASE hits = {}
  <2>1. \A i \in 1..Len(rules) : ~Hit(i)
    BY <1>1, <1>3
  <2> QED BY <1>2, <1>3, <2>1 DEF Hit
<1>4. CASE hits # {}
  <2>1. hits \in SUBSET Nat
    BY <1>1
  <2>2. \E i \in hits : \A j \in hits : i <= j
    <3> HIDE DEF hits
    <3> QED BY <1>4, <2>1, LeastNatural
  <2> DEFINE c == CHOOSE i \in hits : \A j \in hits : i <= j
  <2>3. c \in hits
    <3> HIDE DEF hits
    <3> QED BY <2>2
  <2>4. FirstMatch(rules, e, id) = rules[c]
    BY <1>2, <1>4
  <2> HIDE DEF c
  <2> QED BY <1>1, <2>3, <2>4 DEF Hit
<1> QED BY <1>3, <1>4

\* The predicates of the safety rules.
LEMMA SafetyMatches ==
    ASSUME NEW e, e.protocol = "tcp", e.src \in Ends, e.dst \in Ends, NEW id, NEW k
    PROVE  /\ e.src.port = HttpPort => Matches(HttpSource, e, id)
           /\ e.dst.port = HttpPort => Matches(HttpDestination, e, id)
           /\ e.src = [addr |-> Peers[k], port |-> PeerPort] => Matches(PeerSource(k), e, id)
           /\ e.dst = [addr |-> Peers[k], port |-> PeerPort] => Matches(PeerDestination(k), e, id)
<1>1. HttpPort \in Nat /\ PeerPort \in Nat
  BY PortsAssumption
<1>2. InRange(Unset, e.src.port) /\ InRange(Unset, e.dst.port)
  BY DEF InRange
<1>3. \A n \in Nat : InRange(<<n, n>>, n)
  BY DEF InRange
<1>4. ASSUME e.src.port = HttpPort PROVE Matches(HttpSource, e, id)
  BY <1>1, <1>2, <1>3, <1>4 DEF Matches, HttpSource, Everything
<1>5. ASSUME e.dst.port = HttpPort PROVE Matches(HttpDestination, e, id)
  BY <1>1, <1>2, <1>3, <1>5 DEF Matches, HttpDestination, Everything
<1>6. ASSUME e.src = [addr |-> Peers[k], port |-> PeerPort] PROVE Matches(PeerSource(k), e, id)
  <2>1. e.src.addr = Peers[k] /\ e.src.port = PeerPort
    BY <1>6
  <2> QED BY <1>1, <1>2, <1>3, <2>1 DEF Matches, PeerSource, Everything
<1>7. ASSUME e.dst = [addr |-> Peers[k], port |-> PeerPort] PROVE Matches(PeerDestination(k), e, id)
  <2>1. e.dst.addr = Peers[k] /\ e.dst.port = PeerPort
    BY <1>7
  <2> QED BY <1>1, <1>2, <1>3, <2>1 DEF Matches, PeerDestination, Everything
<1> QED BY <1>4, <1>5, <1>6, <1>7

\* Filling in the channel changes nothing else.
LEMMA SelectionIs ==
    ASSUME NEW s, NEW a, DOMAIN a = DOMAIN Plain("ignore")
    PROVE  /\ Selection(s, a).state = a.state /\ Selection(s, a).mode = a.mode
           /\ Selection(s, a).root = a.root
           /\ Selection(s, a).channel = IF a.channel = 0 THEN s.default.channel ELSE a.channel
<1>1. DOMAIN a = {"state", "channel", "mode", "root"}
  BY DEF Plain
<1> QED BY <1>1 DEF Selection

\* What Evaluate says of a flow that it lets play: no safety rule matches, the
\* overlay allows it, and the action is that of a rule or the default.
LEMMA PlayIs ==
    ASSUME NEW p \in Policies, NEW e, NEW overlay,
           Evaluate(Compile(p), e, overlay).state = "play"
    PROVE  /\ \A i \in 1..Len(SafetyRules(p.rules)) :
                 ~Matches(SafetyRules(p.rules)[i].match, e, FlowID(e))
           /\ FlowID(e) \notin overlay.muted
           /\ overlay.soloed # {} => FlowID(e) \in overlay.soloed
           /\ \/ Evaluate(Compile(p), e, overlay) = Selection(Compile(p), p.default)
              \/ \E k \in 1..Len(p.rules) :
                    /\ p.rules[k].enabled /\ Matches(p.rules[k].match, e, FlowID(e))
                    /\ Evaluate(Compile(p), e, overlay) = Selection(Compile(p), p.rules[k].action)
<1> DEFINE rules == p.rules
           S == Range(rules)
           c == Compile(p)
           id == FlowID(e)
           safety == SafetyRules(rules)
           U == {SafetyRule(r.id, r.match) : r \in Range(safety)}
           pinned == Collect(rules, Exact(p))
           user == Collect(rules, S \ Exact(p))
           own == pinned \o user
           sel == Evaluate(c, e, overlay)
           hit == FirstMatch(safety, e, id)
           rule == FirstMatch(own, e, id)
<1>1. /\ rules \in Seq(S) /\ DOMAIN p.default = DOMAIN Plain("ignore")
      /\ \A r \in S : /\ DOMAIN r = {"id", "enabled", "match", "action"}
                      /\ DOMAIN r.action = DOMAIN Plain("ignore")
  BY PoliciesAssumption
<1>2. c.safety = safety /\ c.default = p.default /\ c.pinned = pinned /\ c.user = user
  BY CompileIs
<1>3. sel = IF hit # None THEN Selection(c, hit.action)
            ELSE IF id \in overlay.muted THEN Selection(c, Plain("ignore"))
            ELSE IF overlay.soloed # {} /\ id \notin overlay.soloed
                 THEN Selection(c, Plain("monitor"))
            ELSE IF rule # None THEN Selection(c, rule.action)
            ELSE Selection(c, c.default)
  <2> HIDE DEF c, pinned, user, safety
  <2> QED BY <1>2 DEF Evaluate
<1>4. sel.state = "play"
  OBVIOUS
<1>5. safety \in Seq(U)
  <2>1. IsSafetyTier(safety, rules)
    <3> HIDE DEF S, rules
    <3> QED BY <1>1, SafetyTier
  <2> QED BY <2>1 DEF IsSafetyTier
<1>6. \A r \in U : r # None /\ r.enabled /\ r.action = Plain("ignore")
  <2>1. ASSUME NEW r \in U PROVE r # None /\ r.enabled /\ r.action = Plain("ignore")
    <3>1. PICK i, m : r = SafetyRule(i, m)
      BY <2>1
    <3>2. "id" \in DOMAIN r /\ "id" \notin DOMAIN None
      BY <3>1 DEF SafetyRule, None
    <3> QED BY <3>1, <3>2 DEF SafetyRule
  <2> QED BY <2>1
<1>7. Selection(c, Plain("ignore")).state # "play" /\ Selection(c, Plain("monitor")).state # "play"
  <2>1. DOMAIN Plain("monitor") = DOMAIN Plain("ignore")
    BY DEF Plain
  <2>2. Plain("ignore").state = "ignore" /\ Plain("monitor").state = "monitor"
    BY DEF Plain
  <2> HIDE DEF c
  <2> QED BY <2>1, <2>2, SelectionIs
<1> HIDE DEF c, safety, U, pinned, user, id, sel
<1>8. hit = None /\ \A i \in 1..Len(safety) : ~Matches(safety[i].match, e, id)
  <2>1. \/ /\ hit = None
           /\ \A i \in 1..Len(safety) : ~(safety[i].enabled /\ Matches(safety[i].match, e, id))
        \/ \E i \in 1..Len(safety) : hit = safety[i] /\ safety[i] # None
    BY <1>5, <1>6, FirstMatchIs
  <2>2. \A i \in 1..Len(safety) : safety[i] \in U
    BY <1>5
  <2> HIDE DEF hit
  <2>3. hit = None
    BY <1>3, <1>4, <1>6, <1>7, <2>1, <2>2
  <2> QED BY <1>6, <2>1, <2>2, <2>3
<1> HIDE DEF hit, rule
<1>9. id \notin overlay.muted /\ (overlay.soloed # {} => id \in overlay.soloed)
  BY <1>3, <1>4, <1>7, <1>8
<1>10. sel = IF rule # None THEN Selection(c, rule.action) ELSE Selection(c, p.default)
  BY <1>2, <1>3, <1>8, <1>9
<1> HIDE DEF S, rules
<1>11. \A r \in S : r # None
  <2>1. "id" \notin DOMAIN None
    BY DEF None
  <2> QED BY <1>1, <2>1
<1>12. pinned \in Seq(S) /\ \A i \in 1..Len(pinned) : \E k \in 1..Len(rules) : pinned[i] = rules[k]
  BY <1>1, TierIs DEF pinned
<1>13. user \in Seq(S) /\ \A i \in 1..Len(user) : \E k \in 1..Len(rules) : user[i] = rules[k]
  <2> DEFINE T == S \ Exact(p)
  <2> HIDE DEF T
  <2>1. user = Collect(rules, T)
    BY DEF T, user
  <2> QED BY <1>1, <2>1, TierIs
<1>14. /\ own \in Seq(S) /\ Len(own) = Len(pinned) + Len(user)
       /\ Len(pinned) \in Nat /\ Len(user) \in Nat
       /\ \A i \in 1..(Len(pinned) + Len(user)) :
             own[i] = IF i <= Len(pinned) THEN pinned[i] ELSE user[i - Len(pinned)]
  BY <1>12, <1>13, ConcatProperties
<1> HIDE DEF own
<1>15. \A i \in 1..Len(own) : \E k \in 1..Len(rules) : own[i] = rules[k]
  <2>1. ASSUME NEW i \in 1..Len(own) PROVE \E k \in 1..Len(rules) : own[i] = rules[k]
    <3>1. CASE i <= Len(pinned)
      BY <1>12, <1>14, <3>1
    <3>2. CASE ~(i <= Len(pinned))
      <4>1. i - Len(pinned) \in 1..Len(user) /\ own[i] = user[i - Len(pinned)]
        BY <1>14, <3>2
      <4> QED BY <1>13, <4>1
    <3> QED BY <3>1, <3>2
  <2> QED BY <2>1
<1>16. \/ rule = None
       \/ \E i \in 1..Len(own) : /\ own[i].enabled /\ Matches(own[i].match, e, id)
                                 /\ rule = own[i] /\ own[i] # None
  BY <1>11, <1>14, FirstMatchIs DEF rule
<1>17. \/ sel = Selection(c, p.default)
       \/ \E k \in 1..Len(rules) : /\ rules[k].enabled /\ Matches(rules[k].match, e, id)
                                   /\ sel = Selection(c, rules[k].action)
  <2>1. CASE rule = None
    BY <1>10, <2>1
  <2>2. CASE rule # None
    <3>1. PICK i \in 1..Len(own) : /\ own[i].enabled /\ Matches(own[i].match, e, id)
                                   /\ rule = own[i]
      BY <1>16, <2>2
    <3>2. PICK k \in 1..Len(rules) : own[i] = rules[k]
      BY <1>15
    <3>3. sel = Selection(c, rules[k].action)
      BY <1>10, <2>2, <3>1, <3>2
    <3> QED BY <3>1, <3>2, <3>3
  <2> QED BY <2>1, <2>2
<1> QED BY <1>8, <1>9, <1>17 DEF safety, id, c, sel, rules

LEMMA InvNoFeedback == Inv => NoFeedback
<1> SUFFICES ASSUME Inv PROVE NoFeedback
  OBVIOUS
<1>1. SafetyCompiles
  BY Compiles DEF SafetyCompiles, Published, Publishable
<1>2. ASSUME pc = "enqueue" PROVE HeardIsAllowed
  <2>1. event \in Events
    BY <1>2 DEF Inv, HandInv
  <2>2. PICK p \in Policies, overlay \in Overlays :
            IsNoteOf(note, event, p, overlay, note.note.id[2], note.gap)
    BY <1>2 DEF Inv, HandInv, NoteInv
  <2> DEFINE sel == Evaluate(Compile(p), event, overlay)
             s == SafetyRules(p.rules)
             id == FlowID(event)
  <2>3. sel.state = "play" /\ note.overlay = overlay /\ note.policy = p
    BY <2>2 DEF IsNoteOf
  <2>4. /\ \A i \in 1..Len(s) : ~Matches(s[i].match, event, id)
        /\ id \notin overlay.muted
        /\ overlay.soloed # {} => id \in overlay.soloed
        /\ \/ sel = Selection(Compile(p), p.default)
           \/ \E k \in 1..Len(p.rules) :
                 /\ p.rules[k].enabled /\ Matches(p.rules[k].match, event, id)
                 /\ sel = Selection(Compile(p), p.rules[k].action)
    BY <2>3, PlayIs
  <2>5. /\ p.rules \in Seq(Range(p.rules)) /\ DOMAIN p.default = DOMAIN Plain("ignore")
        /\ \A r \in Range(p.rules) : DOMAIN r.action = DOMAIN Plain("ignore")
    BY PoliciesAssumption
  <2>6. DOMAIN p.rules = 1..Len(p.rules) /\ \A k \in 1..Len(p.rules) : p.rules[k] \in Range(p.rules)
    BY <2>5
  <2>7. IsSafetyTier(s, p.rules)
    BY <2>5, SafetyTier
  <2> HIDE DEF s, id, sel
  <2>8. ~Matches(HttpSource, event, id) /\ ~Matches(HttpDestination, event, id)
    BY <2>4, <2>7 DEF IsSafetyTier
  <2>9. \A k \in 1..Len(Peers) : /\ ~Matches(PeerSource(k), event, id)
                                 /\ ~Matches(PeerDestination(k), event, id)
    BY <2>4, <2>7 DEF IsSafetyTier
  <2>10. ASSUME event.protocol = "tcp"
         PROVE  /\ HttpPort \notin {event.src.port, event.dst.port}
                /\ \A end \in {event.src, event.dst}, k \in DOMAIN Peers :
                      end # [addr |-> Peers[k], port |-> PeerPort]
    <3>1. event.src \in Ends /\ event.dst \in Ends
      BY <2>1, EventFacts
    <3>2. DOMAIN Peers = 1..Len(Peers)
      BY PortsAssumption
    <3>3. event.src.port # HttpPort /\ event.dst.port # HttpPort
      BY <2>8, <2>10, <3>1, SafetyMatches
    <3>4. \A k \in 1..Len(Peers) : /\ event.src # [addr |-> Peers[k], port |-> PeerPort]
                                   /\ event.dst # [addr |-> Peers[k], port |-> PeerPort]
      BY <2>9, <2>10, <3>1, SafetyMatches
    <3> QED BY <3>2, <3>3, <3>4
  <2>11. \/ p.default.state = "play"
         \/ \E k \in DOMAIN p.rules :
               /\ p.rules[k].enabled /\ p.rules[k].action.state = "play"
               /\ Matches(p.rules[k].match, event, id)
    <3>1. CASE sel = Selection(Compile(p), p.default)
      <4>1. p.default.state = "play"
        BY <2>3, <2>5, <3>1, SelectionIs
      <4> QED BY <4>1
    <3>2. CASE \E k \in 1..Len(p.rules) :
                 /\ p.rules[k].enabled /\ Matches(p.rules[k].match, event, id)
                 /\ sel = Selection(Compile(p), p.rules[k].action)
      <4>1. PICK k \in 1..Len(p.rules) :
                 /\ p.rules[k].enabled /\ Matches(p.rules[k].match, event, id)
                 /\ sel = Selection(Compile(p), p.rules[k].action)
        BY <3>2
      <4>2. p.rules[k].action.state = "play"
        BY <2>3, <2>5, <2>6, <4>1, SelectionIs
      <4> QED BY <2>6, <4>1, <4>2
    <3> QED BY <2>4, <3>1, <3>2
  <2> QED BY <2>3, <2>4, <2>10, <2>11 DEF HeardIsAllowed, id
<1>3. HeardIsAllowed
  BY <1>2 DEF HeardIsAllowed
<1> QED BY <1>1, <1>3 DEF NoFeedback

\* For every set of configurations, ports and peer addresses: the safety rules
\* never keep an acceptable configuration from being compiled, and no packet of
\* the application's own HTTP or peer connections, no muted flow and no flow
\* outside the solo set is ever heard, nor one that no enabled rule plays.
THEOREM NoFeedbackAlways == Spec => []NoFeedback
BY InvAlways, InvNoFeedback, PTL

-----------------------------------------------------------------------------
(***************************************************************************)
(* The mapper                                                              *)
(***************************************************************************)

\* Remainders.
LEMMA ModRange ==
    ASSUME NEW x \in Nat, NEW n \in Nat \ {0}
    PROVE  x % n \in 0..(n - 1)
OBVIOUS

LEMMA ModShift ==
    ASSUME NEW x \in Nat, NEW n \in Nat, NEW h \in 1..(n - 1)
    PROVE  (x + h) % n # x % n
<1> DEFINE a == x \div n
           b == (x + h) \div n
<1>1. a \in Int /\ b \in Int /\ x % n \in Int
  OBVIOUS
<1>2. x = n * a + (x % n) /\ x + h = n * b + ((x + h) % n)
  OBVIOUS
<1> SUFFICES ASSUME (x + h) % n = x % n PROVE FALSE
  OBVIOUS
<1> HIDE DEF a, b
<1>3. h = n * b - n * a
  BY <1>1, <1>2
<1>4. n * b - n * a = n * (b - a)
  BY <1>1
<1> DEFINE d == b - a
<1>5. d \in Int /\ h = n * d
  BY <1>1, <1>3, <1>4
<1> HIDE DEF d
<1>6. CASE d <= 0
  <2>1. n * d <= 0
    BY <1>5, <1>6
  <2> QED BY <1>5, <2>1
<1>7. CASE d >= 1
  <2>1. n * d >= n
    BY <1>5, <1>7
  <2> QED BY <1>5, <2>1
<1> QED BY <1>5, <1>6, <1>7

\* The notes of a scale ascend, lie in the configured range and belong to it.
LEMMA ScaleNotesIs ==
    ASSUME NEW mode \in 0..6, NEW root \in 0..11
    PROVE  /\ ScaleNotes(mode, root) \in Seq(MinimumNote..MaximumNote)
           /\ \A i, j \in 1..Len(ScaleNotes(mode, root)) :
                 i < j => ScaleNotes(mode, root)[i] < ScaleNotes(mode, root)[j]
           /\ \A i \in 1..Len(ScaleNotes(mode, root)) :
                 (ScaleNotes(mode, root)[i] - root) % 12 \in ModeIntervals[mode + 1]
<1> DEFINE N == MaximumNote - MinimumNote + 1
           S == MinimumNote..MaximumNote
           s == [i \in 1..N |-> MinimumNote + i - 1]
           T == {n \in 0..127 : (n - root) % 12 \in ModeIntervals[mode + 1]}
           t == ScaleNotes(mode, root)
<1>1. MinimumNote \in Nat /\ MaximumNote \in Nat /\ N \in Nat
  BY ConfigAssumption
<1>2. \A i \in 1..N : s[i] \in S /\ s[i] = MinimumNote + i - 1
  BY <1>1
<1>3. s \in Seq(S) /\ Len(s) = N
  BY <1>1, <1>2
<1>4. t = Collect(s, T)
  BY DEF ScaleNotes
<1>5. \A n \in T : (n - root) % 12 \in ModeIntervals[mode + 1]
  OBVIOUS
<1> HIDE DEF s, S, T, N, t
<1>6. t \in Seq(S)
  BY <1>3, <1>4, CollectIs
<1>7. PICK h : TakenFrom(t, s, T, N, h)
  BY <1>3, <1>4, CollectIs
<1>8. \A i \in 1..Len(t) : h[i] \in 1..N /\ t[i] = s[h[i]] /\ t[i] \in T
  BY <1>7 DEF TakenFrom
<1>9. ASSUME NEW i \in 1..Len(t), NEW j \in 1..Len(t), i < j PROVE t[i] < t[j]
  <2>1. h[i] < h[j]
    BY <1>7, <1>9 DEF TakenFrom
  <2>2. t[i] = MinimumNote + h[i] - 1 /\ t[j] = MinimumNote + h[j] - 1
        /\ h[i] \in Nat /\ h[j] \in Nat
    <3>1. h[i] \in 1..N /\ h[j] \in 1..N /\ t[i] = s[h[i]] /\ t[j] = s[h[j]]
      BY <1>8
    <3>2. s[h[i]] = MinimumNote + h[i] - 1 /\ s[h[j]] = MinimumNote + h[j] - 1
      BY <1>2, <3>1
    <3> QED BY <3>1, <3>2
  <2> QED BY <1>1, <2>1, <2>2
<1> QED BY <1>5, <1>6, <1>8, <1>9 DEF t, S

\* A flow that plays has a channel and a scale.
LEMMA PlayedIs ==
    ASSUME NEW p \in Policies, Publishable(p), NEW e \in Events, NEW overlay,
           Evaluate(Compile(p), e, overlay).state = "play"
    PROVE  LET sel == Evaluate(Compile(p), e, overlay)
           IN  sel.channel \in 1..16 /\ Scale(e, sel).mode \in 0..6 /\ Scale(e, sel).root \in 0..11
<1> DEFINE sel == Evaluate(Compile(p), e, overlay)
           c == Compile(p)
<1>1. /\ p.rules \in Seq(Range(p.rules)) /\ DOMAIN p.default = DOMAIN Plain("ignore")
      /\ \A r \in Range(p.rules) : DOMAIN r.action = DOMAIN Plain("ignore")
  BY PoliciesAssumption
<1>2. DOMAIN p.rules = 1..Len(p.rules) /\ \A k \in 1..Len(p.rules) : p.rules[k] \in Range(p.rules)
  BY <1>1
<1>3. \/ sel = Selection(c, p.default)
      \/ \E k \in 1..Len(p.rules) : sel = Selection(c, p.rules[k].action)
  BY PlayIs
<1>4. c.default = p.default
  BY CompileIs
<1>5. ValidRules(p.rules) /\ NewSelector(c)
  BY DEF Publishable
<1> HIDE DEF sel, c
<1>6. ValidAction(p.default) /\ p.default.channel # 0
  BY <1>4, <1>5 DEF NewSelector
<1>7. PICK a : sel = Selection(c, a) /\ ValidAction(a) /\ DOMAIN a = DOMAIN Plain("ignore")
  <2>1. CASE sel = Selection(c, p.default)
    BY <1>1, <1>6, <2>1
  <2>2. CASE \E k \in 1..Len(p.rules) : sel = Selection(c, p.rules[k].action)
    <3>1. PICK k \in 1..Len(p.rules) : sel = Selection(c, p.rules[k].action)
      BY <2>2
    <3>2. ValidAction(p.rules[k].action)
      BY <1>2, <1>5 DEF ValidRules, ValidRule
    <3> QED BY <1>1, <1>2, <3>1, <3>2
  <2> QED BY <1>3, <2>1, <2>2
<1>8. /\ sel.mode = a.mode /\ sel.root = a.root
      /\ sel.channel = IF a.channel = 0 THEN p.default.channel ELSE a.channel
  BY <1>4, <1>7, SelectionIs
<1>9. sel.channel \in 1..16
  BY <1>6, <1>7, <1>8 DEF ValidAction
<1>10. Scale(e, sel).mode \in 0..6 /\ Scale(e, sel).root \in 0..11
  <2>1. CASE sel.mode = Unset
    <3>1. FlowID(e) \in Int
      BY EventFacts, FlowIDType
    <3>2. (FlowID(e) \div 8) % 7 \in 0..6 /\ (FlowID(e) \div 8) % 12 \in 0..11
      BY <3>1
    <3> QED BY <2>1, <3>2 DEF Scale, Identity
  <2>2. CASE sel.mode # Unset
    BY <1>7, <1>8, <2>2 DEF Scale, ValidAction
  <2> QED BY <2>1, <2>2
<1> QED BY <1>9, <1>10 DEF sel

\* The two directions of a conversation.
LEMMA MirrorIs ==
    ASSUME NEW e \in Events, NEW m, m = [e EXCEPT !.src = e.dst, !.dst = e.src]
    PROVE  /\ m.src = e.dst /\ m.dst = e.src /\ m.protocol = e.protocol
           /\ m.length = e.length /\ m.flags = e.flags
           /\ FlowID(m) = FlowID(e)
           /\ e.src # e.dst => (AToB(m) <=> ~AToB(e))
<1>1. e = [at |-> e.at, src |-> e.src, dst |-> e.dst, protocol |-> e.protocol,
           length |-> e.length, captured |-> e.captured, payload |-> e.payload,
           flags |-> e.flags]
      /\ e.src \in Ends /\ e.dst \in Ends
  BY EventFacts
<1>2. DOMAIN e = {"at", "src", "dst", "protocol", "length", "captured", "payload", "flags"}
  BY <1>1
<1>3. m.src = e.dst /\ m.dst = e.src /\ m.protocol = e.protocol
      /\ m.length = e.length /\ m.flags = e.flags
  BY <1>2
<1>4. \A x, y \in Ends : /\ EndpointLeq(x, y) \/ EndpointLeq(y, x)
                         /\ EndpointLeq(x, y) /\ EndpointLeq(y, x) => x = y
  <2>1. ASSUME NEW x \in Ends, NEW y \in Ends
        PROVE  /\ EndpointLeq(x, y) \/ EndpointLeq(y, x)
               /\ EndpointLeq(x, y) /\ EndpointLeq(y, x) => x = y
    <3>1. x.addr \in Nat /\ x.port \in Nat /\ y.addr \in Nat /\ y.port \in Nat
      BY DEF Ends
    <3>2. x.addr = y.addr /\ x.port = y.port => x = y
      BY DEF Ends
    <3> QED BY <3>1, <3>2 DEF EndpointLeq
  <2> QED BY <2>1
<1>5. e.src # e.dst => (AToB(m) <=> ~AToB(e))
  BY <1>1, <1>3, <1>4 DEF AToB
<1>6. Key(m) = Key(e)
  <2>1. CASE e.src = e.dst
    BY <1>3, <2>1 DEF Key
  <2>2. CASE e.src # e.dst
    BY <1>3, <1>5, <2>2 DEF Key
  <2> QED BY <2>1, <2>2
<1>7. FlowID(m) = FlowID(e)
  BY <1>6 DEF FlowID
<1> QED BY <1>3, <1>5, <1>7

\* Where Pitch looks among the candidates.
LEMMA PitchIs ==
    ASSUME NEW e, e.length \in Nat, NEW S, NEW notes \in Seq(S), Len(notes) # 0
    PROVE  LET base == e.length + ProtocolOffset(e.protocol) + FlagOffset(e.flags)
               shift == IF AToB(e) THEN 0 ELSE (Len(notes) + 1) \div 2
           IN  /\ base \in Nat /\ shift \in Nat
               /\ 1 + ((base + shift) % Len(notes)) \in 1..Len(notes)
               /\ Pitch(e, notes) = notes[1 + ((base + shift) % Len(notes))]
<1> DEFINE base == e.length + ProtocolOffset(e.protocol) + FlagOffset(e.flags)
           shift == IF AToB(e) THEN 0 ELSE (Len(notes) + 1) \div 2
<1>1. ProtocolOffset(e.protocol) \in Nat
  BY DEF ProtocolOffset
<1>2. FlagOffset(e.flags) \in Nat
  BY DEF FlagOffset
<1>3. base \in Nat
  BY <1>1, <1>2
<1>4. Len(notes) \in Nat \ {0}
  OBVIOUS
<1>5. shift \in Nat
  BY <1>4
<1>6. Pitch(e, notes) = notes[1 + ((base + shift) % Len(notes))]
  BY DEF Pitch
<1> HIDE DEF base, shift
<1>7. base + shift \in Nat
  BY <1>3, <1>5
<1>8. (base + shift) % Len(notes) \in 0..(Len(notes) - 1)
  BY <1>4, <1>7, ModRange
<1>9. 1 + ((base + shift) % Len(notes)) \in 1..Len(notes)
  BY <1>4, <1>8
<1> QED BY <1>3, <1>5, <1>6, <1>9 DEF base, shift

LEMMA InvMapping == Inv => MappingSound
<1> SUFFICES ASSUME Inv, pc = "enqueue" PROVE MappingSound
  BY DEF MappingSound, NoteSound, DirectionsDiffer, GapWithinTTL
<1>1. event \in Events
  BY DEF Inv, HandInv
<1> DEFINE sequence == note.note.id[2]
           gap == note.gap
<1>2. PICK p \in Policies, overlay \in Overlays :
          IsNoteOf(note, event, p, overlay, sequence, gap)
  BY DEF Inv, HandInv, NoteInv
<1> HIDE DEF sequence, gap
<1> DEFINE sel == Evaluate(Compile(p), event, overlay)
           mode == Scale(event, sel).mode
           root == Scale(event, sel).root
           notes == ScaleNotes(mode, root)
           n == note.note
<1>3. /\ Publishable(p) /\ sel.state = "play" /\ notes # <<>>
      /\ gap \in Nat /\ gap < TTL * Tick /\ note.gap = gap
      /\ n = Map(event, sel, sequence, gap)
  BY <1>2 DEF IsNoteOf
<1>4. sel.channel \in 1..16 /\ mode \in 0..6 /\ root \in 0..11
  BY <1>1, <1>3, PlayedIs
<1>5. /\ n.mode = mode /\ n.root = root /\ n.pitch = Pitch(event, notes)
      /\ n.velocity = PacketVelocity(event.length, event.flags)
      /\ n.duration = QuantizedDuration(gap) /\ n.channel = sel.channel
  <2> HIDE DEF sel, n
  <2> QED BY <1>3 DEF Map
<1> HIDE DEF sel, mode, root
<1>6. /\ notes \in Seq(MinimumNote..MaximumNote)
      /\ \A i, j \in 1..Len(notes) : i < j => notes[i] < notes[j]
      /\ \A i \in 1..Len(notes) : (notes[i] - root) % 12 \in ModeIntervals[mode + 1]
  BY <1>4, ScaleNotesIs
<1>7. notes = ScaleNotes(n.mode, n.root)
  BY <1>5
<1> HIDE DEF notes, n
<1>8. Len(notes) \in Nat \ {0} /\ event.length \in Nat
  BY <1>1, <1>3, <1>6, EventFacts
<1>9. NoteSound
  <2>1. \E i \in 1..Len(notes) : n.pitch = notes[i]
    BY <1>5, <1>6, <1>8, PitchIs
  <2>2. n.pitch \in MinimumNote..MaximumNote /\ (n.pitch - root) % 12 \in ModeIntervals[mode + 1]
    <3>1. PICK i \in 1..Len(notes) : n.pitch = notes[i]
      BY <2>1
    <3>2. notes[i] \in MinimumNote..MaximumNote
      BY <1>6, ElementOfSeq, Zenon
    <3> QED BY <1>6, <3>1, <3>2
  <2>3. n.pitch \in 0..127
    BY <2>2, ConfigAssumption
  <2> DEFINE k == (n.pitch - root) % 12
             octave == (n.pitch - root) \div 12
  <2>4. n.pitch = root + k + 12 * octave /\ octave \in -1..10
    <3> DEFINE d == n.pitch - root
    <3>1. d \in -11..127
      BY <1>4, <2>3
    <3>2. n.pitch = root + d
      BY <1>4, <2>3
    <3> HIDE DEF d
    <3>3. d = (d % 12) + 12 * (d \div 12) /\ d % 12 \in 0..11 /\ d \div 12 \in -1..10
      BY <3>1
    <3>4. n.pitch = root + (d % 12) + 12 * (d \div 12)
      BY <1>4, <3>2, <3>3
    <3> QED BY <3>3, <3>4 DEF d
  <2>5. \E x \in ModeIntervals[n.mode + 1], y \in -1..10 : n.pitch = n.root + x + 12 * y
    <3>1. k \in ModeIntervals[n.mode + 1] /\ n.root = root
      BY <1>5, <2>2
    <3> HIDE DEF k, octave
    <3> QED BY <2>4, <3>1
  <2>6. n.velocity \in 1..127
    <3>1. Loudness[event.length] \in Nat
      BY <1>1, EventFacts
    <3> QED BY <1>5, <3>1 DEF PacketVelocity, AtMost
  <2>7. n.duration \in MinimumDuration..MaximumDuration
    <3>1. MinimumDuration \in Nat /\ MaximumDuration \in Nat /\ MinimumDuration <= MaximumDuration
      BY ConfigAssumption
    <3>2. ((2 * gap + 25) \div 50) * 25 \in Int
      BY <1>3
    <3> QED BY <1>5, <3>1, <3>2 DEF QuantizedDuration, AtMost, AtLeast
  <2> QED BY <1>4, <1>5, <2>2, <2>5, <2>6, <2>7 DEF NoteSound, n
<1>10. DirectionsDiffer
  <2> DEFINE m == [event EXCEPT !.src = event.dst, !.dst = event.src]
  <2>1. /\ m.src = event.dst /\ m.dst = event.src /\ m.protocol = event.protocol
        /\ m.length = event.length /\ m.flags = event.flags
        /\ FlowID(m) = FlowID(event)
        /\ event.src # event.dst => (AToB(m) <=> ~AToB(event))
    BY <1>1, MirrorIs
  <2> HIDE DEF m
  <2>2. ASSUME Len(notes) > 1, event.src # event.dst PROVE Pitch(m, notes) # n.pitch
    <3> DEFINE l == Len(notes)
               base == event.length + ProtocolOffset(event.protocol) + FlagOffset(event.flags)
               h == (l + 1) \div 2
               se == IF AToB(event) THEN 0 ELSE h
               sm == IF AToB(m) THEN 0 ELSE h
    <3>1. /\ base \in Nat
          /\ 1 + ((base + se) % l) \in 1..l
          /\ Pitch(event, notes) = notes[1 + ((base + se) % l)]
      BY <1>6, <1>8, PitchIs
    <3>2. /\ 1 + ((base + sm) % l) \in 1..l
          /\ Pitch(m, notes) = notes[1 + ((base + sm) % l)]
      <4>1. m.length \in Nat
        BY <1>8, <2>1
      <4> QED BY <1>6, <1>8, <2>1, <4>1, PitchIs
    <3>3. h \in 1..(l - 1) /\ l \in Nat
      BY <1>8, <2>2
    <3>4. (se = 0 /\ sm = h) \/ (se = h /\ sm = 0)
      <4>1. AToB(m) <=> ~AToB(event)
        BY <2>1, <2>2
      <4> HIDE DEF h
      <4> QED BY <4>1
    <3> HIDE DEF base, h, se, sm
    <3>5. (base + h) % l # (base + 0) % l
      <4>1. base + 0 = base
        BY <3>1
      <4>2. (base + h) % l # base % l
        <5> HIDE DEF l
        <5> QED BY <3>1, <3>3, ModShift
      <4> QED BY <4>1, <4>2
    <3>6. (base + se) % l # (base + sm) % l
      BY <3>4, <3>5
    <3> DEFINE i == 1 + ((base + se) % l)
               j == 1 + ((base + sm) % l)
    <3>7. i \in 1..l /\ j \in 1..l /\ i # j
      <4>1. i \in 1..l /\ j \in 1..l
        BY <3>1, <3>2
      <4>2. (base + se) % l = i - 1 /\ (base + sm) % l = j - 1
        <5>1. base + se \in Nat /\ base + sm \in Nat /\ l \in Nat \ {0}
          BY <1>8, <3>1, <3>3, <3>4
        <5>2. (base + se) % l \in 0..(l - 1) /\ (base + sm) % l \in 0..(l - 1)
          <6> DEFINE x == base + se
                     y == base + sm
          <6> HIDE DEF x, y, l
          <6>1. x % l \in 0..(l - 1) /\ y % l \in 0..(l - 1)
            BY <5>1, ModRange DEF x, y
          <6> QED BY <6>1 DEF x, y
        <5> QED BY <5>2
      <4> HIDE DEF i, j
      <4> QED BY <3>6, <4>1, <4>2
    <3>8. Pitch(event, notes) = notes[i] /\ Pitch(m, notes) = notes[j]
      BY <3>1, <3>2
    <3> HIDE DEF i, j
    <3>9. notes[i] # notes[j]
      <4>1. i < j \/ j < i
        BY <3>7
      <4>2. notes[i] \in Int /\ notes[j] \in Int
        BY <1>6, <3>7, ConfigAssumption
      <4> QED BY <1>6, <3>7, <4>1, <4>2
    <3> QED BY <1>5, <3>8, <3>9
  <2> QED BY <1>7, <2>1, <2>2 DEF DirectionsDiffer, m, n
<1>11. GapWithinTTL
  BY <1>3 DEF GapWithinTTL
<1> QED BY <1>9, <1>10, <1>11 DEF MappingSound

\* For every configuration, note range and stream of packets: a mapped note
\* passes NoteEvent.Validate and belongs to its scale, the two directions of a
\* conversation share one identity and never one pitch where the scale has two
\* notes, and the pause behind a duration is shorter than the TTL.
THEOREM MappingSoundAlways == Spec => []MappingSound
BY InvAlways, InvMapping, PTL

=============================================================================
