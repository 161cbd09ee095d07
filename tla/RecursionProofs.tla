-------------------------- MODULE RecursionProofs ---------------------------
(***************************************************************************)
(* What proofs about recursive functions need: induction over the natural  *)
(* numbers, stated for sets, and the existence of a function defined by    *)
(* its first value and its steps.                                          *)
(***************************************************************************)
EXTENDS Naturals, WellFoundedInduction, TLAPS

\* The order of the natural numbers.
Less == {p \in Nat \X Nat : p[1] < p[2]}

\* A set of numbers has a smallest one.
LEMMA SmallestOf == ASSUME NEW S \in SUBSET Nat, S # {}
                    PROVE  \E n \in S : \A m \in S : n <= m
<1>1. IsWellFoundedOn(Less, Nat)
  <2>1. IsWellFoundedOn({ss \in Nat \X Nat : ss[1] < ss[2]}, Nat)
    BY NatLessThanWellFounded, Zenon DEF OpToRel
  <2> QED BY <2>1 DEF Less
<1>2. PICK n \in S : \A m \in S : ~ (<<m, n>> \in Less)
  BY <1>1, WFMin
<1>3. ASSUME NEW m \in S PROVE n <= m
  <2>1. m \in Nat /\ n \in Nat
    OBVIOUS
  <2>2. m < n => <<m, n>> \in Less
    BY <2>1 DEF Less
  <2> QED BY <1>2, <2>1, <2>2
<1> QED BY <1>3

\* What holds of 0, and of n + 1 when it holds of n, holds of every number.
LEMMA Induction ==
    ASSUME NEW P \in SUBSET Nat, 0 \in P, \A n \in P : n + 1 \in P
    PROVE  P = Nat
<1>1. SUFFICES ASSUME Nat \ P # {} PROVE FALSE
  OBVIOUS
<1>2. PICK n \in Nat \ P : \A m \in Nat \ P : n <= m
  BY <1>1, SmallestOf
<1>3. n - 1 \in Nat /\ n - 1 \notin Nat \ P
  BY <1>2
<1> QED BY <1>2, <1>3

\* A start and a step define a function on the natural numbers.
LEMMA Recursion ==
    ASSUME NEW S, NEW a \in S, NEW G \in [Nat -> [S -> S]]
    PROVE  \E f \in [Nat -> S] : f[0] = a /\ \A n \in Nat \ {0} : f[n] = G[n][f[n - 1]]
<1> DEFINE Begins(f, n) == /\ f \in [0..n -> S]
                           /\ f[0] = a
                           /\ \A k \in Nat : k < n => f[k + 1] = G[k + 1][f[k]]
<1>1. ASSUME NEW n \in Nat, NEW m \in Nat, n <= m, NEW f, NEW g, Begins(f, n), Begins(g, m)
      PROVE  \A k \in Nat : k <= n => f[k] = g[k]
  <2> DEFINE P == {k \in Nat : k <= n => f[k] = g[k]}
  <2>1. 0 \in P
    BY <1>1
  <2>2. ASSUME NEW k \in P PROVE k + 1 \in P
    <3>1. CASE k + 1 <= n
      <4>1. k < n /\ k < m /\ f[k] = g[k] /\ k \in Nat
        BY <1>1, <3>1
      <4> QED BY <1>1, <4>1
    <3> QED BY <3>1
  <2>3. P = Nat
    <3> HIDE DEF P
    <3> QED BY <2>1, <2>2, Induction DEF P
  <2> QED BY <2>3
<1>2. \A n \in Nat : \E f : Begins(f, n)
  <2> DEFINE P == {n \in Nat : \E f : Begins(f, n)}
  <2>1. 0 \in P
    <3>1. [k \in 0..0 |-> a] \in [0..0 -> S] /\ [k \in 0..0 |-> a][0] = a
      OBVIOUS
    <3>2. Begins([k \in 0..0 |-> a], 0)
      BY <3>1
    <3> HIDE DEF Begins
    <3> QED BY <3>2
  <2>2. ASSUME NEW n \in P PROVE n + 1 \in P
    <3>1. PICK f : Begins(f, n)
      OBVIOUS
    <3> DEFINE g == [k \in 0..(n + 1) |-> IF k <= n THEN f[k] ELSE G[n + 1][f[n]]]
    <3>2. f[n] \in S /\ G[n + 1][f[n]] \in S
      BY <3>1
    <3>3. g \in [0..(n + 1) -> S] /\ g[0] = a
      BY <3>1, <3>2
    <3>4. \A k \in Nat : k < n + 1 => g[k + 1] = G[k + 1][g[k]]
      BY <3>1
    <3>5. Begins(g, n + 1)
      BY <3>3, <3>4
    <3> HIDE DEF Begins, g
    <3> QED BY <3>5
  <2>3. P = Nat
    <3> HIDE DEF P
    <3> QED BY <2>1, <2>2, Induction DEF P
  <2> QED BY <2>3
<1> DEFINE h == [n \in Nat |-> CHOOSE f : Begins(f, n)]
           f == [n \in Nat |-> h[n][n]]
<1>3. \A n \in Nat : Begins(h[n], n)
  BY <1>2
<1> HIDE DEF h
<1>4. f \in [Nat -> S] /\ f[0] = a
  BY <1>3
<1>5. ASSUME NEW n \in Nat PROVE f[n + 1] = G[n + 1][f[n]]
  <2>1. h[n][n] = h[n + 1][n]
    <3>1. Begins(h[n], n) /\ Begins(h[n + 1], n + 1) /\ n <= n + 1 /\ n + 1 \in Nat
      BY <1>3
    <3> HIDE DEF Begins
    <3> QED BY <1>1, <3>1
  <2>2. h[n + 1][n + 1] = G[n + 1][h[n + 1][n]]
    BY <1>3
  <2> QED BY <2>1, <2>2
<1>6. ASSUME NEW n \in Nat \ {0} PROVE f[n] = G[n][f[n - 1]]
  <2>1. n - 1 \in Nat /\ (n - 1) + 1 = n
    OBVIOUS
  <2> HIDE DEF f
  <2> QED BY <1>5, <2>1
<1> QED BY <1>4, <1>6

\* A start and n steps define a function on 0..n.
LEMMA FiniteRecursion ==
    ASSUME NEW S, NEW a \in S, NEW N \in Nat, NEW G \in [1..N -> [S -> S]]
    PROVE  \E h \in [0..N -> S] : h = [k \in 0..N |-> IF k = 0 THEN a ELSE G[k][h[k - 1]]]
<1> DEFINE H == [n \in Nat |-> [x \in S |-> IF n \in 1..N THEN G[n][x] ELSE x]]
<1>1. H \in [Nat -> [S -> S]]
  OBVIOUS
<1>2. \A n \in 1..N : \A x \in S : H[n][x] = G[n][x]
  OBVIOUS
<1> HIDE DEF H
<1>3. PICK f \in [Nat -> S] : f[0] = a /\ \A n \in Nat \ {0} : f[n] = H[n][f[n - 1]]
  <2> DEFINE Made(SS, aa, GG) ==
               \E f \in [Nat -> SS] : f[0] = aa /\ \A n \in Nat \ {0} : f[n] = GG[n][f[n - 1]]
  <2>1. \A SS : \A aa \in SS : \A GG \in [Nat -> [SS -> SS]] : Made(SS, aa, GG)
    BY Recursion
  <2>2. Made(S, a, H)
    <3> HIDE DEF Made
    <3> QED BY <1>1, <2>1
  <2> QED BY <2>2
<1> DEFINE h == [k \in 0..N |-> f[k]]
<1>4. h \in [0..N -> S] /\ \A k \in 0..N : h[k] = f[k]
  OBVIOUS
<1>5. ASSUME NEW k \in 0..N PROVE f[k] = IF k = 0 THEN a ELSE G[k][h[k - 1]]
  <2>1. CASE k = 0
    BY <1>3, <2>1
  <2>2. CASE k # 0
    <3>1. k \in 1..N /\ k \in Nat \ {0} /\ k - 1 \in 0..N /\ k - 1 \in Nat
      BY <2>2
    <3>2. f[k] = H[k][f[k - 1]] /\ f[k - 1] \in S /\ h[k - 1] = f[k - 1]
      BY <1>3, <3>1
    <3> HIDE DEF h
    <3> QED BY <1>2, <2>2, <3>1, <3>2
  <2> QED BY <2>1, <2>2
<1>6. h = [k \in 0..N |-> IF k = 0 THEN a ELSE G[k][h[k - 1]]]
  BY <1>5
<1> QED BY <1>4, <1>6
=============================================================================
