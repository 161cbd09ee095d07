------------------------ MODULE MetadataGenerationProofs ------------------------
(***************************************************************************)
(* What generations leave behind, for any tables, replies, files and       *)
(* number of generations: what was published is whole, a result is used    *)
(* for the context it was made for, and the journal keeps what it took.    *)
(***************************************************************************)
EXTENDS MetadataGeneration, RecursionProofs, FiniteSetTheorems, TLAPS

-----------------------------------------------------------------------------
(* Sequences *)

\* Only(s, S) has the elements of s that are in S, each as often as s, and no others.
Once(s) == \A i, j \in DOMAIN s : s[i] = s[j] => i = j

Collects(f, s, S) ==
    /\ f[0] = <<>> /\ Only(s, S) = f[Len(s)]
    /\ \A n \in Nat \ {0} : f[n] = IF s[n] \in S THEN Append(f[n - 1], s[n]) ELSE f[n - 1]

LEMMA OnlySteps ==
    ASSUME NEW T, NEW s \in Seq(T), NEW S
    PROVE  \E f : Collects(f, s, S)
<1> DEFINE Q == Seq({s[n] : n \in Nat})
           G == [n \in Nat |-> [q \in Q |-> IF s[n] \in S THEN Append(q, s[n]) ELSE q]]
           Upto(f) == f = [n \in Nat |-> IF n = 0 THEN <<>>
                              ELSE IF s[n] \in S THEN Append(f[n - 1], s[n]) ELSE f[n - 1]]
           e == <<>>
<1>1. G \in [Nat -> [Q -> Q]]
  <2>1. ASSUME NEW n \in Nat, NEW q \in Q PROVE (IF s[n] \in S THEN Append(q, s[n]) ELSE q) \in Q
    <3>1. s[n] \in {s[k] : k \in Nat}
      OBVIOUS
    <3> QED BY <3>1
  <2> HIDE DEF Q
  <2> QED BY <2>1
<1>2. \A n \in Nat : \A q \in Q : G[n][q] = IF s[n] \in S THEN Append(q, s[n]) ELSE q
  BY DEF G
<1>3. e \in Q
  OBVIOUS
<1> HIDE DEF G, Q, e
<1>4. PICK f \in [Nat -> Q] : f[0] = e /\ \A n \in Nat \ {0} : f[n] = G[n][f[n - 1]]
  <2> DEFINE Made(SS, aa, GG) ==
               \E h \in [Nat -> SS] : h[0] = aa /\ \A n \in Nat \ {0} : h[n] = GG[n][h[n - 1]]
  <2>1. \A SS : \A aa \in SS : \A GG \in [Nat -> [SS -> SS]] : Made(SS, aa, GG)
    BY Recursion
  <2>2. Made(Q, e, G)
    <3> HIDE DEF Made
    <3> QED BY <2>1, <1>1, <1>3
  <2> QED BY <2>2
<1>5. ASSUME NEW n \in Nat \ {0}
      PROVE  f[n] = IF s[n] \in S THEN Append(f[n - 1], s[n]) ELSE f[n - 1]
  <2>1. n - 1 \in Nat /\ f[n - 1] \in Q
    OBVIOUS
  <2> QED BY <2>1, <1>2, <1>4
<1>6. Upto(f)
  BY <1>4, <1>5 DEF e
<1> DEFINE g == CHOOSE h : Upto(h)
<1>7. Upto(g)
  <2> HIDE DEF Upto
  <2> QED BY <1>6
<1> HIDE DEF g
<1>8. \A n \in Nat : g[n] = f[n]
  <2> DEFINE P == {n \in Nat : g[n] = f[n]}
  <2>1. 0 \in P
    BY <1>6, <1>7
  <2>2. ASSUME NEW n \in P PROVE n + 1 \in P
    <3>1. n + 1 \in Nat \ {0} /\ (n + 1) - 1 = n /\ g[n] = f[n]
      OBVIOUS
    <3> DEFINE m == n + 1
    <3>2. m \in Nat \ {0} /\ m - 1 = n
      OBVIOUS
    <3> HIDE DEF m
    <3>3. g[m] = f[m]
      <4>1. g[m] = IF s[m] \in S THEN Append(g[m - 1], s[m]) ELSE g[m - 1]
        BY <1>7, <3>2
      <4> QED BY <4>1, <1>5, <3>2
    <3> QED BY <3>1, <3>3 DEF m
  <2>3. P \in SUBSET Nat
    OBVIOUS
  <2> HIDE DEF P
  <2>4. P = Nat
    BY <2>1, <2>2, <2>3, Induction
  <2> QED BY <2>4 DEF P
<1>9. Len(s) \in Nat /\ Only(s, S) = g[Len(s)]
  BY DEF Only, g
<1> HIDE DEF Upto
<1> QED BY <1>4, <1>5, <1>8, <1>9 DEF e, Collects

\* Append adds one element to the set of them.
LEMMA AppendSet ==
    ASSUME NEW T, NEW q \in Seq(T), NEW x \in T
    PROVE  /\ Append(q, x) \in Seq(T)
           /\ ToSet(Append(q, x)) = ToSet(q) \cup {x}
           /\ Len(Append(q, x)) = Len(q) + 1
           /\ Once(q) /\ x \notin ToSet(q) => Once(Append(q, x))
<1>1. Append(q, x) \in Seq(T) /\ Len(Append(q, x)) = Len(q) + 1 /\ Len(q) \in Nat
  OBVIOUS
<1>2. \A i \in 1..Len(q) : Append(q, x)[i] = q[i]
  OBVIOUS
<1>3. Append(q, x)[Len(q) + 1] = x
  OBVIOUS
<1>4. DOMAIN q = 1..Len(q) /\ DOMAIN Append(q, x) = 1..(Len(q) + 1)
  OBVIOUS
<1>5. ToSet(Append(q, x)) = ToSet(q) \cup {x}
  BY <1>1, <1>2, <1>3, <1>4 DEF ToSet
<1>6. Once(q) /\ x \notin ToSet(q) => Once(Append(q, x))
  BY <1>1, <1>2, <1>3, <1>4 DEF ToSet, Once
<1> QED BY <1>1, <1>5, <1>6 DEF Collects

LEMMA OnlyIs ==
    ASSUME NEW T, NEW s \in Seq(T), NEW S
    PROVE  /\ Only(s, S) \in Seq(T)
           /\ ToSet(Only(s, S)) = ToSet(s) \cap S
           /\ Len(Only(s, S)) <= Len(s)
           /\ Once(s) => Once(Only(s, S))
<1>1. PICK f : Collects(f, s, S)
  BY OnlySteps
<1> DEFINE Good(n) == /\ f[n] \in Seq(T)
                      /\ ToSet(f[n]) = {s[i] : i \in 1..n} \cap S
                      /\ Len(f[n]) <= n
                      /\ Once(s) => Once(f[n])
           P == {n \in Nat : n <= Len(s) => Good(n)}
<1>2. 0 \in P
  <2>1. f[0] = <<>> /\ f[0] \in Seq(T) /\ Len(f[0]) = 0 /\ ToSet(f[0]) = {} /\ Once(f[0])
    BY <1>1 DEF ToSet, Once, Collects
  <2>2. {s[i] : i \in 1..0} = {}
    OBVIOUS
  <2>3. Good(0)
    BY <2>1, <2>2
  <2> QED BY <2>3
<1>3. ASSUME NEW k \in P PROVE k + 1 \in P
  <2> DEFINE n == k + 1
  <2>1. n \in Nat \ {0} /\ n - 1 = k /\ k \in Nat
    OBVIOUS
  <2> SUFFICES ASSUME n <= Len(s) PROVE Good(n)
    BY <2>1
  <2>2. Good(k)
    BY <2>1
  <2>3. n \in 1..Len(s) /\ s[n] \in T /\ {s[i] : i \in 1..n} = {s[i] : i \in 1..k} \cup {s[n]}
    <3>1. n \in 1..Len(s) /\ 1..n = 1..k \cup {n}
      BY <2>1
    <3> QED BY <3>1
  <2> HIDE DEF n
  <2>4. CASE s[n] \in S
    <3>1. f[n] = Append(f[k], s[n])
      BY <1>1, <2>1, <2>4 DEF Collects
    <3>2. Once(s) => s[n] \notin ToSet(f[k])
      <4> SUFFICES ASSUME Once(s), s[n] \in ToSet(f[k]) PROVE FALSE
        OBVIOUS
      <4>1. PICK i \in 1..k : s[i] = s[n]
        BY <2>2
      <4>2. i \in DOMAIN s /\ n \in DOMAIN s /\ i # n
        BY <4>1, <2>1, <2>3
      <4> QED BY <4>1, <4>2 DEF Once
    <3>3. /\ f[n] \in Seq(T) /\ ToSet(f[n]) = ToSet(f[k]) \cup {s[n]}
          /\ Len(f[n]) = Len(f[k]) + 1
          /\ Once(s) => Once(f[n])
      BY <2>2, <2>3, <3>1, <3>2, AppendSet
    <3>4. ToSet(f[n]) = {s[i] : i \in 1..n} \cap S
      BY <2>2, <2>3, <2>4, <3>3
    <3>5. Len(f[k]) \in Nat
      BY <2>2
    <3>6. Len(f[k]) <= k /\ Len(f[n]) = Len(f[k]) + 1
      BY <2>2, <3>3
    <3>7. Len(f[n]) <= n
      BY <2>1, <3>5, <3>6
    <3> QED BY <3>3, <3>4, <3>7
  <2>5. CASE s[n] \notin S
    <3>1. f[n] = f[k]
      BY <1>1, <2>1, <2>5 DEF Collects
    <3> QED BY <2>1, <2>2, <2>3, <2>5, <3>1
  <2> QED BY <2>4, <2>5
<1>4. P \in SUBSET Nat
  OBVIOUS
<1>5. Len(s) \in P
  <2> HIDE DEF P
  <2>1. P = Nat
    BY <1>2, <1>3, <1>4, Induction
  <2> QED BY <2>1
<1>6. {s[i] : i \in 1..Len(s)} = ToSet(s)
  BY DEF ToSet
<1> QED BY <1>1, <1>5, <1>6 DEF Collects

\* The newest elements are some of them, the last one included; all if there is room.
LEMMA NewestIs ==
    ASSUME NEW T, NEW s \in Seq(T), NEW n \in Nat \ {0}
    PROVE  /\ Newest(s, n) \in Seq(T)
           /\ Len(Newest(s, n)) <= n
           /\ Len(s) <= n => Newest(s, n) = s
           /\ ToSet(Newest(s, n)) \subseteq ToSet(s)
           /\ Once(s) => Once(Newest(s, n))
           /\ Len(s) > 0 => s[Len(s)] \in ToSet(Newest(s, n))
<1> DEFINE k == Len(s) - n
<1>1. CASE Len(s) <= n
  <2>1. Newest(s, n) = s
    BY <1>1 DEF Newest
  <2>2. Len(s) > 0 => s[Len(s)] \in ToSet(s)
    BY DEF ToSet
  <2> QED BY <1>1, <2>1, <2>2
<1>2. CASE Len(s) > n
  <2> DEFINE q == SubSeq(s, k + 1, Len(s))
  <2>1. k \in Nat /\ k + n = Len(s) /\ Newest(s, n) = q
    BY <1>2 DEF Newest
  <2>2. q \in Seq(T) /\ Len(q) = n /\ \A i \in 1..n : q[i] = s[k + i]
    BY <2>1
  <2> HIDE DEF k
  <2>3. \A i \in 1..n : k + i \in 1..Len(s)
    BY <2>1
  <2>4. DOMAIN q = 1..n /\ DOMAIN s = 1..Len(s)
    BY <2>2
  <2> HIDE DEF q
  <2>5. ToSet(q) \subseteq ToSet(s)
    BY <2>2, <2>3, <2>4 DEF ToSet
  <2>6. Once(s) => Once(q)
    <3> SUFFICES ASSUME Once(s), NEW i \in 1..n, NEW j \in 1..n, q[i] = q[j] PROVE i = j
      BY <2>4 DEF Once
    <3>1. s[k + i] = s[k + j] /\ k + i \in DOMAIN s /\ k + j \in DOMAIN s
      BY <2>2, <2>3, <2>4
    <3>2. k + i = k + j
      BY <3>1 DEF Once
    <3> QED BY <3>2, <2>1
  <2>7. q[n] = s[Len(s)] /\ n \in DOMAIN q
    BY <2>1, <2>2, <2>4
  <2>8. s[Len(s)] \in ToSet(q)
    BY <2>7 DEF ToSet
  <2> QED BY <1>2, <2>1, <2>2, <2>5, <2>6, <2>8
<1> QED BY <1>1, <1>2

-----------------------------------------------------------------------------
(* Entries of the manifest *)

Keyed(s) == \A i, j \in DOMAIN s : s[i].ctx = s[j].ctx => i = j
Entry ==
    {e \in [variants : Seq(Variant), invalid : Seq(Ctx), active : Ctx \cup {None}] :
        /\ Keyed(e.variants) /\ Len(e.variants) <= MaxVariants
        /\ Once(e.invalid) /\ Len(e.invalid) <= MaxInvalid}

LEMMA Bounds == MaxVariants \in Nat \ {0} /\ MaxInvalid \in Nat \ {0}
BY ConstantsAssumption

LEMMA ContainsIs ==
    ASSUME NEW T, NEW s \in Seq(T), NEW x
    PROVE  Contains(s, x) <=> x \in ToSet(s)
BY DEF Contains, ToSet

LEMMA EmptyIs == ASSUME NEW T PROVE <<>> \in Seq(T) /\ ToSet(<<>>) = {} /\ Once(<<>>) /\ Keyed(<<>>)
BY DEF ToSet, Once, Keyed

LEMMA NoEntryIs == NoEntry \in Entry
<1>1. /\ <<>> \in Seq(Variant) /\ <<>> \in Seq(Ctx) /\ Len(<<>>) = 0
      /\ Keyed(<<>>) /\ Once(<<>>)
  BY EmptyIs
<1>2. 0 <= MaxVariants /\ 0 <= MaxInvalid
  BY Bounds
<1> QED BY <1>1, <1>2 DEF NoEntry, Entry

\* What is drawn from variants with a context each still has one each.
LEMMA KeyedPart ==
    ASSUME NEW T, NEW s \in Seq(T), NEW q \in Seq(T), Keyed(s), Once(q), ToSet(q) \subseteq ToSet(s)
    PROVE  Keyed(q)
<1> SUFFICES ASSUME NEW i \in DOMAIN q, NEW j \in DOMAIN q, q[i].ctx = q[j].ctx PROVE i = j
  BY DEF Keyed
<1>1. PICK k \in DOMAIN s : s[k] = q[i]
  BY DEF ToSet
<1>2. PICK l \in DOMAIN s : s[l] = q[j]
  BY DEF ToSet
<1>3. k = l
  BY <1>1, <1>2 DEF Keyed
<1> QED BY <1>1, <1>2, <1>3 DEF Once
LEMMA KeyedOnce == ASSUME NEW s, Keyed(s) PROVE Once(s)
BY DEF Keyed, Once

\* What recording r for c makes of the variants: r's is there, what is there besides
\* was, and at most one context is lost, none if it was known or there is room.
Recording(c, r) == [ctx |-> c, result |-> r, eligible |-> r.kind # "transient"]
Placed(e, c, r) ==
    IF Has(e.variants, c)
    THEN [i \in DOMAIN e.variants |-> IF e.variants[i].ctx = c THEN Recording(c, r) ELSE e.variants[i]]
    ELSE Append(e.variants, Recording(c, r))

LEMMA PlacedIs ==
    ASSUME NEW e \in Entry, NEW c \in Ctx, NEW r \in Result
    PROVE  /\ Placed(e, c, r) \in Seq(Variant) /\ Keyed(Placed(e, c, r))
           /\ ToSet(Placed(e, c, r)) = {v \in ToSet(e.variants) : v.ctx # c} \cup {Recording(c, r)}
           /\ Len(Placed(e, c, r)) = IF Has(e.variants, c) THEN Len(e.variants) ELSE Len(e.variants) + 1
           /\ ~Has(e.variants, c) => Placed(e, c, r)[Len(e.variants) + 1] = Recording(c, r)
<1> DEFINE s == e.variants
           x == Recording(c, r)
           q == Placed(e, c, r)
<1>1. s \in Seq(Variant) /\ Keyed(s) /\ Len(s) \in Nat
  BY DEF Entry
<1>2. x \in Variant /\ x.ctx = c
  BY DEF Recording, Variant
<1>3. CASE Has(s, c)
  <2>1. PICK k \in DOMAIN s : s[k].ctx = c
    BY <1>3 DEF Has
  <2>2. \A i \in DOMAIN s : s[i].ctx = c <=> i = k
    BY <1>1, <2>1 DEF Keyed
  <2>3. q = [i \in DOMAIN s |-> IF s[i].ctx = c THEN x ELSE s[i]]
    BY <1>3 DEF Placed
  <2>4. DOMAIN s = 1..Len(s)
    BY <1>1
  <2> HIDE DEF s, x, q
  <2>5. q \in Seq(Variant) /\ Len(q) = Len(s) /\ DOMAIN q = DOMAIN s
    BY <1>1, <1>2, <2>3, <2>4
  <2>6. \A i \in DOMAIN s : IF i = k THEN q[i] = x ELSE q[i] = s[i] /\ s[i].ctx # c
    BY <2>2, <2>3
  <2>7. ToSet(q) = {v \in ToSet(s) : v.ctx # c} \cup {x}
    BY <2>1, <2>2, <2>5, <2>6 DEF ToSet
  <2>8. Keyed(q)
    BY <1>1, <1>2, <2>1, <2>5, <2>6 DEF Keyed
  <2> QED BY <1>3, <2>5, <2>7, <2>8 DEF s, x, q
<1>4. CASE ~Has(s, c)
  <2>1. q = Append(s, x) /\ \A i \in DOMAIN s : s[i].ctx # c
    BY <1>4 DEF Placed, Has
  <2> HIDE DEF s, x, q
  <2>2. q \in Seq(Variant) /\ Len(q) = Len(s) + 1 /\ ToSet(q) = ToSet(s) \cup {x} /\ q[Len(s) + 1] = x
    BY <1>1, <1>2, <2>1, AppendSet
  <2>3. \A v \in ToSet(s) : v.ctx # c
    BY <2>1 DEF ToSet
  <2>4. Keyed(q)
    <3>1. \A i \in 1..Len(s) : q[i] = s[i]
      BY <1>1, <1>2, <2>1
    <3>2. DOMAIN q = 1..(Len(s) + 1) /\ DOMAIN s = 1..Len(s)
      BY <1>1, <2>2
    <3> QED BY <1>1, <1>2, <2>1, <2>2, <3>1, <3>2 DEF Keyed
  <2>5. {v \in ToSet(s) : v.ctx # c} = ToSet(s)
    BY <2>3
  <2> QED BY <1>4, <2>2, <2>4, <2>5 DEF s, x, q
<1> QED BY <1>3, <1>4

LEMMA RecordedVariants ==
    ASSUME NEW e \in Entry, NEW c \in Ctx, NEW r \in Result
    PROVE  LET new == Recorded(e, c, r) IN
           /\ new.variants \in Seq(Variant) /\ Keyed(new.variants) /\ Len(new.variants) <= MaxVariants
           /\ new.active = c
           /\ ToSet(new.variants) \subseteq {v \in ToSet(e.variants) : v.ctx # c} \cup {Recording(c, r)}
           /\ Recording(c, r) \in ToSet(new.variants)
           /\ Has(e.variants, c) \/ Len(e.variants) < MaxVariants =>
                 {v \in ToSet(e.variants) : v.ctx # c} \subseteq ToSet(new.variants)
<1> DEFINE new == Recorded(e, c, r)
           q == Placed(e, c, r)
           s == e.variants
<1>1. new.variants = Newest(q, MaxVariants) /\ new.active = c
  BY DEF Recorded, Placed, Recording
<1>2. /\ s \in Seq(Variant) /\ Len(s) \in Nat /\ Len(s) <= MaxVariants
      /\ MaxVariants \in Nat \ {0}
  BY Bounds DEF Entry
<1>3. /\ q \in Seq(Variant) /\ Keyed(q) /\ Once(q)
      /\ ToSet(q) = {v \in ToSet(s) : v.ctx # c} \cup {Recording(c, r)}
      /\ Len(q) = IF Has(s, c) THEN Len(s) ELSE Len(s) + 1
      /\ ~Has(s, c) => q[Len(s) + 1] = Recording(c, r)
  BY PlacedIs, KeyedOnce
<1> HIDE DEF new, q, s
<1>4. /\ new.variants \in Seq(Variant) /\ Len(new.variants) <= MaxVariants /\ Once(new.variants)
      /\ ToSet(new.variants) \subseteq ToSet(q)
      /\ Len(q) <= MaxVariants => new.variants = q
      /\ Len(q) > 0 => q[Len(q)] \in ToSet(new.variants)
  BY <1>1, <1>2, <1>3, NewestIs
<1>5. Keyed(new.variants)
  BY <1>3, <1>4, KeyedPart
<1>6. Recording(c, r) \in ToSet(new.variants)
  <2>1. CASE Has(s, c)
    BY <1>2, <1>3, <1>4, <2>1
  <2>2. CASE ~Has(s, c)
    <3>1. Len(q) = Len(s) + 1 /\ Len(q) > 0 /\ q[Len(q)] = Recording(c, r)
      BY <1>2, <1>3, <2>2
    <3> QED BY <1>4, <3>1
  <2> QED BY <2>1, <2>2
<1>7. Has(s, c) \/ Len(s) < MaxVariants => {v \in ToSet(s) : v.ctx # c} \subseteq ToSet(new.variants)
  <2>1. ASSUME Has(s, c) \/ Len(s) < MaxVariants PROVE Len(q) <= MaxVariants
    BY <1>2, <1>3, <2>1
  <2> QED BY <1>3, <1>4, <2>1
<1> QED BY <1>1, <1>3, <1>4, <1>5, <1>6, <1>7 DEF new, q, s

\* The marks after it: c is marked if r may not be resumed; no other is gone if
\* there is room.
LEMMA RecordedMarks ==
    ASSUME NEW e \in Entry, NEW c \in Ctx, NEW r \in Result
    PROVE  LET new == Recorded(e, c, r) IN
           /\ new.invalid \in Seq(Ctx) /\ Once(new.invalid) /\ Len(new.invalid) <= MaxInvalid
           /\ ~Resumable(r) => c \in ToSet(new.invalid)
           /\ c \in ToSet(e.invalid) \/ Len(e.invalid) < MaxInvalid =>
                 ToSet(e.invalid) \ {c} \subseteq ToSet(new.invalid)
<1> DEFINE new == Recorded(e, c, r)
           s == e.invalid
           q == Append(s, c)
<1>1. /\ s \in Seq(Ctx) /\ Len(s) \in Nat /\ Once(s) /\ Len(s) <= MaxInvalid
      /\ MaxInvalid \in Nat \ {0}
  BY Bounds DEF Entry
<1>2. Contains(s, c) <=> c \in ToSet(s)
  BY <1>1, ContainsIs
<1>3. CASE Resumable(r)
  <2>1. new.invalid = Only(s, Ctx \ {c})
    BY <1>3 DEF Recorded
  <2>2. /\ Only(s, Ctx \ {c}) \in Seq(Ctx) /\ Len(Only(s, Ctx \ {c})) <= Len(s)
        /\ ToSet(Only(s, Ctx \ {c})) = ToSet(s) \cap (Ctx \ {c})
        /\ Once(s) => Once(Only(s, Ctx \ {c}))
    BY <1>1, OnlyIs
  <2>3. Len(Only(s, Ctx \ {c})) <= MaxInvalid
    BY <1>1, <2>2
  <2>4. ToSet(s) \subseteq Ctx
    BY <1>1 DEF ToSet
  <2> QED BY <1>1, <1>3, <2>1, <2>2, <2>3, <2>4
<1>4. CASE ~Resumable(r) /\ c \in ToSet(s)
  <2>1. new.invalid = s
    BY <1>2, <1>4 DEF Recorded
  <2> QED BY <1>1, <1>4, <2>1
<1>5. CASE ~Resumable(r) /\ c \notin ToSet(s)
  <2>1. new.invalid = Newest(q, MaxInvalid)
    BY <1>2, <1>5 DEF Recorded
  <2>2. q \in Seq(Ctx) /\ Len(q) = Len(s) + 1 /\ ToSet(q) = ToSet(s) \cup {c} /\ q[Len(q)] = c /\ Once(q)
    BY <1>1, <1>5, AppendSet
  <2> HIDE DEF q, s, new
  <2>3. /\ new.invalid \in Seq(Ctx) /\ Len(new.invalid) <= MaxInvalid /\ Once(new.invalid)
        /\ Len(q) <= MaxInvalid => new.invalid = q
        /\ q[Len(q)] \in ToSet(new.invalid)
    BY <1>1, <2>1, <2>2, NewestIs
  <2>4. Len(s) < MaxInvalid => Len(q) <= MaxInvalid
    BY <1>1, <2>2
  <2> QED BY <1>5, <2>2, <2>3, <2>4 DEF new, s
<1> QED BY <1>3, <1>4, <1>5

LEMMA RecordedIs ==
    ASSUME NEW e \in Entry, NEW c \in Ctx, NEW r \in Result
    PROVE  Recorded(e, c, r) \in Entry
<1> DEFINE new == Recorded(e, c, r)
<1>1. new = [variants |-> new.variants, invalid |-> new.invalid, active |-> new.active]
  BY DEF Recorded
<1>2. /\ new.variants \in Seq(Variant) /\ Keyed(new.variants) /\ Len(new.variants) <= MaxVariants
      /\ new.active = c
  BY RecordedVariants
<1>3. new.invalid \in Seq(Ctx) /\ Once(new.invalid) /\ Len(new.invalid) <= MaxInvalid
  BY RecordedMarks
<1> HIDE DEF new
<1>4. new \in [variants : Seq(Variant), invalid : Seq(Ctx), active : Ctx \cup {None}]
  BY <1>1, <1>2, <1>3
<1> QED BY <1>2, <1>3, <1>4 DEF new, Entry

\* Concatenation and renaming of sequences.
LEMMA JoinedIs ==
    ASSUME NEW T, NEW s \in Seq(T), NEW q \in Seq(T)
    PROVE  /\ s \o q \in Seq(T) /\ Len(s \o q) = Len(s) + Len(q)
           /\ ToSet(s \o q) = ToSet(s) \cup ToSet(q)
           /\ Once(s) /\ Once(q) /\ ToSet(s) \cap ToSet(q) = {} => Once(s \o q)
<1> DEFINE j == s \o q
<1>1. j \in Seq(T) /\ Len(j) = Len(s) + Len(q) /\ Len(s) \in Nat /\ Len(q) \in Nat
  OBVIOUS
<1>2. \A i \in 1..Len(s) : j[i] = s[i]
  OBVIOUS
<1>3. \A i \in 1..Len(q) : j[Len(s) + i] = q[i]
  OBVIOUS
<1>4. DOMAIN s = 1..Len(s) /\ DOMAIN q = 1..Len(q) /\ DOMAIN j = 1..(Len(s) + Len(q))
  OBVIOUS
<1> HIDE DEF j
<1>5. \A i \in DOMAIN j : i \in DOMAIN s \/ \E k \in DOMAIN q : i = Len(s) + k
  <2> TAKE i \in DOMAIN j
  <2>1. i \in 1..Len(s) \/ (i - Len(s) \in 1..Len(q) /\ i = Len(s) + (i - Len(s)))
    BY <1>1, <1>4
  <2> QED BY <2>1, <1>4
<1>6. ToSet(j) = ToSet(s) \cup ToSet(q)
  <2>1. ToSet(j) \subseteq ToSet(s) \cup ToSet(q)
    BY <1>2, <1>3, <1>4, <1>5 DEF ToSet
  <2>2. ToSet(s) \subseteq ToSet(j)
    <3>1. \A i \in DOMAIN s : i \in DOMAIN j
      BY <1>1, <1>4
    <3> QED BY <1>2, <1>4, <3>1 DEF ToSet
  <2>3. ToSet(q) \subseteq ToSet(j)
    <3>1. \A i \in DOMAIN q : Len(s) + i \in DOMAIN j
      BY <1>1, <1>4
    <3> QED BY <1>3, <1>4, <3>1 DEF ToSet
  <2> QED BY <2>1, <2>2, <2>3
<1>7. ASSUME Once(s), Once(q), ToSet(s) \cap ToSet(q) = {} PROVE Once(j)
  <2> SUFFICES ASSUME NEW i \in DOMAIN j, NEW k \in DOMAIN j, j[i] = j[k] PROVE i = k
    BY DEF Once
  <2>1. CASE i \in DOMAIN s /\ k \in DOMAIN s
    BY <1>2, <1>4, <1>7, <2>1 DEF Once
  <2>2. ASSUME NEW l \in DOMAIN q, NEW m \in DOMAIN s, j[Len(s) + l] = j[m] PROVE FALSE
    <3>1. q[l] = s[m]
      BY <1>2, <1>3, <1>4, <2>2
    <3> QED BY <1>7, <3>1 DEF ToSet
  <2>3. ASSUME NEW l \in DOMAIN q, NEW m \in DOMAIN q, i = Len(s) + l, k = Len(s) + m PROVE i = k
    <3>1. q[l] = q[m]
      BY <1>3, <1>4, <2>3
    <3> QED BY <1>7, <2>3, <3>1 DEF Once
  <2> QED BY <1>5, <2>1, <2>2, <2>3
<1> QED BY <1>1, <1>6, <1>7 DEF j

LEMMA NamesIs ==
    ASSUME NEW s \in Seq(Variant), Keyed(s)
    PROVE  LET names == [i \in DOMAIN s |-> s[i].ctx] IN
           /\ names \in Seq(Ctx) /\ Len(names) = Len(s) /\ Once(names)
           /\ ToSet(names) = {v.ctx : v \in ToSet(s)}
<1> DEFINE names == [i \in DOMAIN s |-> s[i].ctx]
<1>1. DOMAIN s = 1..Len(s) /\ Len(s) \in Nat /\ \A i \in 1..Len(s) : s[i].ctx \in Ctx
  <2>1. DOMAIN s = 1..Len(s) /\ Len(s) \in Nat /\ \A i \in 1..Len(s) : s[i] \in Variant
    OBVIOUS
  <2> QED BY <2>1 DEF Variant
<1>2. names \in Seq(Ctx) /\ Len(names) = Len(s) /\ DOMAIN names = DOMAIN s
  BY <1>1
<1>3. Once(names) /\ ToSet(names) = {v.ctx : v \in ToSet(s)}
  BY <1>2 DEF Once, Keyed, ToSet
<1> QED BY <1>2, <1>3

\* A resumed entry has the valid variants, and marks what it refused; no mark is gone
\* if there is room.
LEMMA PreparedIs ==
    ASSUME NEW t \in Table, NEW e \in Entry
    PROVE  LET new == Prepared(t, e) IN
           /\ new \in Entry
           /\ ToSet(new.variants) = {v \in ToSet(e.variants) : Valid(t, v)}
           /\ Len(e.invalid) + Len(e.variants) <= MaxInvalid =>
                 \A c \in Ctx : /\ c \in ToSet(e.invalid) \/ \E v \in ToSet(e.variants) : v.ctx = c
                                /\ ~Has(new.variants, c)
                                => c \in ToSet(new.invalid)
<1> DEFINE s == e.variants
           m == e.invalid
           good == Only(s, {v \in ToSet(s) : Valid(t, v)})
           refused == Only(s, {v \in ToSet(s) : ~Valid(t, v)})
           names == [i \in DOMAIN refused |-> refused[i].ctx]
           added == Only(names, Ctx \ ToSet(m))
           joined == m \o added
           free == {c \in Ctx : ~Has(good, c)}
           marks == Only(joined, free)
           new == Prepared(t, e)
<1>1. /\ new.variants = Newest(good, MaxVariants) /\ new.invalid = Newest(marks, MaxInvalid)
      /\ new.active = IF Has(good, e.active) THEN e.active
                      ELSE IF good = <<>> THEN None ELSE good[Len(good)].ctx
      /\ new = [variants |-> new.variants, invalid |-> new.invalid, active |-> new.active]
  BY DEF Prepared
<1>2. /\ s \in Seq(Variant) /\ Len(s) \in Nat /\ Len(s) <= MaxVariants /\ Keyed(s) /\ Once(s)
      /\ m \in Seq(Ctx) /\ Len(m) \in Nat /\ Len(m) <= MaxInvalid /\ Once(m)
      /\ e.active \in Ctx \cup {None}
      /\ MaxVariants \in Nat \ {0} /\ MaxInvalid \in Nat \ {0}
  BY Bounds, KeyedOnce DEF Entry
<1> HIDE DEF s, m, new
<1>3. /\ good \in Seq(Variant) /\ Len(good) <= Len(s) /\ Len(good) \in Nat /\ Once(good)
      /\ ToSet(good) = {v \in ToSet(s) : Valid(t, v)}
  BY <1>2, OnlyIs
<1>4. /\ refused \in Seq(Variant) /\ Len(refused) <= Len(s) /\ Len(refused) \in Nat /\ Once(refused)
      /\ ToSet(refused) = {v \in ToSet(s) : ~Valid(t, v)}
  BY <1>2, OnlyIs
<1> HIDE DEF good, refused
<1>5. Keyed(good) /\ Keyed(refused)
  BY <1>2, <1>3, <1>4, KeyedPart
<1>6. /\ names \in Seq(Ctx) /\ Len(names) = Len(refused) /\ Once(names)
      /\ ToSet(names) = {v.ctx : v \in ToSet(refused)}
  BY <1>4, <1>5, NamesIs
<1> HIDE DEF names
<1>7. /\ added \in Seq(Ctx) /\ Len(added) <= Len(names) /\ Len(added) \in Nat /\ Once(added)
      /\ ToSet(added) = ToSet(names) \cap (Ctx \ ToSet(m))
  BY <1>6, OnlyIs
<1> HIDE DEF added
<1>8. /\ joined \in Seq(Ctx) /\ Len(joined) = Len(m) + Len(added)
      /\ ToSet(joined) = ToSet(m) \cup ToSet(added) /\ Once(joined)
  BY <1>2, <1>7, JoinedIs
<1> HIDE DEF joined, free
<1>9. /\ marks \in Seq(Ctx) /\ Len(marks) <= Len(m) + Len(added) /\ Len(marks) \in Nat /\ Once(marks)
      /\ ToSet(marks) = (ToSet(m) \cup ToSet(added)) \cap free
  BY <1>8, OnlyIs
<1> HIDE DEF marks
<1>10. new.variants = good
  BY <1>1, <1>2, <1>3, NewestIs
<1>11. /\ new.invalid \in Seq(Ctx) /\ Len(new.invalid) <= MaxInvalid /\ Once(new.invalid)
       /\ Len(marks) <= MaxInvalid => new.invalid = marks
  BY <1>1, <1>2, <1>9, NewestIs
<1>12. new.active \in Ctx \cup {None}
  <2>1. ASSUME good # <<>> PROVE good[Len(good)].ctx \in Ctx
    <3>1. good[Len(good)] \in Variant
      BY <1>3, <2>1
    <3> QED BY <3>1 DEF Variant
  <2> QED BY <1>1, <1>2, <2>1
<1>13. new \in Entry
  <2>1. new \in [variants : Seq(Variant), invalid : Seq(Ctx), active : Ctx \cup {None}]
    BY <1>1, <1>3, <1>10, <1>11, <1>12
  <2>2. Len(new.variants) <= MaxVariants
    BY <1>2, <1>3, <1>10
  <2> QED BY <2>1, <2>2, <1>5, <1>10, <1>11 DEF Entry
<1>14. ASSUME Len(m) + Len(s) <= MaxInvalid, NEW c \in Ctx, ~Has(good, c),
              c \in ToSet(m) \/ \E v \in ToSet(s) : v.ctx = c
       PROVE  c \in ToSet(new.invalid)
  <2>1. new.invalid = marks
    BY <1>2, <1>4, <1>6, <1>7, <1>9, <1>11, <1>14
  <2>2. c \in ToSet(m) \cup ToSet(added)
    <3>1. ASSUME NEW v \in ToSet(s), v.ctx = c PROVE ~Valid(t, v)
      <4>1. v \in ToSet(good) => Has(good, c)
        BY <3>1 DEF Has, ToSet
      <4> QED BY <1>3, <1>14, <4>1
    <3>2. ASSUME NEW v \in ToSet(s), v.ctx = c, c \notin ToSet(m) PROVE c \in ToSet(added)
      BY <1>4, <1>6, <1>7, <3>1, <3>2
    <3> QED BY <1>14, <3>2
  <2> QED BY <1>9, <1>14, <2>1, <2>2 DEF free
<1> QED BY <1>3, <1>10, <1>13, <1>14 DEF s, m, new

-----------------------------------------------------------------------------
(* Where a generation is *)

Phase == {"off", "recover", "prune", "announce", "open", "batch", "finalize", "validate",
          "blocked", "backup", "install", "finish", "rollback"}
Publishing == {"backup", "install", "rollback"}
\* The contexts have been built.
Inspected == {"batch", "finalize", "validate", "blocked", "backup", "install", "finish", "rollback"}
Stage == {"idle", "due", "told", "journaled", "placed", "done"}

Where ==
    /\ phase \in Phase
    /\ runs \in Nat /\ (phase # "off" => runs # 0)
    /\ at \in [Table -> Stage]
    /\ fresh \in BOOLEAN /\ broken \in BOOLEAN /\ torn \in BOOLEAN
\* Outside of a batch and the journaling of final results no thread is at work.
Resting == phase \notin {"batch", "finalize"} => \A t \in Table : at[t] \in {"idle", "done"}
\* One thread at a time has the lock of the journal.
Alone == \A t, u \in Table : at[t] \in {"journaled", "placed"} /\ at[u] \in {"journaled", "placed"} => t = u

StagesInv == Where /\ Resting /\ Alone

LEMMA StagesBegin == Init => StagesInv
<1> SUFFICES ASSUME Init PROVE StagesInv
  OBVIOUS
<1>1. /\ phase = "off" /\ runs = 0 /\ at = [t \in Table |-> "idle"]
      /\ fresh = FALSE /\ broken = FALSE /\ torn = FALSE
  BY DEF Init
<1> QED BY <1>1 DEF StagesInv, Where, Resting, Alone, Phase, Stage

\* A step that moves one table on, as the lock of the journal allows.
LEMMA Moves ==
    ASSUME StagesInv, NEW t \in Table, NEW a \in Stage, at' = [at EXCEPT ![t] = a],
           a \in {"journaled", "placed"} => Writing \subseteq {t},
           phase \in {"batch", "finalize"}, UNCHANGED <<phase, runs, fresh, torn>>, broken' \in BOOLEAN
    PROVE  StagesInv'
<1>1. /\ at' \in [Table -> Stage] /\ at'[t] = a
      /\ \A u \in Table \ {t} : at'[u] = at[u]
  BY DEF StagesInv, Where
<1>2. Alone'
  BY <1>1 DEF StagesInv, Alone, Writing
<1> QED BY <1>1, <1>2 DEF StagesInv, Where, Resting

LEMMA StagesNext == StagesInv /\ [Next]_vars => StagesInv'
<1> SUFFICES ASSUME StagesInv, [Next]_vars PROVE StagesInv'
  OBVIOUS
<1> USE DEF Phase, Stage
<1>0. \A t \in Table : at[t] \in {"told", "journaled", "placed"} => phase \in {"batch", "finalize"}
  BY DEF StagesInv, Resting
<1>1. ASSUME UNCHANGED <<phase, runs, at, fresh, broken, torn>> PROVE StagesInv'
  BY <1>1 DEF StagesInv, Where, Resting, Alone
<1>2. ASSUME UNCHANGED <<runs, at, fresh, broken, torn>>, phase # "off", phase' \in Phase,
             phase' \in {"batch", "finalize"} \/ phase \notin {"batch", "finalize"}
      PROVE  StagesInv'
  BY <1>2 DEF StagesInv, Where, Resting, Alone
<1>3. ASSUME UNCHANGED runs, Gone, torn' \in BOOLEAN PROVE StagesInv'
  BY <1>3 DEF StagesInv, Where, Resting, Alone, Gone
<1>4. ASSUME NEW noCache \in BOOLEAN, Start(noCache) PROVE StagesInv'
  BY <1>4 DEF Start, StagesInv, Where, Resting, Alone, pipeline, history
<1>5. CASE Opening
  <2>1. CASE Recover \/ Prune \/ Announce
    BY <1>2, <2>1 DEF Recover, Prune, Announce, pipeline, loaded, world, history
  <2>2. CASE OpenInspector
    BY <2>2 DEF OpenInspector, StagesInv, Where, Resting, Alone, world, history
  <2> QED BY <1>5, <2>1, <2>2 DEF Opening
<1>6. ASSUME NEW t \in Table, Inspecting(t) PROVE StagesInv'
  <2>1. CASE Skip(t)
    BY <1>0, <2>1, Moves DEF Skip, world, loaded, history, StagesInv, Where
  <2>2. CASE Restore(t)
    BY <2>2, Moves DEF Restore, Answered, world, loaded, history, StagesInv, Where
  <2>3. CASE Ask(t)
    BY <2>3, Moves DEF Ask, Answered, world, StagesInv, Where
  <2> QED BY <1>6, <2>1, <2>2, <2>3 DEF Inspecting
<1>7. ASSUME NEW t \in Table, Journaling(t) PROVE StagesInv'
  <2>1. CASE Journal(t)
    BY <1>0, <2>1, Moves DEF Journal, world, history, StagesInv, Where
  <2>2. CASE Place(t)
    <3>1. Writing \subseteq {t}
      BY <2>2 DEF Place, StagesInv, Alone, Writing
    <3> QED BY <1>0, <2>2, <3>1, Moves DEF Place, world, loaded, StagesInv, Where
  <2>3. CASE Commit(t)
    BY <1>0, <2>3, Moves DEF Commit, world, history, StagesInv, Where
  <2>4. CASE WriteFails(t)
    BY <1>0, <2>4, Moves DEF WriteFails, world, history
  <2> QED BY <1>7, <2>1, <2>2, <2>3, <2>4 DEF Journaling
<1>8. ASSUME NEW t \in Table, Finalize(t) PROVE StagesInv'
  BY <1>8, Moves DEF Finalize, world, history, StagesInv, Where
<1>9. CASE EndBatch
  BY <1>9 DEF EndBatch, BatchOver, Propagate, Settle, StagesInv, Where, Resting, Alone, world, loaded, history
<1>10. CASE Report
  BY <1>10 DEF Report, StagesInv, Where, Resting, Alone, world, pipeline, loaded, history
<1>11. CASE Validate \/ PublishFails
  BY <1>2, <1>11 DEF Validate, PublishFails, world, pipeline, loaded, history
<1>12. ASSUME NEW f \in File, MoveAway(f) \/ PutBack(f) PROVE StagesInv'
  BY <1>1, <1>12 DEF MoveAway, PutBack, world, pipeline, loaded, history
<1>13. ASSUME NEW f \in File, MoveIn(f) PROVE StagesInv'
  BY <1>13 DEF MoveIn, StagesInv, Where, Resting, Alone, world, pipeline, loaded
<1>14. CASE Finish \/ Leave \/ Die
  <2>1. torn' \in BOOLEAN
    BY <1>14 DEF Finish, Leave, Die, StagesInv, Where, history
  <2> QED BY <1>3, <1>14, <2>1 DEF Finish, Leave, Die, world
<1>15. CASE Interrupt
  BY <1>15 DEF Interrupt, StagesInv, Where, Resting, Alone, world, loaded, history
<1>16. ASSUME NEW t \in Table, Edit(t) PROVE StagesInv'
  BY <1>1, <1>16 DEF Edit, pipeline, loaded, history
<1>17. CASE UNCHANGED vars
  BY <1>1, <1>17 DEF vars, world, pipeline, loaded, history
<1> QED
  BY <1>4, <1>5, <1>6, <1>7, <1>8, <1>9, <1>10, <1>11, <1>12, <1>13, <1>14, <1>15, <1>16, <1>17
  DEF Next, Working

-----------------------------------------------------------------------------
(* What is kept has its type *)

Saved == [ctx : Ctx, result : Result]
Write == [table : Table, ctx : Ctx, result : Result, entry : Entry]
Manifest == [tables : [Table -> Entry], pending : Write \cup {None}, published : Nat \cup {None}]

LEMMA ResultIs ==
    ASSUME NEW r \in Result
    PROVE  /\ Processed(r) \in Result
           /\ Processed(r).ctx = r.ctx
           /\ Usable(Processed(r)) => Usable(r)
           /\ Usable(r) <=> r.kind \notin {"blocked", "failed"}
BY DEF Result, Kinds, Processed, Usable

\* inspect.json after a result: that result, and of the others none twice.
LEMMA CachedIs ==
    ASSUME NEW s \in Seq(Saved), NEW c \in Ctx, NEW r \in Result
    PROVE  /\ Cached(s, c, r) \in Seq(Saved)
           /\ ToSet(Cached(s, c, r)) \subseteq
                 {v \in ToSet(s) : v.ctx # c} \cup {[ctx |-> c, result |-> r]}
<1> DEFINE x == [ctx |-> c, result |-> r]
           q == Without(s, c)
           a == Append(q, x)
<1>1. q \in Seq(Saved) /\ ToSet(q) = {v \in ToSet(s) : v.ctx # c}
  <2>1. q \in Seq(Saved) /\ ToSet(q) = ToSet(s) \cap {v \in ToSet(s) : v.ctx # c}
    BY OnlyIs DEF Without
  <2> QED BY <2>1
<1>2. x \in Saved
  BY DEF Saved
<1> HIDE DEF q, x
<1>3. a \in Seq(Saved) /\ ToSet(a) = ToSet(q) \cup {x}
  BY <1>1, <1>2, AppendSet
<1> HIDE DEF a
<1>4. Newest(a, MaxVariants) \in Seq(Saved) /\ ToSet(Newest(a, MaxVariants)) \subseteq ToSet(a)
  BY <1>3, Bounds, NewestIs
<1> QED BY <1>1, <1>3, <1>4 DEF Cached, q, x, a

LEMMA PurgedIs ==
    ASSUME NEW t \in Table, NEW s \in Seq(Saved)
    PROVE  /\ Purged(t, s) \in Seq(Saved)
           /\ ToSet(Purged(t, s)) = {v \in ToSet(s) : ~Contains(resume[t].invalid, v.ctx)}
<1> DEFINE S == {v \in ToSet(s) : ~Contains(resume[t].invalid, v.ctx)}
<1>1. Purged(t, s) \in Seq(Saved) /\ ToSet(Purged(t, s)) = ToSet(s) \cap S
  BY OnlyIs DEF Purged
<1> QED BY <1>1

\* What publication refused is marked, and no longer eligible; nothing else changes,
\* but that the oldest mark goes when there is no room.
RejectedContext(e) == IF Has(e.variants, e.active) THEN e.active ELSE e.variants[Len(e.variants)].ctx
LEMMA RejectedIs ==
    ASSUME NEW e \in Entry
    PROVE  LET new == RejectedEntry(e) IN
           /\ new \in Entry
           /\ \A v \in ToSet(new.variants) : \E w \in ToSet(e.variants) :
                 /\ v.ctx = w.ctx /\ v.result = w.result
                 /\ IF w.ctx = RejectedContext(e) THEN ~v.eligible ELSE v = w
           /\ \A w \in ToSet(e.variants) : w.ctx # RejectedContext(e) => w \in ToSet(new.variants)
           /\ e.variants # <<>> => RejectedContext(e) \in ToSet(new.invalid)
           /\ e.variants # <<>> => RejectedContext(e) \in Ctx
           /\ Len(e.invalid) < MaxInvalid => ToSet(e.invalid) \subseteq ToSet(new.invalid)
<1> DEFINE new == RejectedEntry(e)
           s == e.variants
           m == e.invalid
           c == RejectedContext(e)
<1>1. /\ s \in Seq(Variant) /\ Len(s) \in Nat /\ Len(s) <= MaxVariants /\ Keyed(s)
      /\ m \in Seq(Ctx) /\ Len(m) \in Nat /\ Len(m) <= MaxInvalid /\ Once(m)
      /\ MaxInvalid \in Nat \ {0}
      /\ e = [variants |-> s, invalid |-> m, active |-> e.active]
      /\ e.active \in Ctx \cup {None}
  BY Bounds DEF Entry
<1>2. CASE s = <<>>
  <2>1. new = e
    BY <1>2 DEF RejectedEntry
  <2>2. ToSet(s) = {}
    BY <1>2 DEF ToSet
  <2> QED BY <1>2, <2>1, <2>2
<1>3. CASE s # <<>>
  <2> DEFINE v == [i \in DOMAIN s |-> IF s[i].ctx = c THEN [s[i] EXCEPT !.eligible = FALSE] ELSE s[i]]
             i2 == IF Contains(m, c) THEN m ELSE Newest(Append(m, c), MaxInvalid)
  <2>1. new = [variants |-> v, invalid |-> i2, active |-> e.active]
    BY <1>1, <1>3 DEF RejectedEntry, RejectedContext
  <2>2. DOMAIN s = 1..Len(s) /\ \A i \in DOMAIN s : s[i] \in Variant
    BY <1>1
  <2>3. c \in Ctx
    <3>1. CASE Has(s, e.active)
      <4>1. PICK i \in DOMAIN s : s[i].ctx = e.active
        BY <3>1 DEF Has
      <4> QED BY <2>2, <3>1, <4>1 DEF Variant, RejectedContext
    <3>2. CASE ~Has(s, e.active)
      <4>1. Len(s) \in DOMAIN s
        BY <1>1, <1>3
      <4> QED BY <2>2, <3>2, <4>1 DEF Variant, RejectedContext
    <3> QED BY <3>1, <3>2
  <2> HIDE DEF s, c, m
  <2>4. \A i \in DOMAIN s : /\ v[i] \in Variant /\ v[i].ctx = s[i].ctx /\ v[i].result = s[i].result
                            /\ IF s[i].ctx = c THEN ~v[i].eligible ELSE v[i] = s[i]
    BY <2>2 DEF Variant
  <2>5. v \in Seq(Variant) /\ Len(v) = Len(s) /\ DOMAIN v = DOMAIN s
    BY <1>1, <2>2, <2>4
  <2> HIDE DEF v
  <2>6. Keyed(v)
    BY <1>1, <2>4, <2>5 DEF Keyed
  <2>7. ASSUME NEW x \in ToSet(v)
        PROVE  \E w \in ToSet(s) : /\ x.ctx = w.ctx /\ x.result = w.result
                                   /\ IF w.ctx = c THEN ~x.eligible ELSE x = w
    <3>1. PICK i \in DOMAIN s : x = v[i]
      BY <2>5 DEF ToSet
    <3>2. s[i] \in ToSet(s)
      BY DEF ToSet
    <3> WITNESS s[i] \in ToSet(s)
    <3> QED BY <2>4, <3>1
  <2>10. ASSUME NEW w \in ToSet(s), w.ctx # c PROVE w \in ToSet(v)
    <3>1. PICK i \in DOMAIN s : w = s[i]
      BY DEF ToSet
    <3>2. v[i] = w
      BY <2>4, <2>10, <3>1
    <3> QED BY <2>5, <3>1, <3>2 DEF ToSet
  <2>8. /\ i2 \in Seq(Ctx) /\ Len(i2) <= MaxInvalid /\ Once(i2) /\ c \in ToSet(i2)
        /\ Len(m) < MaxInvalid => ToSet(m) \subseteq ToSet(i2)
    <3>1. Contains(m, c) <=> c \in ToSet(m)
      BY <1>1, ContainsIs
    <3>2. CASE Contains(m, c)
      BY <1>1, <3>1, <3>2
    <3>3. CASE ~Contains(m, c)
      <4> DEFINE a == Append(m, c)
      <4>1. a \in Seq(Ctx) /\ Len(a) = Len(m) + 1 /\ ToSet(a) = ToSet(m) \cup {c} /\ Once(a) /\ a[Len(a)] = c
            /\ Len(a) > 0
        BY <1>1, <2>3, <3>1, <3>3, AppendSet
      <4> HIDE DEF a
      <4>2. /\ Newest(a, MaxInvalid) \in Seq(Ctx) /\ Len(Newest(a, MaxInvalid)) <= MaxInvalid
            /\ Once(Newest(a, MaxInvalid))
            /\ Len(a) <= MaxInvalid => Newest(a, MaxInvalid) = a
            /\ c \in ToSet(Newest(a, MaxInvalid))
        BY <1>1, <4>1, NewestIs
      <4>3. Len(m) < MaxInvalid => Len(a) <= MaxInvalid
        BY <1>1, <4>1
      <4> QED BY <3>3, <4>1, <4>2, <4>3 DEF a
    <3> QED BY <3>2, <3>3
  <2> HIDE DEF i2, new
  <2>9. new \in Entry
    BY <1>1, <2>1, <2>5, <2>6, <2>8 DEF Entry
  <2> QED BY <2>1, <2>3, <2>7, <2>8, <2>9, <2>10 DEF new, s, c, m
<1> QED BY <1>2, <1>3

LEMMA LatestOf == ASSUME NEW n \in Nat, NEW S \in SUBSET (1..n), S # {}
                  PROVE  Max(S) \in S
<1> DEFINE D == {n - i : i \in S}
<1>1. D \in SUBSET Nat /\ D # {}
  <2>1. \A i \in S : n - i \in Nat
    OBVIOUS
  <2> QED BY <2>1
<1> HIDE DEF D
<1>2. PICK d \in D : \A m \in D : d <= m
  <2>1. \A R \in SUBSET Nat : R # {} => \E k \in R : \A m \in R : k <= m
    BY SmallestOf
  <2> QED BY <1>1, <2>1
<1> USE DEF D
<1>3. PICK i \in S : d = n - i
  BY <1>2
<1>4. \A j \in S : i >= j
  <2> TAKE j \in S
  <2>1. n - j \in D /\ n - i <= n - j
    BY <1>2, <1>3
  <2> QED BY <2>1
<1> QED BY <1>4 DEF Max

LEMMA EarliestOf == ASSUME NEW S \in SUBSET Nat, S # {} PROVE Min(S) \in S
<1>1. PICK n \in S : \A m \in S : n <= m
  BY SmallestOf
<1> QED BY <1>1 DEF Min

\* Every conversation with the model service has one of the outcomes.
LEMMA OutcomeIs ==
    ASSUME NEW t \in Table, NEW c \in Conversations(t)
    PROVE  Outcome(c) \in Kinds
<1>1. PICK n \in 1..Attempts : c \in [1..n -> Reply[t]]
  BY DEF Conversations
<1>2. /\ n \in Nat
      /\ \A i \in 1..n : c[i] \in {"error", "useless", "invalid", "warning", "passed", "late"}
  BY <1>1, ConstantsAssumption
<1>3. CASE Confident(c) = {}
  BY <1>3 DEF Outcome, Kinds
<1>4. CASE Confident(c) # {}
  <2> DEFINE i == Max(Confident(c))
  <2>1. Confident(c) \in SUBSET (1..n)
    BY <1>1 DEF Confident
  <2>2. i \in Confident(c)
    BY <1>2, <1>4, <2>1, LatestOf
  <2> HIDE DEF i
  <2>3. c[i] \in {"invalid", "warning", "passed", "late"}
    BY <1>2, <2>1, <2>2 DEF Confident
  <2>4. Outcome(c) = CASE c[i] \in Done -> c[i]
                       [] c[i] = "invalid" -> "blocked"
                       [] c[i] = "warning" -> IF i = Len(c) THEN "passed" ELSE "transient"
    BY <1>4 DEF Outcome, i
  <2> QED BY <2>3, <2>4 DEF Done, Kinds
<1> QED BY <1>3, <1>4

OnDisk ==
    /\ manifest \in Manifest
    /\ sidecars \in [Table -> SUBSET Saved]
    /\ cacheFile \in [Table -> Seq(Saved)]
    /\ version \in [Table -> Nat] /\ \A t \in Table : version[t] \in Version[t]
InMemory ==
    /\ mem \in Manifest
    /\ resume \in [Table -> Entry]
    /\ cache \in [Table -> Seq(Saved)]
Asked ==
    /\ ctx \in [Table -> Ctx \cup {None}]
    /\ phase \in Inspected => \A t \in Table : ctx[t] \in Ctx
Told ==
    /\ answer \in [Table -> Result \cup {None}]
    /\ \A t \in Table : at[t] \notin {"idle", "due"} => answer[t] \in Result
Paired ==
    /\ pair \in [Table -> Result \cup {None}]
    /\ phase \in Inspected =>
          \A t \in Table : (phase = "batch" /\ at[t] # "idle") \/ pair[t] \in Result
\* While a result is being journaled, the manifest on disk names it and is the one in memory.
Journaled == \A t \in Table :
    at[t] \in {"journaled", "placed"} => manifest = mem /\ mem.pending = Pending(t)

DataInv == OnDisk /\ InMemory /\ Asked /\ Told /\ Paired /\ Journaled

LEMMA NoManifestIs == NoManifest \in Manifest /\ NoManifest.published = None
BY NoEntryIs DEF NoManifest, Manifest

LEMMA DataBegin == Init => DataInv
<1> SUFFICES ASSUME Init PROVE DataInv
  OBVIOUS
<1>1. OnDisk
  <2>1. /\ manifest = NoManifest /\ sidecars = [t \in Table |-> {}] /\ cacheFile = EmptyCache
        /\ version = [t \in Table |-> Min(Version[t])]
    BY DEF Init
  <2>2. \A t \in Table : Min(Version[t]) \in Version[t] /\ Min(Version[t]) \in Nat
    <3> TAKE t \in Table
    <3>1. Version[t] \in SUBSET Nat /\ Version[t] # {}
      BY ConstantsAssumption
    <3> QED BY <3>1, EarliestOf
  <2> QED BY <2>1, <2>2, NoManifestIs DEF OnDisk, EmptyCache
<1>2. InMemory
  <2>1. mem = NoManifest /\ resume = [t \in Table |-> NoEntry] /\ cache = EmptyCache
    BY DEF Init
  <2> QED BY <2>1, NoManifestIs, NoEntryIs DEF InMemory, EmptyCache
<1>3. Asked /\ Told /\ Paired /\ Journaled
  <2>1. /\ phase = "off" /\ at = [t \in Table |-> "idle"] /\ ctx = [t \in Table |-> None]
        /\ answer = [t \in Table |-> None] /\ pair = [t \in Table |-> None]
    BY DEF Init
  <2> QED BY <2>1 DEF Asked, Told, Paired, Journaled, Inspected
<1> QED BY <1>1, <1>2, <1>3 DEF DataInv

LEMMA PendingIs ==
    ASSUME InMemory, NEW t \in Table, ctx[t] \in Ctx, answer[t] \in Result
    PROVE  Pending(t) \in Write
<1>1. mem.tables[t] \in Entry
  BY DEF InMemory, Manifest
<1>2. Processed(answer[t]) \in Result
  BY ResultIs
<1> DEFINE r == Processed(answer[t])
           e == Recorded(mem.tables[t], ctx[t], r)
<1>3. e \in Entry
  BY <1>1, <1>2, RecordedIs
<1>4. Pending(t) = [table |-> t, ctx |-> ctx[t], result |-> r, entry |-> e]
  BY DEF Pending
<1> HIDE DEF r, e
<1> QED BY <1>2, <1>3, <1>4 DEF Write, r

LEMMA PutIs ==
    ASSUME OnDisk, NEW t \in Table, NEW c \in Ctx, NEW r \in Result,
           sidecars' = [sidecars EXCEPT ![t] = Put(t, c, r)]
    PROVE  sidecars' \in [Table -> SUBSET Saved]
<1>1. Put(t, c, r) \in SUBSET Saved
  BY DEF Put, OnDisk, Saved
<1> QED BY <1>1 DEF OnDisk

\* What the thread that journals has at hand.
LEMMA AtHand ==
    ASSUME StagesInv, DataInv, NEW t \in Table, at[t] \notin {"idle", "due"}, phase \in {"batch", "finalize"}
    PROVE  /\ ctx[t] \in Ctx /\ answer[t] \in Result
           /\ Pending(t) \in Write /\ Pending(t).table = t /\ Pending(t).ctx = ctx[t]
<1>1. ctx[t] \in Ctx /\ answer[t] \in Result
  BY DEF DataInv, Asked, Told, Inspected
<1>2. Pending(t) \in Write
  BY <1>1, PendingIs DEF DataInv
<1> QED BY <1>1, <1>2 DEF Pending

LEMMA AtWork ==
    ASSUME StagesInv, NEW t \in Table, at[t] \in {"due", "told", "journaled", "placed"}
    PROVE  phase \in {"batch", "finalize"}
BY DEF StagesInv, Resting

\* A kill leaves the files as they are.
LEMMA MemoryGone == Gone => InMemory' /\ Asked' /\ Told' /\ Paired'
<1> SUFFICES ASSUME Gone PROVE InMemory' /\ Asked' /\ Told' /\ Paired'
  OBVIOUS
<1>1. InMemory'
  <2>1. mem' = NoManifest /\ resume' = [t \in Table |-> NoEntry] /\ cache' = EmptyCache
    BY DEF Gone
  <2> QED BY <2>1, NoManifestIs, NoEntryIs DEF InMemory, EmptyCache
<1>2. Asked' /\ Told' /\ Paired'
  BY DEF Gone, Asked, Told, Paired, Inspected
<1> QED BY <1>1, <1>2

LEMMA DiskNext == StagesInv /\ DataInv /\ [Next]_vars => OnDisk'
<1> SUFFICES ASSUME StagesInv, DataInv, [Next]_vars PROVE OnDisk'
  OBVIOUS
<1>0. OnDisk /\ InMemory
  BY DEF DataInv
<1>1. ASSUME UNCHANGED <<manifest, sidecars, cacheFile, version>> PROVE OnDisk'
  BY <1>0, <1>1 DEF OnDisk
<1>2. ASSUME UNCHANGED <<sidecars, cacheFile, version>>, manifest' \in Manifest PROVE OnDisk'
  BY <1>0, <1>2 DEF OnDisk
<1>3. ASSUME UNCHANGED <<manifest, sidecars, version>>, cacheFile' \in [Table -> Seq(Saved)] PROVE OnDisk'
  BY <1>0, <1>3 DEF OnDisk
<1>4. CASE \E noCache \in BOOLEAN : Start(noCache)
  BY <1>1, <1>4 DEF Start, disk
<1>5. CASE Recover
  <2>1. CASE manifest.pending = None
    BY <1>1, <1>5, <2>1 DEF Recover, world
  <2>2. CASE manifest.pending # None
    <3> DEFINE w == manifest.pending
    <3>1. w \in Write
      BY <1>0, <2>2 DEF OnDisk, Manifest
    <3>2. /\ w.table \in Table /\ w.ctx \in Ctx /\ w.result \in Result /\ w.entry \in Entry
      BY <3>1 DEF Write
    <3>3. /\ sidecars' = [sidecars EXCEPT ![w.table] = Put(w.table, w.ctx, w.result)]
          /\ manifest' = [manifest EXCEPT !.tables[w.table] = w.entry, !.pending = None]
      BY <1>5, <2>2 DEF Recover
    <3>4. UNCHANGED <<cacheFile, version>>
      BY <1>5 DEF Recover, world
    <3> HIDE DEF w
    <3>5. sidecars' \in [Table -> SUBSET Saved]
      BY <1>0, <3>2, <3>3, PutIs
    <3>6. manifest' \in Manifest
      BY <1>0, <3>2, <3>3 DEF OnDisk, Manifest
    <3> QED BY <1>0, <3>4, <3>5, <3>6 DEF OnDisk
  <2> QED BY <2>1, <2>2
<1>6. CASE Prune
  <2>1. sidecars' \in [Table -> SUBSET Saved]
    BY <1>0, <1>6 DEF Prune, OnDisk
  <2> QED BY <1>0, <1>6, <2>1 DEF Prune, OnDisk, world
<1>7. CASE Announce
  BY <1>0, <1>2, <1>7 DEF Announce, world, InMemory
<1>8. CASE OpenInspector
  <2>1. cacheFile' \in [Table -> Seq(Saved)]
    <3>1. \A t \in Table : Purged(t, cacheFile[t]) \in Seq(Saved)
      BY <1>0, PurgedIs DEF OnDisk
    <3> QED BY <1>8, <3>1 DEF OpenInspector, EmptyCache
  <2> QED BY <1>3, <1>8, <2>1 DEF OpenInspector, world
<1>9. ASSUME NEW t \in Table, Inspecting(t) PROVE OnDisk'
  <2>1. CASE Restore(t) \/ Skip(t)
    BY <1>1, <2>1 DEF Restore, Skip, disk, world
  <2>2. CASE Ask(t)
    <3>1. PICK replies \in Conversations(t), metric \in BOOLEAN :
            LET r == [ctx |-> ctx[t], kind |-> Outcome(replies), metric |-> metric, final |-> FALSE] IN
            /\ cache' = IF Cacheable(r) THEN [cache EXCEPT ![t] = Cached(@, ctx[t], r)] ELSE cache
            /\ cacheFile' = IF Cacheable(r) THEN cache' ELSE cacheFile
      BY <2>2 DEF Ask
    <3> DEFINE r == [ctx |-> ctx[t], kind |-> Outcome(replies), metric |-> metric, final |-> FALSE]
    <3>2. ctx[t] \in Ctx /\ cache[t] \in Seq(Saved)
      BY <1>0, <2>2 DEF Ask, DataInv, Asked, Inspected, InMemory
    <3>3. r \in Result
      BY <3>2, OutcomeIs DEF Result
    <3> HIDE DEF r
    <3>4. Cached(cache[t], ctx[t], r) \in Seq(Saved)
      BY <3>2, <3>3, CachedIs
    <3>5. cacheFile' \in [Table -> Seq(Saved)]
      BY <1>0, <3>1, <3>4 DEF OnDisk, InMemory, r
    <3> QED BY <1>3, <2>2, <3>5 DEF Ask, world
  <2> QED BY <1>9, <2>1, <2>2 DEF Inspecting
<1>10. ASSUME NEW t \in Table, Journaling(t) PROVE OnDisk'
  <2>0. at[t] \in {"told", "journaled", "placed"}
    BY <1>10 DEF Journaling, Journal, Place, Commit, WriteFails
  <2>1. /\ ctx[t] \in Ctx /\ answer[t] \in Result /\ Pending(t) \in Write
        /\ at[t] \in {"journaled", "placed"} => mem.pending = Pending(t)
    BY <2>0, AtWork, AtHand DEF DataInv, Journaled
  <2>2. CASE Journal(t)
    <3>1. manifest' \in Manifest
      BY <1>0, <2>1, <2>2 DEF Journal, InMemory, Manifest
    <3> QED BY <1>2, <2>2, <3>1 DEF Journal, world
  <2>3. CASE Place(t)
    <3>1. mem.pending \in Write
      BY <2>1, <2>3 DEF Place
    <3>2. mem.pending.ctx \in Ctx /\ mem.pending.result \in Result
      BY <3>1 DEF Write
    <3>3. sidecars' = [sidecars EXCEPT ![t] = Put(t, mem.pending.ctx, mem.pending.result)]
      BY <2>3 DEF Place
    <3>4. sidecars' \in [Table -> SUBSET Saved]
      BY <1>0, <3>2, <3>3, PutIs
    <3> QED BY <1>0, <2>3, <3>4 DEF Place, OnDisk, world
  <2>4. CASE Commit(t)
    <3>1. mem.pending \in Write
      BY <2>1, <2>4 DEF Commit
    <3>2. mem.pending.entry \in Entry
      BY <3>1 DEF Write
    <3>3. manifest' \in Manifest
      BY <1>0, <3>2, <2>4 DEF Commit, InMemory, Manifest
    <3> QED BY <1>2, <2>4, <3>3 DEF Commit, world
  <2>5. CASE WriteFails(t)
    BY <1>1, <2>5 DEF WriteFails, disk, world
  <2> QED BY <1>10, <2>2, <2>3, <2>4, <2>5 DEF Journaling
<1>11. CASE \E t \in Table : Finalize(t)
  BY <1>1, <1>11 DEF Finalize, disk, world
<1>12. CASE Report
  <2>1. manifest' \in Manifest /\ cacheFile' \in [Table -> Seq(Saved)]
    BY <1>0, <1>12 DEF Report, InMemory
  <2> QED BY <1>0, <1>12, <2>1 DEF Report, OnDisk, world
<1>13. CASE EndBatch \/ Validate \/ PublishFails \/ Interrupt \/ Leave
  BY <1>1, <1>13 DEF EndBatch, Validate, PublishFails, Interrupt, Leave, disk, world
<1>14. CASE \E f \in File : MoveAway(f) \/ MoveIn(f) \/ PutBack(f)
  BY <1>1, <1>14 DEF MoveAway, MoveIn, PutBack, world
<1>15. CASE Finish
  <2>1. manifest' = [tables |-> [t \in Table |-> IF t \in bad THEN RejectedEntry(mem.tables[t])
                                                ELSE mem.tables[t]],
                     pending |-> mem.pending,
                     published |-> IF phase = "finish" THEN runs ELSE None]
    BY <1>15 DEF Finish
  <2>2. \A t \in Table : RejectedEntry(mem.tables[t]) \in Entry /\ mem.tables[t] \in Entry
    <3>1. \A t \in Table : mem.tables[t] \in Entry
      BY <1>0 DEF InMemory, Manifest
    <3> QED BY <3>1, RejectedIs
  <2>3. mem.pending \in Write \cup {None} /\ runs \in Nat
    BY <1>0 DEF InMemory, Manifest, StagesInv, Where
  <2>4. manifest' \in Manifest
    BY <2>1, <2>2, <2>3 DEF Manifest
  <2> QED BY <1>2, <1>15, <2>4 DEF Finish, world
<1>16. CASE Die
  <2>1. cacheFile' \in [Table -> Seq(Saved)]
    <3>1. EmptyCache \in [Table -> Seq(Saved)]
      BY EmptyIs DEF EmptyCache
    <3>2. cacheFile' = cacheFile \/ cacheFile' = EmptyCache
      BY <1>16 DEF Die
    <3> QED BY <1>0, <3>1, <3>2 DEF OnDisk
  <2> QED BY <1>3, <1>16, <2>1 DEF Die, world
<1>17. CASE \E t \in Table : Edit(t)
  <2>1. PICK t \in Table : \E v \in Version[t] : version' = [version EXCEPT ![t] = v]
    BY <1>17 DEF Edit
  <2>2. PICK v \in Version[t] : version' = [version EXCEPT ![t] = v]
    BY <2>1
  <2>3. v \in Nat
    BY ConstantsAssumption
  <2> QED BY <1>0, <1>17, <2>2, <2>3 DEF Edit, OnDisk, disk
<1>18. CASE UNCHANGED vars
  BY <1>1, <1>18 DEF vars, disk, world
<1> QED
  BY <1>4, <1>5, <1>6, <1>7, <1>8, <1>9, <1>10, <1>11, <1>12, <1>13, <1>14, <1>15, <1>16, <1>17, <1>18
  DEF Next, Working, Opening

LEMMA MemoryNext == StagesInv /\ DataInv /\ [Next]_vars => InMemory'
<1> SUFFICES ASSUME StagesInv, DataInv, [Next]_vars PROVE InMemory'
  OBVIOUS
<1>0. OnDisk /\ InMemory
  BY DEF DataInv
<1>1. ASSUME UNCHANGED <<mem, resume, cache>> PROVE InMemory'
  BY <1>0, <1>1 DEF InMemory
<1>2. ASSUME UNCHANGED <<resume, cache>>, mem' \in Manifest PROVE InMemory'
  BY <1>0, <1>2 DEF InMemory
<1>3. ASSUME UNCHANGED <<mem, resume>>, cache' \in [Table -> Seq(Saved)] PROVE InMemory'
  BY <1>0, <1>3 DEF InMemory
<1>4. CASE \E noCache \in BOOLEAN : Start(noCache)
  BY <1>1, <1>4 DEF Start
<1>5. CASE Recover \/ Announce
  BY <1>1, <1>5 DEF Recover, Announce, loaded
<1>6. CASE Prune
  <2> DEFINE tables == IF fresh THEN NoManifest.tables
                       ELSE [t \in Table |-> Prepared(t, manifest.tables[t])]
  <2>1. /\ mem' = [tables |-> tables, pending |-> None, published |-> None]
        /\ resume' = tables /\ cache' = cache
    BY <1>6 DEF Prune
  <2>2. tables \in [Table -> Entry]
    <3>1. \A t \in Table : manifest.tables[t] \in Entry
      BY <1>0 DEF OnDisk, Manifest
    <3>2. \A t \in Table : Prepared(t, manifest.tables[t]) \in Entry
      BY <3>1, PreparedIs
    <3> QED BY <3>2, NoEntryIs DEF NoManifest
  <2> HIDE DEF tables
  <2> QED BY <1>0, <2>1, <2>2 DEF InMemory, Manifest
<1>7. CASE OpenInspector
  <2>1. \A t \in Table : Purged(t, cacheFile[t]) \in Seq(Saved)
    BY <1>0, PurgedIs DEF OnDisk
  <2>2. cache' \in [Table -> Seq(Saved)]
    <3>1. EmptyCache \in [Table -> Seq(Saved)]
      BY EmptyIs DEF EmptyCache
    <3> QED BY <1>7, <2>1, <3>1 DEF OpenInspector
  <2> QED BY <1>3, <1>7, <2>2 DEF OpenInspector
<1>8. ASSUME NEW t \in Table, Inspecting(t) PROVE InMemory'
  <2>1. CASE Restore(t) \/ Skip(t)
    BY <1>1, <2>1 DEF Restore, Skip, loaded
  <2>2. CASE Ask(t)
    <3>1. PICK replies \in Conversations(t), metric \in BOOLEAN :
            LET r == [ctx |-> ctx[t], kind |-> Outcome(replies), metric |-> metric, final |-> FALSE] IN
            cache' = IF Cacheable(r) THEN [cache EXCEPT ![t] = Cached(@, ctx[t], r)] ELSE cache
      BY <2>2 DEF Ask
    <3> DEFINE r == [ctx |-> ctx[t], kind |-> Outcome(replies), metric |-> metric, final |-> FALSE]
    <3>2. ctx[t] \in Ctx /\ cache[t] \in Seq(Saved)
      BY <1>0, <2>2 DEF Ask, DataInv, Asked, Inspected, InMemory
    <3>3. r \in Result
      BY <3>2, OutcomeIs DEF Result
    <3> HIDE DEF r
    <3>4. Cached(cache[t], ctx[t], r) \in Seq(Saved)
      BY <3>2, <3>3, CachedIs
    <3>5. cache' \in [Table -> Seq(Saved)]
      BY <1>0, <3>1, <3>4 DEF InMemory, r
    <3> QED BY <1>3, <2>2, <3>5 DEF Ask
  <2> QED BY <1>8, <2>1, <2>2 DEF Inspecting
<1>9. ASSUME NEW t \in Table, Journaling(t) PROVE InMemory'
  <2>0. at[t] \in {"told", "journaled", "placed"}
    BY <1>9 DEF Journaling, Journal, Place, Commit, WriteFails
  <2>1. /\ Pending(t) \in Write
        /\ at[t] \in {"journaled", "placed"} => mem.pending = Pending(t)
    BY <2>0, AtWork, AtHand DEF DataInv, Journaled
  <2>2. CASE Journal(t)
    <3>1. mem' \in Manifest
      BY <1>0, <2>1, <2>2 DEF Journal, InMemory, Manifest
    <3> QED BY <1>2, <2>2, <3>1 DEF Journal
  <2>3. CASE Place(t)
    BY <1>1, <2>3 DEF Place, loaded
  <2>4. ASSUME at[t] = "placed",
               mem' = [mem EXCEPT !.tables[t] = mem.pending.entry, !.pending = None]
        PROVE  mem' \in Manifest
    <3>1. mem.pending \in Write
      BY <2>1, <2>4
    <3>2. mem.pending.entry \in Entry
      BY <3>1 DEF Write
    <3> QED BY <1>0, <3>2, <2>4 DEF InMemory, Manifest
  <2>5. CASE Commit(t)
    BY <1>2, <2>4, <2>5 DEF Commit
  <2>6. CASE WriteFails(t)
    <3>1. [mem EXCEPT !.pending = None] \in Manifest
      BY <1>0 DEF InMemory, Manifest
    <3>2. mem' \in Manifest
      BY <1>0, <2>4, <2>6, <3>1 DEF WriteFails, InMemory
    <3> QED BY <1>2, <2>6, <3>2 DEF WriteFails
  <2> QED BY <1>9, <2>2, <2>3, <2>5, <2>6 DEF Journaling
<1>10. ASSUME NEW t \in Table, Finalize(t) PROVE InMemory'
  <2>1. ctx[t] \in Ctx /\ cache[t] \in Seq(Saved) /\ pair[t] \in Result
    BY <1>0, <1>10 DEF Finalize, DataInv, Asked, Inspected, InMemory, Paired
  <2>2. Cached(cache[t], ctx[t], pair[t]) \in Seq(Saved)
    BY <2>1, CachedIs
  <2>3. cache' \in [Table -> Seq(Saved)]
    BY <1>0, <1>10, <2>2 DEF InMemory, Finalize
  <2> QED BY <1>3, <1>10, <2>3 DEF Finalize
<1>11. CASE EndBatch \/ Report \/ Validate \/ PublishFails \/ Interrupt
  BY <1>1, <1>11 DEF EndBatch, Report, Validate, PublishFails, Interrupt, loaded
<1>12. CASE \E f \in File : MoveAway(f) \/ MoveIn(f) \/ PutBack(f)
  BY <1>1, <1>12 DEF MoveAway, MoveIn, PutBack, loaded
<1>13. CASE Finish \/ Leave \/ Die
  BY <1>13, MemoryGone DEF Finish, Leave, Die
<1>14. CASE \E t \in Table : Edit(t)
  BY <1>1, <1>14 DEF Edit, loaded
<1>15. CASE UNCHANGED vars
  BY <1>1, <1>15 DEF vars, loaded
<1> QED
  BY <1>4, <1>5, <1>6, <1>7, <1>8, <1>9, <1>10, <1>11, <1>12, <1>13, <1>14, <1>15
  DEF Next, Working, Opening

LEMMA ContextsNext == StagesInv /\ DataInv /\ [Next]_vars => Asked' /\ Told'
<1> SUFFICES ASSUME StagesInv, DataInv, [Next]_vars PROVE Asked' /\ Told'
  OBVIOUS
<1>0. OnDisk /\ InMemory /\ Asked /\ Told /\ Paired /\ at \in [Table -> Stage]
  BY DEF DataInv, StagesInv, Where
<1>1. ASSUME ctx' = ctx, phase' \in Inspected => phase \in Inspected PROVE Asked'
  BY <1>0, <1>1 DEF Asked
<1>2. ASSUME answer' = answer, \A t \in Table : at'[t] \notin {"idle", "due"} => at[t] \notin {"idle", "due"}
      PROVE  Told'
  BY <1>0, <1>2 DEF Told
<1>3. CASE \E noCache \in BOOLEAN : Start(noCache)
  BY <1>1, <1>2, <1>3 DEF Start, pipeline, Inspected
<1>4. CASE Recover \/ Prune \/ Announce
  BY <1>1, <1>2, <1>4 DEF Recover, Prune, Announce, pipeline, Inspected
<1>5. CASE OpenInspector
  <2>1. \A t \in Table : [ver |-> version[t], seen |-> {}] \in Ctx
    BY <1>0 DEF OnDisk, Ctx
  <2>2. Asked'
    BY <1>5, <2>1 DEF OpenInspector, Asked
  <2> QED BY <1>2, <1>5, <2>2 DEF OpenInspector
<1>6. ASSUME NEW t \in Table, NEW r \in Result, NEW from, Answered(t, r, from), UNCHANGED <<ctx, phase>>
      PROVE  Asked' /\ Told'
  <2>1. Told'
    BY <1>0, <1>6 DEF Answered, Told
  <2> QED BY <1>1, <1>6, <2>1
<1>7. ASSUME NEW t \in Table, Inspecting(t) PROVE Asked' /\ Told'
  <2>1. CASE Skip(t)
    <3>1. \A u \in Table : at'[u] \notin {"idle", "due"} => at[u] \notin {"idle", "due"}
      BY <1>0, <2>1 DEF Skip
    <3> QED BY <1>1, <1>2, <2>1, <3>1 DEF Skip
  <2>2. CASE Restore(t)
    <3>1. CASE FromCheckpoint(t) /\ Answered(t, At(resume[t].variants, ctx[t]).result, "checkpoint")
      <4>1. resume[t].variants \in Seq(Variant) /\ Has(resume[t].variants, ctx[t])
        BY <1>0, <3>1 DEF FromCheckpoint, InMemory, Entry
      <4>2. PICK i \in DOMAIN resume[t].variants : At(resume[t].variants, ctx[t]) = resume[t].variants[i]
        BY <4>1 DEF At, Has
      <4>3. At(resume[t].variants, ctx[t]) \in Variant
        BY <4>1, <4>2
      <4>4. At(resume[t].variants, ctx[t]).result \in Result
        BY <4>3 DEF Variant
      <4> QED BY <1>6, <2>2, <3>1, <4>4 DEF Restore
    <3>2. CASE FromCache(t) /\ Answered(t, At(cache[t], ctx[t]).result, "cache")
      <4>1. cache[t] \in Seq(Saved) /\ Has(cache[t], ctx[t])
        BY <1>0, <3>2 DEF FromCache, InMemory
      <4>2. PICK i \in DOMAIN cache[t] : At(cache[t], ctx[t]) = cache[t][i]
        BY <4>1 DEF At, Has
      <4>3. At(cache[t], ctx[t]) \in Saved
        BY <4>1, <4>2
      <4>4. At(cache[t], ctx[t]).result \in Result
        BY <4>3 DEF Saved
      <4> QED BY <1>6, <2>2, <3>2, <4>4 DEF Restore
    <3> QED BY <2>2, <3>1, <3>2 DEF Restore
  <2>3. CASE Ask(t)
    <3>1. PICK replies \in Conversations(t), metric \in BOOLEAN :
            Answered(t, [ctx |-> ctx[t], kind |-> Outcome(replies), metric |-> metric, final |-> FALSE], "model")
      BY <2>3 DEF Ask
    <3>2. ctx[t] \in Ctx
      BY <1>0, <2>3 DEF Ask, Asked, Inspected
    <3>3. [ctx |-> ctx[t], kind |-> Outcome(replies), metric |-> metric, final |-> FALSE] \in Result
      BY <3>2, OutcomeIs DEF Result
    <3> QED BY <1>6, <2>3, <3>1, <3>3 DEF Ask
  <2> QED BY <1>7, <2>1, <2>2, <2>3 DEF Inspecting
<1>8. ASSUME NEW t \in Table, Journaling(t) PROVE Asked' /\ Told'
  <2>1. at[t] \notin {"idle", "due"}
    BY <1>8 DEF Journaling, Journal, Place, Commit, WriteFails
  <2>2. UNCHANGED <<ctx, phase, answer>> /\ \A u \in Table \ {t} : at'[u] = at[u]
    BY <1>0, <1>8 DEF Journaling, Journal, Place, Commit, WriteFails
  <2> QED BY <1>1, <1>2, <2>1, <2>2
<1>9. ASSUME NEW t \in Table, Finalize(t) PROVE Asked' /\ Told'
  <2>1. pair[t] \in Result
    BY <1>0, <1>9 DEF Finalize, Paired, Inspected
  <2>2. Told'
    BY <1>0, <1>9, <2>1 DEF Finalize, Told
  <2> QED BY <1>1, <1>9, <2>2 DEF Finalize
<1>10. CASE EndBatch
  <2>1. PICK pairs \in Promotions : Propagate(pairs) \/ Settle(pairs)
    BY <1>10 DEF EndBatch
  <2>2. ctx' = Injected(pairs) /\ answer' = answer /\ \A t \in Table : at'[t] \in {"idle", "due"}
    BY <1>10, <2>1 DEF EndBatch, Propagate, Settle
  <2>3. \A t \in Table : ctx[t] \in Ctx
    BY <1>0, <1>10 DEF EndBatch, BatchOver, Asked, Inspected
  <2>4. \A t \in Table : Injected(pairs)[t] \in Ctx
    <3> TAKE t \in Table
    <3>1. Upstream[t] \subseteq Table
      BY ConstantsAssumption
    <3>2. Injected(pairs)[t] = [ctx[t] EXCEPT !.seen = @ \cup (Upstream[t] \cap Detected(pairs))]
      BY DEF Injected
    <3> QED BY <2>3, <3>1, <3>2 DEF Ctx
  <2>5. Asked'
    BY <2>2, <2>4 DEF Asked, Injected
  <2> QED BY <1>2, <2>2, <2>5
<1>11. CASE Report \/ Validate \/ PublishFails \/ Interrupt
  BY <1>1, <1>2, <1>11 DEF Report, Validate, PublishFails, Interrupt, pipeline, Inspected
<1>12. CASE \E f \in File : MoveAway(f) \/ MoveIn(f) \/ PutBack(f)
  BY <1>1, <1>2, <1>12 DEF MoveAway, MoveIn, PutBack, pipeline, Inspected
<1>13. CASE Finish \/ Leave \/ Die
  BY <1>13, MemoryGone DEF Finish, Leave, Die
<1>14. CASE \E t \in Table : Edit(t)
  BY <1>1, <1>2, <1>14 DEF Edit, pipeline
<1>15. CASE UNCHANGED vars
  BY <1>1, <1>2, <1>15 DEF vars, pipeline
<1> QED
  BY <1>3, <1>4, <1>5, <1>7, <1>8, <1>9, <1>10, <1>11, <1>12, <1>13, <1>14, <1>15
  DEF Next, Working, Opening

\* What altering and marking a result may make of it.
LEMMA AlteredIs ==
    ASSUME NEW r \in Result, NEW c, NEW a \in Altered(r, c)
    PROVE  /\ a \in Result /\ a.ctx = r.ctx /\ a.kind \in {"transient", "blocked"}
           /\ a.kind = "transient" => r.ctx = c
<1>1. PICK k : a = [r EXCEPT !.kind = k] /\ k \in {"transient", "blocked"} /\ (k = "transient" => r.ctx = c)
  BY DEF Altered
<1> QED BY <1>1 DEF Result, Kinds

LEMMA MarkedIs ==
    ASSUME NEW r \in Result
    PROVE  Marked(r) \in Result /\ Marked(r).kind \in {"blocked", "failed"}
<1>1. Marked(r) = [r EXCEPT !.kind = IF r.kind = "failed" THEN r.kind ELSE "blocked"]
  BY DEF Marked
<1> QED BY <1>1 DEF Result, Kinds

\* After a batch every table has a result: the merged one, but perhaps judged
\* again when it was made for the context the table has, and perhaps promoted.
LEMMA PromotedIs ==
    ASSUME DataInv, BatchOver, NEW pairs \in Promotions, NEW t \in Table
    PROVE  /\ pairs[t] \in Result
           /\ pairs[t].ctx = Pairs[t].ctx
           /\ \/ pairs[t].kind \in {Pairs[t].kind, "blocked"}
              \/ Pairs[t].ctx = ctx[t]
              \/ t \in InBatch /\ Pairs[t] = answer[t]
           /\ t \in InBatch => pair[t] \in Result \cup {None} /\ answer[t] \in Result
                               /\ Pairs[t] = Merged(pair[t], answer[t])
           /\ t \notin InBatch => pair[t] \in Result /\ Pairs[t] = pair[t]
<1> DEFINE May(u) == {Pairs[u]} \cup Rejudged(u) \cup
                     (IF u \in Evidenced(Pairs) THEN Promoted(Pairs[u], ctx[u]) ELSE {})
<1>1. \A u \in Table : pair[u] \in Result \cup {None} /\ (u \notin InBatch => pair[u] \in Result)
  BY DEF BatchOver, InBatch, DataInv, Paired, Inspected
<1>2. \A u \in Table : u \in InBatch => answer[u] \in Result
  BY DEF BatchOver, InBatch, DataInv, Told
<1>3. \A u \in Table : Pairs[u] = IF u \in InBatch THEN Merged(pair[u], answer[u]) ELSE pair[u]
  BY DEF Pairs
<1>4. ASSUME NEW u \in Table PROVE Pairs[u] \in Result
  BY <1>1, <1>2, <1>3, MarkedIs DEF Merged
<1>5. \A u \in Table : pairs[u] \in May(u)
  <2>1. pairs \in Selections([u \in Table |-> May(u)])
    BY DEF Promotions
  <2> HIDE DEF May
  <2> QED BY <2>1 DEF Selections
<1>6. ASSUME NEW u \in Table
      PROVE  /\ pairs[u] \in Result /\ pairs[u].ctx = Pairs[u].ctx
             /\ \/ pairs[u].kind \in {Pairs[u].kind, "blocked"}
                \/ Pairs[u].ctx = ctx[u]
                \/ u \in InBatch /\ Pairs[u] = answer[u]
  <2>1. CASE pairs[u] = Pairs[u]
    BY <1>4, <2>1
  <2>2. CASE pairs[u] \in Rejudged(u)
    <3>1. PICK k \in {"passed", "blocked"} : pairs[u] = [Pairs[u] EXCEPT !.kind = k]
      BY <2>2 DEF Rejudged
    <3>2. u \in InBatch /\ pair[u] # None /\ answer[u].kind # "failed"
      BY <2>2 DEF Rejudged
    <3>3. Pairs[u] = answer[u]
      BY <1>3, <3>2 DEF Merged
    <3> QED BY <1>4, <3>1, <3>2, <3>3 DEF Result, Kinds
  <2>3. CASE pairs[u] \in Promoted(Pairs[u], ctx[u])
    <3>1. PICK a \in Altered(Pairs[u], ctx[u]) : pairs[u] = [a EXCEPT !.metric = TRUE]
      BY <2>3 DEF Promoted
    <3>2. /\ a \in Result /\ a.ctx = Pairs[u].ctx /\ a.kind \in {"transient", "blocked"}
          /\ a.kind = "transient" => Pairs[u].ctx = ctx[u]
      BY <1>4, AlteredIs
    <3> QED BY <3>1, <3>2 DEF Result
  <2> QED BY <1>5, <2>1, <2>2, <2>3
<1> QED BY <1>1, <1>2, <1>3, <1>6

LEMMA PromotedTyped ==
    ASSUME DataInv, BatchOver, NEW pairs \in Promotions
    PROVE  pairs \in [Table -> Result]
<1>1. \A t \in Table : pairs[t] \in Result
  BY PromotedIs
<1>2. \E S : pairs \in [Table -> S]
  BY DEF Promotions, Selections
<1> QED BY <1>1, <1>2

\* What the pipeline ends with: results as they were, marked where propagation
\* did not converge, and perhaps altered by enrichment.
LEMMA SettleIs ==
    ASSUME NEW pairs \in [Table -> Result], Settle(pairs)
    PROVE  /\ pair' \in [Table -> Result]
           /\ \A t \in Table :
                /\ pair'[t].ctx = pairs[t].ctx
                /\ pair'[t].kind \in {pairs[t].kind, "blocked", "failed", "transient"}
                /\ t \in Changed(pairs) => pair'[t].kind \in {"blocked", "failed", "transient"}
                /\ t \in Changed(pairs) /\ pair'[t].kind = "transient" => pair'[t].ctx = ctx'[t]
                /\ pair'[t].kind = "transient" => pairs[t].kind = "transient" \/ pair'[t].ctx = ctx'[t]
<1> DEFINE May(t) == {Ended(pairs)[t]} \cup
                     (IF t \in Enriched THEN Altered(Ended(pairs)[t], Injected(pairs)[t]) ELSE {})
<1>1. ctx' = Injected(pairs) /\ pair' \in Selections([t \in Table |-> May(t)])
  BY DEF Settle
<1>2. ASSUME NEW t \in Table
      PROVE  /\ Ended(pairs)[t] \in Result /\ Ended(pairs)[t].ctx = pairs[t].ctx
             /\ Ended(pairs)[t].kind \in {pairs[t].kind, "blocked", "failed"}
             /\ t \in Changed(pairs) => Ended(pairs)[t].kind \in {"blocked", "failed"}
  <2>1. Marked(pairs[t]) \in Result /\ Marked(pairs[t]).kind \in {"blocked", "failed"}
        /\ Marked(pairs[t]).ctx = pairs[t].ctx
    BY MarkedIs DEF Marked, Result
  <2>2. Ended(pairs)[t] = [IF t \in Changed(pairs) THEN Marked(pairs[t]) ELSE pairs[t] EXCEPT !.final = TRUE]
    BY DEF Ended
  <2> QED BY <2>1, <2>2 DEF Result
<1>3. PICK f \in [Table -> UNION {[x \in Table |-> May(x)][t] : t \in Table}] : pair' = f
  BY <1>1 DEF Selections
<1>4. \A t \in Table : pair'[t] \in May(t)
  <2> HIDE DEF May
  <2> QED BY <1>1 DEF Selections
<1>5. ASSUME NEW t \in Table
      PROVE  /\ pair'[t] \in Result /\ pair'[t].ctx = pairs[t].ctx
             /\ \/ pair'[t] = Ended(pairs)[t]
                \/ /\ pair'[t].kind \in {"transient", "blocked"}
                   /\ pair'[t].kind = "transient" => pair'[t].ctx = ctx'[t]
  <2>1. CASE pair'[t] = Ended(pairs)[t]
    BY <1>2, <2>1
  <2>2. CASE pair'[t] \in Altered(Ended(pairs)[t], Injected(pairs)[t])
    BY <1>1, <1>2, <2>2, AlteredIs
  <2> QED BY <1>4, <2>1, <2>2
<1>6. pair' \in [Table -> Result]
  BY <1>3, <1>5
<1> QED BY <1>2, <1>5, <1>6

LEMMA PairedNext == StagesInv /\ DataInv /\ [Next]_vars => Paired'
<1> SUFFICES ASSUME StagesInv, DataInv, [Next]_vars PROVE Paired'
  OBVIOUS
<1>0. Paired /\ at \in [Table -> Stage]
  BY DEF DataInv, StagesInv, Where
<1>1. ASSUME pair' = pair,
             phase' \in Inspected =>
                /\ phase \in Inspected
                /\ \A t \in Table : phase = "batch" /\ at[t] # "idle" => phase' = "batch" /\ at'[t] # "idle"
      PROVE  Paired'
  BY <1>0, <1>1 DEF Paired
<1>2. CASE \E noCache \in BOOLEAN : Start(noCache)
  BY <1>1, <1>2 DEF Start, pipeline, Inspected
<1>3. CASE Recover \/ Prune \/ Announce
  BY <1>1, <1>3 DEF Recover, Prune, Announce, pipeline, Inspected
<1>4. CASE OpenInspector
  BY <1>0, <1>4 DEF OpenInspector, Paired
<1>5. ASSUME NEW t \in Table, NEW a \in Stage \ {"idle"}, at' = [at EXCEPT ![t] = a], UNCHANGED <<pair, phase>>
      PROVE  Paired'
  BY <1>0, <1>1, <1>5
<1>6. ASSUME NEW t \in Table, Inspecting(t) \/ Journaling(t) \/ Finalize(t) PROVE Paired'
  <2>1. UNCHANGED <<pair, phase>>
    BY <1>6 DEF Inspecting, Restore, Ask, Skip, Journaling, Journal, Place, Commit, WriteFails, Finalize
  <2>2. \E a \in Stage \ {"idle"} : at' = [at EXCEPT ![t] = a]
    <3>1. CASE Inspecting(t)
      BY <3>1 DEF Inspecting, Restore, Ask, Skip, Answered, Stage
    <3>2. CASE Journaling(t)
      BY <3>2 DEF Journaling, Journal, Place, Commit, WriteFails, Stage
    <3>3. CASE Finalize(t)
      BY <3>3 DEF Finalize, Stage
    <3> QED BY <1>6, <3>1, <3>2, <3>3
  <2> QED BY <1>5, <2>1, <2>2
<1>7. CASE EndBatch
  <2>1. PICK pairs \in Promotions : Propagate(pairs) \/ Settle(pairs)
    BY <1>7 DEF EndBatch
  <2>2. pairs \in [Table -> Result]
    BY <1>7, PromotedTyped DEF EndBatch
  <2>3. CASE Propagate(pairs)
    BY <2>2, <2>3 DEF Propagate, Paired
  <2>4. CASE Settle(pairs)
    BY <2>2, <2>4, SettleIs DEF Paired
  <2> QED BY <2>1, <2>3, <2>4
<1>8. CASE Report \/ Validate \/ PublishFails \/ Interrupt
  BY <1>1, <1>8 DEF Report, Validate, PublishFails, Interrupt, pipeline, Inspected
<1>9. CASE \E f \in File : MoveAway(f) \/ MoveIn(f) \/ PutBack(f)
  BY <1>1, <1>9 DEF MoveAway, MoveIn, PutBack, pipeline, Inspected
<1>10. CASE Finish \/ Leave \/ Die
  BY <1>10, MemoryGone DEF Finish, Leave, Die
<1>11. CASE \E t \in Table : Edit(t)
  BY <1>1, <1>11 DEF Edit, pipeline
<1>12. CASE UNCHANGED vars
  BY <1>1, <1>12 DEF vars, pipeline
<1> QED
  BY <1>2, <1>3, <1>4, <1>6, <1>7, <1>8, <1>9, <1>10, <1>11, <1>12
  DEF Next, Working, Opening

LEMMA JournaledNext == StagesInv /\ DataInv /\ [Next]_vars => Journaled'
<1> SUFFICES ASSUME StagesInv, DataInv, [Next]_vars PROVE Journaled'
  OBVIOUS
<1>0. Journaled /\ at \in [Table -> Stage]
  BY DEF DataInv, StagesInv, Where
<1>1. ASSUME UNCHANGED <<mem, manifest, ctx>>,
             \A t \in Table : at'[t] \in {"journaled", "placed"} =>
                                 at[t] \in {"journaled", "placed"} /\ answer'[t] = answer[t]
      PROVE  Journaled'
  BY <1>0, <1>1 DEF Journaled, Pending
<1>2. ASSUME \A t \in Table : at'[t] \notin {"journaled", "placed"} PROVE Journaled'
  BY <1>2 DEF Journaled
<1>3. ASSUME phase' \notin {"batch", "finalize"} PROVE Journaled'
  <2>1. StagesInv'
    BY StagesNext
  <2> QED BY <1>2, <1>3, <2>1 DEF StagesInv, Resting
<1>4. CASE OpenInspector \/ EndBatch
  <2>1. \A t \in Table : at'[t] \in {"idle", "due"}
    BY <1>4 DEF OpenInspector, EndBatch, Propagate, Settle
  <2> QED BY <1>2, <2>1
<1>5. ASSUME NEW t \in Table, Inspecting(t) \/ Finalize(t) PROVE Journaled'
  <2>1. at' = [at EXCEPT ![t] = at'[t]] /\ at'[t] \in {"told", "done"}
    <3>1. CASE Inspecting(t)
      BY <1>0, <3>1 DEF Inspecting, Restore, Ask, Skip, Answered
    <3>2. CASE Finalize(t)
      BY <1>0, <3>2 DEF Finalize
    <3> QED BY <1>5, <3>1, <3>2
  <2>2. UNCHANGED <<mem, manifest, ctx>> /\ \A u \in Table \ {t} : answer'[u] = answer[u]
    <3>1. answer \in [Table -> Result \cup {None}]
      BY DEF DataInv, Told
    <3> QED BY <1>5, <3>1 DEF Inspecting, Restore, Ask, Skip, Answered, Finalize, disk, loaded
  <2> QED BY <1>0, <1>1, <2>1, <2>2
<1>6. ASSUME NEW t \in Table, Journaling(t) PROVE Journaled'
  <2>1. UNCHANGED <<ctx, answer>>
    BY <1>6 DEF Journaling, Journal, Place, Commit, WriteFails
  <2>2. CASE Journal(t)
    <3>1. mem' = [mem EXCEPT !.pending = Pending(t)] /\ manifest' = mem' /\ Writing = {}
      BY <2>2 DEF Journal
    <3>2. mem'.pending = Pending(t) /\ mem'.tables = mem.tables
      BY <3>1 DEF DataInv, InMemory, Manifest
    <3>3. Pending(t)' = Pending(t)
      BY <2>1, <3>2 DEF Pending
    <3>4. \A u \in Table : at'[u] \in {"journaled", "placed"} => u = t
      BY <1>0, <2>2 DEF Journal, Writing
    <3> QED BY <3>1, <3>2, <3>3, <3>4 DEF Journaled
  <2>3. CASE Place(t)
    BY <1>0, <1>1, <2>1, <2>3 DEF Place, loaded
  <2>4. CASE Commit(t)
    <3>1. \A u \in Table : at'[u] \notin {"journaled", "placed"}
      BY <1>0, <2>4 DEF Commit, StagesInv, Alone
    <3> QED BY <1>2, <3>1
  <2>5. CASE WriteFails(t)
    <3>1. \A u \in Table : at'[u] \notin {"journaled", "placed"}
      BY <1>0, <2>5 DEF WriteFails, StagesInv, Alone, Writing
    <3> QED BY <1>2, <3>1
  <2> QED BY <1>6, <2>2, <2>3, <2>4, <2>5 DEF Journaling
<1>7. CASE (\E noCache \in BOOLEAN : Start(noCache)) \/ Recover \/ Prune \/ Announce \/ Report \/ Validate
           \/ PublishFails
  BY <1>3, <1>7 DEF Start, Recover, Prune, Announce, Report, Validate, PublishFails
<1>8. CASE \E f \in File : MoveAway(f) \/ MoveIn(f) \/ PutBack(f)
  BY <1>3, <1>8 DEF MoveAway, MoveIn, PutBack
<1>9. CASE Interrupt
  BY <1>1, <1>9 DEF Interrupt, disk, loaded
<1>10. CASE Finish \/ Leave \/ Die
  BY <1>3, <1>10 DEF Finish, Leave, Die, Gone
<1>11. CASE \E t \in Table : Edit(t)
  BY <1>3, <1>11 DEF Edit
<1>12. CASE UNCHANGED vars
  BY <1>1, <1>12 DEF vars, disk, loaded, pipeline
<1> QED
  BY <1>4, <1>5, <1>6, <1>7, <1>8, <1>9, <1>10, <1>11, <1>12
  DEF Next, Working, Opening

\* Every generation keeps manifest, sidecars, inspect.json and what it has of them in
\* memory in their shape, and journals one result at a time.
THEOREM TypeCorrect == Spec => [](StagesInv /\ DataInv)
<1>1. Init => StagesInv /\ DataInv
  BY StagesBegin, DataBegin
<1>2. StagesInv /\ DataInv /\ [Next]_vars => StagesInv' /\ DataInv'
  BY StagesNext, DiskNext, MemoryNext, ContextsNext, PairedNext, JournaledNext DEF DataInv
<1> QED BY <1>1, <1>2, PTL DEF Spec

-----------------------------------------------------------------------------
(* Publication *)

Opened == {"off", "recover", "prune", "announce"}

FilesType ==
    /\ files \in [File -> Nat \cup {None}] /\ backup \in [File -> Nat \cup {None}]
    /\ moved \in SUBSET File
    /\ mem.published = None
\* A generation that is under way says of nothing that it is published.
Unpublished == phase \notin Opened => manifest.published = None
\* The candidate of generation r is in place, r before the one under way.
Stands(r) ==
    /\ phase \notin {"off", "finish"} => r < runs
    /\ files = Candidate(r)
Whole ==
    phase \notin Publishing /\ ~torn =>
        /\ \E r \in 0..runs : Stands(r)
        /\ manifest.published # None => files = Candidate(manifest.published)
Finished == phase = "finish" => files = Candidate(runs) /\ ~torn
\* The files of generation r are where they were, or in the backup.
Moving(r) ==
    \A f \in File :
        IF f \in moved THEN backup[f] = Candidate(r)[f] /\ files[f] \in {None, runs}
        ELSE files[f] = Candidate(r)[f]
Halfway == phase \in Publishing /\ ~torn => \E r \in 0..(runs - 1) : Moving(r)
\* What was moved away is gone before anything is moved in, and then only what is
\* new is there, also where an earlier publication was torn.
NewOnly == \A f \in File : files[f] \in {None, runs} /\ (f \notin Target => files[f] = None)
Installing ==
    /\ phase = "backup" => \A f \in moved : files[f] = None
    /\ phase = "install" => NewOnly
Unmoved == phase \notin Publishing \cup {"finish"} => moved = {}

PublicationInv == FilesType /\ Unpublished /\ Whole /\ Finished /\ Halfway /\ Installing /\ Unmoved

LEMMA CandidateIs ==
    ASSUME NEW r \in Nat
    PROVE  /\ Candidate(r) \in [File -> Nat \cup {None}]
           /\ \A f \in Target : f \in File /\ Candidate(r)[f] = r
           /\ None \notin Nat
           /\ r # 0 => \A f \in File \ Target : Candidate(r)[f] = None
BY ConstantsAssumption DEF Candidate, File, Target

LEMMA PublicationBegins == Init => PublicationInv
<1> SUFFICES ASSUME Init PROVE PublicationInv
  OBVIOUS
<1>1. /\ phase = "off" /\ runs = 0 /\ files = [f \in File |-> 0] /\ backup = [f \in File |-> None]
      /\ moved = {} /\ mem = NoManifest /\ manifest = NoManifest /\ torn = FALSE
  BY DEF Init
<1>2. NoManifest.published = None
  BY NoManifestIs
<1>3. Stands(0)
  BY <1>1 DEF Stands, Candidate
<1>4. FilesType
  BY <1>1, <1>2 DEF FilesType
<1> QED BY <1>1, <1>2, <1>3, <1>4
        DEF PublicationInv, Unpublished, Whole, Finished, Halfway, Installing, Unmoved, Publishing, Opened

\* Steps that leave the files alone.
LEMMA FilesStay ==
    ASSUME PublicationInv, StagesInv, StagesInv',
           phase \notin Publishing \cup {"finish"}, phase' \notin Publishing \cup {"finish"},
           runs <= runs', phase # "off" \/ phase' = "off" \/ runs < runs',
           files' = files, torn' = torn, backup' \in [File -> Nat \cup {None}], moved' = {},
           mem'.published = None,
           \/ manifest'.published = None
           \/ manifest'.published = manifest.published /\ (phase' \in Opened \/ phase \notin Opened)
    PROVE  PublicationInv'
<1>0. runs \in Nat /\ runs' \in Nat
  BY DEF StagesInv, Where
<1>1. FilesType' /\ Unpublished' /\ Halfway' /\ Installing' /\ Unmoved' /\ Finished'
  <2>1. FilesType'
    BY DEF PublicationInv, FilesType
  <2>2. Unpublished'
    BY DEF PublicationInv, Unpublished
  <2>3. Halfway' /\ Installing' /\ Unmoved' /\ Finished'
    BY DEF Halfway, Installing, Publishing, Finished, Unmoved
  <2> QED BY <2>1, <2>2, <2>3
<1>2. ASSUME ~torn PROVE \E r \in 0..runs' : Stands(r)'
  <2>1. PICK r \in 0..runs : Stands(r)
    BY <1>2 DEF PublicationInv, Whole
  <2>2. r \in 0..runs' /\ (phase' # "off" => r < runs')
    BY <1>0, <2>1 DEF Stands
  <2>3. Stands(r)'
    BY <2>1, <2>2 DEF Stands, Candidate
  <2> QED BY <2>2, <2>3
<1>3. ~torn /\ manifest.published # None => files = Candidate(manifest.published)
  BY DEF PublicationInv, Whole
<1>4. ~torn /\ manifest'.published # None => files' = Candidate(manifest'.published)
  BY <1>3 DEF Candidate
<1>5. Whole'
  BY <1>2, <1>4 DEF Whole, Candidate
<1> QED BY <1>1, <1>5 DEF PublicationInv

\* Steps that leave the phase and the files alone.
LEMMA FilesRest ==
    ASSUME PublicationInv, UNCHANGED <<phase, runs, files, torn, backup, moved>>,
           mem'.published = mem.published, manifest'.published \in {manifest.published, mem.published}
    PROVE  PublicationInv'
<1>1. FilesType' /\ Unpublished'
  BY DEF PublicationInv, FilesType, Unpublished
<1>2. Finished' /\ Halfway' /\ Installing' /\ Unmoved'
  BY DEF PublicationInv, Finished, Halfway, Installing, Unmoved, Moving, NewOnly, Candidate
<1>3. Whole'
  BY DEF PublicationInv, FilesType, Whole, Stands, Candidate
<1> QED BY <1>1, <1>2, <1>3 DEF PublicationInv

\* A step of the publication itself.
LEMMA PublicationStep ==
    ASSUME PublicationInv, StagesInv, StagesInv', DataInv,
           \/ Validate \/ PublishFails
           \/ \E f \in File : MoveAway(f) \/ MoveIn(f) \/ PutBack(f)
    PROVE  PublicationInv'
<1>0. /\ FilesType /\ runs \in Nat
      /\ phase # "off" => runs # 0 /\ 0..(runs - 1) \subseteq Nat /\ runs \notin 0..(runs - 1)
  BY DEF PublicationInv, StagesInv, Where
<1>1. CASE Validate
  <2>1. UNCHANGED <<runs, files, torn, moved, backup, mem, manifest>> /\ phase = "validate"
    BY <1>1 DEF Validate, disk, world, loaded, history
  <2>2. CASE phase' = "blocked"
    BY <1>0, <2>1, <2>2, FilesStay DEF FilesType, PublicationInv, Unmoved, Unpublished, Publishing, Opened
  <2>3. CASE phase' = "backup"
    <3>1. moved = {} /\ manifest.published = None
      BY <2>1 DEF PublicationInv, Unmoved, Unpublished, Publishing, Opened
    <3>2. Halfway'
      <4> SUFFICES ASSUME ~torn PROVE \E r \in 0..(runs - 1) : Moving(r)'
        BY <2>1 DEF Halfway
      <4>1. PICK r \in 0..runs : Stands(r)
        BY <2>1 DEF PublicationInv, Whole, Publishing
      <4>2. r \in 0..(runs - 1) /\ files = Candidate(r)
        BY <1>0, <2>1, <4>1 DEF Stands
      <4>3. Moving(r)'
        BY <2>1, <3>1, <4>2 DEF Moving, Candidate
      <4> QED BY <4>2, <4>3
    <3>3. FilesType' /\ Unpublished' /\ Whole' /\ Finished' /\ Installing' /\ Unmoved'
      BY <1>0, <2>1, <2>3, <3>1 DEF FilesType, Unpublished, Whole, Finished, Installing, Unmoved, Publishing
    <3> QED BY <3>2, <3>3 DEF PublicationInv
  <2> QED BY <1>1, <2>2, <2>3 DEF Validate
<1>2. CASE PublishFails
  <2>1. UNCHANGED <<runs, files, torn, moved, backup, mem, manifest>>
        /\ phase \in {"backup", "install"} /\ phase' = "rollback"
    BY <1>2 DEF PublishFails, disk, world, loaded, history, publishing
  <2>2. Halfway'
    BY <2>1 DEF PublicationInv, Halfway, Moving, Candidate, Publishing
  <2>3. FilesType' /\ Unpublished' /\ Whole' /\ Finished' /\ Installing' /\ Unmoved'
    BY <2>1 DEF PublicationInv, FilesType, Unpublished, Whole, Finished, Installing, Unmoved, Publishing, Opened
  <2> QED BY <2>2, <2>3 DEF PublicationInv
<1>3. ASSUME NEW f \in File, MoveAway(f) PROVE PublicationInv'
  <2>1. /\ UNCHANGED <<runs, torn, mem, manifest, phase>> /\ phase = "backup" /\ files[f] # None
        /\ backup' = [backup EXCEPT ![f] = files[f]] /\ files' = [files EXCEPT ![f] = None]
        /\ moved' = moved \cup {f}
    BY <1>3 DEF MoveAway, world, loaded, history
  <2>2. f \notin moved
    BY <2>1 DEF PublicationInv, Installing
  <2>3. FilesType' /\ Unpublished' /\ Whole' /\ Finished' /\ Installing' /\ Unmoved'
    BY <1>0, <2>1 DEF PublicationInv, FilesType, Unpublished, Whole, Finished, Installing, Unmoved, Publishing
  <2>4. Halfway'
    <3> SUFFICES ASSUME ~torn PROVE \E r \in 0..(runs - 1) : Moving(r)'
      BY <2>1 DEF Halfway
    <3>1. PICK r \in 0..(runs - 1) : Moving(r)
      BY <2>1 DEF PublicationInv, Halfway, Publishing
    <3>2. Moving(r)'
      BY <1>0, <2>1, <2>2, <3>1 DEF Moving, Candidate, FilesType
    <3> QED BY <3>2
  <2> QED BY <2>3, <2>4 DEF PublicationInv
<1>4. ASSUME NEW f \in File, MoveIn(f) PROVE PublicationInv'
  <2>1. /\ UNCHANGED <<runs, mem, manifest, moved, backup>> /\ phase \in {"backup", "install"}
        /\ f \in Target /\ files[f] = None /\ files' = [files EXCEPT ![f] = runs]
        /\ \A g \in 1..(f - 1) : files[g] # None
        /\ phase' = IF f = NTarget THEN "finish" ELSE "install"
        /\ torn' = IF phase' = "finish" THEN FALSE ELSE torn
    BY <1>4 DEF MoveIn, world, loaded, publishing
  <2>2. NewOnly
    BY <1>4 DEF MoveIn, PublicationInv, Installing, NewOnly
  <2>3. NewOnly'
    BY <1>0, <2>1, <2>2 DEF NewOnly, FilesType
  <2>4. FilesType' /\ Unpublished' /\ Installing' /\ Unmoved'
    BY <1>0, <2>1, <2>3 DEF PublicationInv, FilesType, Unpublished, Installing, Unmoved, Publishing, Opened
  <2>5. CASE f = NTarget
    <3>1. \A g \in Target : files'[g] = runs
      <4> TAKE g \in Target
      <4>1. g = f \/ g \in 1..(f - 1)
        BY <2>5, ConstantsAssumption DEF Target
      <4>2. g \in File
        BY CandidateIs
      <4> QED BY <1>0, <2>1, <2>2, <4>1, <4>2 DEF NewOnly, FilesType
    <3>2. \A g \in File : files'[g] = Candidate(runs)[g]
      BY <1>0, <2>1, <2>3, <3>1, CandidateIs DEF NewOnly
    <3>3. files' = Candidate(runs)
      BY <2>4, <3>2 DEF FilesType, Candidate
    <3>4. Finished' /\ Halfway'
      BY <2>1, <2>5, <3>3 DEF Finished, Halfway, Publishing, Candidate
    <3>5. Whole'
      <4>1. manifest'.published = None /\ phase' = "finish" /\ runs \in 0..runs
        BY <1>0, <2>1, <2>4, <2>5 DEF Unpublished, Opened
      <4>2. Stands(runs)'
        BY <2>1, <3>3, <4>1 DEF Stands, Candidate
      <4> QED BY <2>1, <4>1, <4>2 DEF Whole
    <3> QED BY <2>4, <3>4, <3>5 DEF PublicationInv
  <2>6. CASE f # NTarget
    <3>1. phase' = "install" /\ torn' = torn
      BY <2>1, <2>6
    <3>2. Finished' /\ Whole'
      BY <3>1 DEF Finished, Whole, Publishing
    <3>3. Halfway'
      <4> SUFFICES ASSUME ~torn PROVE \E r \in 0..(runs - 1) : Moving(r)'
        BY <2>1, <3>1 DEF Halfway
      <4>1. PICK r \in 0..(runs - 1) : Moving(r)
        BY <2>1 DEF PublicationInv, Halfway, Publishing
      <4>2. r \in Nat /\ Candidate(r)[f] # None
        BY <1>0, <2>1, <4>1, CandidateIs
      <4>3. f \in moved
        BY <2>1, <4>1, <4>2 DEF Moving
      <4>4. Moving(r)'
        BY <1>0, <2>1, <4>1, <4>3 DEF Moving, Candidate, FilesType
      <4> QED BY <4>4
    <3> QED BY <2>4, <3>2, <3>3 DEF PublicationInv
  <2> QED BY <2>5, <2>6
<1>5. ASSUME NEW f \in File, PutBack(f) PROVE PublicationInv'
  <2>1. /\ UNCHANGED <<runs, torn, mem, manifest, phase, backup>> /\ phase = "rollback"
        /\ f \in moved \/ (f \in Target /\ files[f] = runs)
        /\ files' = [files EXCEPT ![f] = backup[f]] /\ moved' = moved \ {f}
    BY <1>5 DEF PutBack, Touched, world, loaded, history
  <2>2. FilesType' /\ Unpublished' /\ Whole' /\ Finished' /\ Installing' /\ Unmoved'
    BY <1>0, <2>1 DEF PublicationInv, FilesType, Unpublished, Whole, Finished, Installing, Unmoved, Publishing
  <2>3. Halfway'
    <3> SUFFICES ASSUME ~torn PROVE \E r \in 0..(runs - 1) : Moving(r)'
      BY <2>1 DEF Halfway
    <3>1. PICK r \in 0..(runs - 1) : Moving(r)
      BY <2>1 DEF PublicationInv, Halfway, Publishing
    <3>2. f \in moved
      <4>1. r \in Nat /\ r # runs
        BY <1>0, <2>1, <3>1
      <4>2. f \in Target => Candidate(r)[f] = r
        BY <4>1, CandidateIs
      <4> QED BY <2>1, <3>1, <4>1, <4>2 DEF Moving
    <3>3. Moving(r)'
      BY <1>0, <2>1, <3>1, <3>2 DEF Moving, Candidate, FilesType
    <3> QED BY <3>3
  <2> QED BY <2>2, <2>3 DEF PublicationInv
<1> QED BY <1>1, <1>2, <1>3, <1>4, <1>5

LEMMA PublicationNext == StagesInv /\ DataInv /\ PublicationInv /\ [Next]_vars => PublicationInv'
<1> SUFFICES ASSUME StagesInv, DataInv, PublicationInv, [Next]_vars PROVE PublicationInv'
  OBVIOUS
<1>0. /\ StagesInv' /\ FilesType /\ runs \in Nat /\ mem.published = None
      /\ phase \notin Publishing \cup {"finish"} => moved = {}
  BY StagesNext DEF PublicationInv, FilesType, StagesInv, Where, Unmoved
<1>1. CASE \E noCache \in BOOLEAN : Start(noCache)
  <2>1. /\ phase = "off" /\ runs' = runs + 1 /\ phase' = "recover"
        /\ UNCHANGED <<files, torn, backup, moved, mem, manifest>>
    BY <1>1 DEF Start, disk, publishing, history
  <2> QED BY <1>0, <2>1, FilesStay DEF Publishing, Opened, FilesType
<1>2. CASE Recover
  <2>1. manifest'.published = manifest.published
    <3>1. manifest' = manifest \/ \E w : manifest' = [manifest EXCEPT !.tables[w.table] = w.entry, !.pending = None]
      BY <1>2 DEF Recover
    <3> QED BY <3>1 DEF DataInv, OnDisk, Manifest
  <2>2. UNCHANGED <<runs, files, torn, backup, moved, mem>> /\ phase = "recover" /\ phase' = "prune"
    BY <1>2 DEF Recover, world, loaded, publishing
  <2> QED BY <1>0, <2>1, <2>2, FilesStay DEF Publishing, Opened, FilesType
<1>3. CASE Prune
  <2>1. /\ phase = "prune" /\ phase' = "announce" /\ mem'.published = None
        /\ UNCHANGED <<runs, files, torn, backup, moved, manifest>>
    BY <1>3 DEF Prune, world, publishing
  <2> QED BY <1>0, <2>1, FilesStay DEF Publishing, Opened, FilesType
<1>4. CASE Announce
  <2>1. /\ phase = "announce" /\ phase' = "open" /\ manifest' = mem
        /\ UNCHANGED <<runs, files, torn, backup, moved, mem>>
    BY <1>4 DEF Announce, world, loaded, publishing, history
  <2> QED BY <1>0, <2>1, FilesStay DEF Publishing, Opened, FilesType
<1>5. CASE OpenInspector
  <2>1. /\ phase = "open" /\ phase' = "batch"
        /\ UNCHANGED <<runs, files, torn, backup, moved, mem, manifest>>
    BY <1>5 DEF OpenInspector, world, publishing, history
  <2> QED BY <1>0, <2>1, FilesStay DEF Publishing, Opened, FilesType
<1>6. ASSUME NEW t \in Table, Inspecting(t) \/ Finalize(t) \/ Edit(t) PROVE PublicationInv'
  <2>1. UNCHANGED <<phase, runs, files, torn, backup, moved, mem, manifest>>
    BY <1>6 DEF Inspecting, Restore, Ask, Skip, Finalize, Edit, disk, world, loaded, publishing, history
  <2> QED BY <2>1, FilesRest
<1>7. ASSUME NEW t \in Table, Journaling(t) PROVE PublicationInv'
  <2>1. UNCHANGED <<phase, runs, files, torn, backup, moved>>
    BY <1>7 DEF Journaling, Journal, Place, Commit, WriteFails, disk, world, publishing, history
  <2>2. mem'.published = mem.published /\ manifest'.published \in {manifest.published, mem.published}
    <3>1. CASE Journal(t)
      BY <3>1 DEF Journal, DataInv, InMemory, Manifest
    <3>2. CASE Place(t)
      BY <3>2 DEF Place, loaded
    <3>3. CASE Commit(t)
      BY <3>3 DEF Commit, DataInv, InMemory, Manifest
    <3>4. CASE WriteFails(t)
      BY <3>4 DEF WriteFails, DataInv, InMemory, Manifest, disk
    <3> QED BY <1>7, <3>1, <3>2, <3>3, <3>4 DEF Journaling
  <2> QED BY <2>1, <2>2, FilesRest
<1>8. CASE EndBatch
  <2>1. /\ phase = "batch" /\ phase' \in {"batch", "finalize"}
        /\ UNCHANGED <<runs, files, torn, backup, moved, mem, manifest>>
    BY <1>8 DEF EndBatch, BatchOver, Propagate, Settle, disk, world, loaded, publishing, history
  <2> QED BY <1>0, <2>1, FilesStay DEF Publishing, Opened, FilesType
<1>9. CASE Report
  <2>1. /\ phase = "finalize" /\ phase' = "validate" /\ manifest' = mem
        /\ UNCHANGED <<runs, files, torn, backup, moved, mem>>
    BY <1>9 DEF Report, world, loaded, publishing, history
  <2> QED BY <1>0, <2>1, FilesStay DEF Publishing, Opened, FilesType
<1>10. CASE Validate \/ PublishFails \/ \E f \in File : MoveAway(f) \/ MoveIn(f) \/ PutBack(f)
  BY <1>0, <1>10, PublicationStep
<1>11. CASE Interrupt
  BY <1>11, FilesRest DEF Interrupt, disk, world, loaded, publishing, history
\* The ends: what a generation leaves.
<1>12. ASSUME Gone, UNCHANGED <<runs, files>>, torn' \in BOOLEAN,
              ~torn' => /\ \E r \in 0..runs : files = Candidate(r)
                        /\ manifest'.published # None => files = Candidate(manifest'.published)
       PROVE  PublicationInv'
  <2>1. /\ phase' = "off" /\ mem' = NoManifest /\ moved' = {} /\ backup' = [f \in File |-> None]
    BY <1>12 DEF Gone
  <2>2. FilesType'
    BY <1>0, <1>12, <2>1, NoManifestIs DEF FilesType
  <2>3. Unpublished' /\ Finished' /\ Halfway' /\ Installing' /\ Unmoved'
    BY <2>1 DEF Unpublished, Finished, Halfway, Installing, Unmoved, Publishing, Opened
  <2>4. Whole'
    BY <1>12, <2>1 DEF Whole, Stands, Candidate
  <2> QED BY <2>2, <2>3, <2>4 DEF PublicationInv
<1>13. ASSUME phase # "off", ~torn, phase \notin Publishing PROVE \E r \in 0..runs : files = Candidate(r)
  BY <1>13 DEF PublicationInv, Whole, Stands
<1>14. CASE Finish
  <2>1. phase \in {"finish", "blocked"} /\ torn' = torn /\ Gone /\ UNCHANGED <<runs, files>>
        /\ manifest'.published = IF phase = "finish" THEN runs ELSE None
    BY <1>14 DEF Finish, world
  <2>2. phase = "finish" => files = Candidate(runs)
    BY DEF PublicationInv, Finished
  <2>3. ~torn => \E r \in 0..runs : files = Candidate(r)
    BY <1>13, <2>1 DEF Publishing
  <2>4. torn' \in BOOLEAN
    BY <2>1 DEF StagesInv, Where
  <2> QED BY <1>12, <2>1, <2>2, <2>3, <2>4
<1>15. CASE Leave
  <2>1. phase \notin {"off", "recover", "backup", "install"} /\ Gone /\ UNCHANGED <<runs, files, torn, manifest>>
        /\ (phase = "rollback" => Touched = {})
    BY <1>15 DEF Leave, disk, world, history
  <2>2. ASSUME ~torn PROVE \E r \in 0..runs : files = Candidate(r)
    <3>1. CASE phase = "rollback"
      <4>1. PICK r \in 0..(runs - 1) : Moving(r)
        BY <2>2, <3>1 DEF PublicationInv, Halfway, Publishing
      <4>2. moved = {}
        BY <2>1, <3>1 DEF Touched
      <4>3. r \in 0..runs /\ r \in Nat
        BY <1>0, <4>1
      <4>4. Candidate(r) \in [File -> Nat \cup {None}]
        BY <4>3, CandidateIs
      <4>5. \A f \in File : files[f] = Candidate(r)[f]
        BY <4>1, <4>2 DEF Moving
      <4>6. files = Candidate(r)
        BY <1>0, <4>4, <4>5 DEF FilesType
      <4> QED BY <4>3, <4>6
    <3>2. CASE phase # "rollback"
      BY <1>13, <2>1, <2>2, <3>2 DEF Publishing
    <3> QED BY <3>1, <3>2
  <2>3. ~torn /\ manifest.published # None => files = Candidate(manifest.published)
    BY <2>1 DEF PublicationInv, Whole, Unpublished, Publishing, Opened
  <2>4. torn' \in BOOLEAN
    BY <2>1 DEF StagesInv, Where
  <2> QED BY <1>12, <2>1, <2>2, <2>3, <2>4
<1>16. CASE Die
  <2>1. /\ phase # "off" /\ torn' = (torn \/ phase \in Publishing) /\ Gone
        /\ UNCHANGED <<runs, files, manifest>>
    BY <1>16 DEF Die, world, Publishing
  <2>2. torn' \in BOOLEAN
    BY <1>0 DEF StagesInv, Where
  <2>3. ASSUME ~torn' PROVE ~torn /\ phase \notin Publishing
    BY <2>1, <2>3
  <2>4. ASSUME ~torn' PROVE \E r \in 0..runs : files = Candidate(r)
    BY <1>13, <2>1, <2>3, <2>4
  <2>5. ~torn' /\ manifest.published # None => files = Candidate(manifest.published)
    BY <2>3 DEF PublicationInv, Whole
  <2> QED BY <1>12, <2>1, <2>2, <2>4, <2>5
<1>17. CASE UNCHANGED vars
  BY <1>17, FilesRest DEF vars, disk, world, loaded, publishing, history
<1> QED
  BY <1>1, <1>2, <1>3, <1>4, <1>5, <1>6, <1>7, <1>8, <1>9, <1>10, <1>11, <1>14, <1>15, <1>16, <1>17
  DEF Next, Working, Opening

\* Catalog and models are those of one candidate, the one the manifest calls
\* published if it does, whatever was interrupted, rolled back or left half done by a
\* kill and published over since: for any number of files, tables and generations.
THEOREM Published == Spec => []PublishedIsWhole
<1>1. Init => StagesInv /\ DataInv /\ PublicationInv
  BY StagesBegin, DataBegin, PublicationBegins
<1>2. StagesInv /\ DataInv /\ PublicationInv /\ [Next]_vars => StagesInv' /\ DataInv' /\ PublicationInv'
  BY StagesNext, DiskNext, MemoryNext, ContextsNext, PairedNext, JournaledNext, PublicationNext DEF DataInv
<1>3. PublicationInv => PublishedIsWhole
  BY DEF PublicationInv, Whole, Stands, Publishing, PublishedIsWhole
<1> QED BY <1>1, <1>2, <1>3, PTL DEF Spec

-----------------------------------------------------------------------------
(* What a result was made for *)

\* A result that may be used is about context c.
Matches(r, c) == r.kind \notin {"blocked", "failed"} => r.ctx = c
\* Every result of a set of variants or saved results is about the context it is under.
Match(S) == \A v \in S : Matches(v.result, v.ctx)
\* And no result that was to be used in its own generation only is believed.
Listed(S) == Match(S) /\ \A v \in S : v.eligible => v.result.kind # "transient"
GoodManifest(m) ==
    /\ \A t \in Table : Listed(ToSet(m.tables[t].variants))
    /\ m.pending # None => Listed(ToSet(m.pending.entry.variants))

GoodManifests == GoodManifest(manifest) /\ GoodManifest(mem)
GoodCaches == \A t \in Table : Match(ToSet(cache[t])) /\ Match(ToSet(cacheFile[t]))
\* What was loaded from the checkpoint may all be used.
Resumed == \A t \in Table : \A v \in ToSet(resume[t].variants) : v.result.ctx = v.ctx
AnswersMatch == \A t \in Table : at[t] \notin {"idle", "due"} =>
    /\ phase = "batch" => answer[t].ctx = ctx[t]
    /\ phase = "finalize" => Matches(answer[t], ctx[t])
PairsMatch == \A t \in Table :
    (phase = "batch" /\ at[t] = "idle") \/ phase = "finalize" => Matches(pair[t], ctx[t])

MatchInv == GoodManifests /\ GoodCaches /\ Resumed /\ AnswersMatch /\ PairsMatch

LEMMA NoManifestGood == GoodManifest(NoManifest) /\ Match(ToSet(<<>>)) /\ \A t \in Table : ToSet(NoEntry.variants) = {}
BY DEF GoodManifest, NoManifest, NoEntry, Listed, Match, ToSet

LEMMA MatchBegins == Init => MatchInv
<1> SUFFICES ASSUME Init PROVE MatchInv
  OBVIOUS
<1>1. /\ phase = "off" /\ manifest = NoManifest /\ mem = NoManifest
      /\ cache = EmptyCache /\ cacheFile = EmptyCache /\ resume = [t \in Table |-> NoEntry]
      /\ at = [t \in Table |-> "idle"]
  BY DEF Init
<1>2. GoodManifests /\ GoodCaches
  BY <1>1, NoManifestGood DEF GoodManifests, GoodCaches, EmptyCache
<1>3. Resumed
  BY <1>1, NoManifestGood DEF Resumed
<1>4. AnswersMatch /\ PairsMatch
  BY <1>1 DEF AnswersMatch, PairsMatch
<1> QED BY <1>2, <1>3, <1>4 DEF MatchInv

LEMMA MatchGone == Gone => /\ GoodManifest(mem') /\ Resumed' /\ AnswersMatch' /\ PairsMatch'
                           /\ \A t \in Table : Match(ToSet(cache'[t]))
<1> SUFFICES ASSUME Gone PROVE /\ GoodManifest(mem') /\ Resumed' /\ AnswersMatch' /\ PairsMatch'
                               /\ \A t \in Table : Match(ToSet(cache'[t]))
  OBVIOUS
<1>1. /\ phase' = "off" /\ mem' = NoManifest /\ cache' = EmptyCache
      /\ resume' = [t \in Table |-> NoEntry] /\ at' = [t \in Table |-> "idle"]
  BY DEF Gone
<1>2. GoodManifest(mem') /\ \A t \in Table : Match(ToSet(cache'[t]))
  BY <1>1, NoManifestGood DEF EmptyCache
<1>3. Resumed'
  BY <1>1, NoManifestGood DEF Resumed
<1>4. AnswersMatch' /\ PairsMatch'
  BY <1>1 DEF AnswersMatch, PairsMatch
<1> QED BY <1>2, <1>3, <1>4

\* Recording an answer that matches leaves only results that match.
LEMMA RecordedMatch ==
    ASSUME NEW e \in Entry, NEW c \in Ctx, NEW r \in Result, Listed(ToSet(e.variants)), Matches(r, c)
    PROVE  Listed(ToSet(Recorded(e, c, r).variants))
<1>1. ToSet(Recorded(e, c, r).variants) \subseteq {v \in ToSet(e.variants) : v.ctx # c} \cup {Recording(c, r)}
  BY RecordedVariants
<1> DEFINE new == Recording(c, r)
<1>2. Matches(new.result, new.ctx) /\ (new.eligible => new.result.kind # "transient")
  BY DEF Recording
<1> HIDE DEF new
<1> QED BY <1>1, <1>2 DEF new, Listed, Match

LEMMA PendingMatch ==
    ASSUME StagesInv, DataInv, MatchInv, NEW t \in Table,
           at[t] \in {"told", "journaled", "placed"}
    PROVE  Listed(ToSet(Pending(t).entry.variants)) /\ Pending(t) \in Write
<1>1. phase \in {"batch", "finalize"}
  BY AtWork
<1>2. ctx[t] \in Ctx /\ answer[t] \in Result /\ Pending(t) \in Write
  BY <1>1, AtHand
<1>3. Matches(answer[t], ctx[t])
  BY <1>1 DEF MatchInv, AnswersMatch, Matches
<1> DEFINE r == Processed(answer[t])
<1>4. r \in Result /\ Matches(r, ctx[t])
  BY <1>2, <1>3, ResultIs DEF Matches, Usable
<1>5. mem.tables[t] \in Entry /\ Listed(ToSet(mem.tables[t].variants))
  BY DEF DataInv, InMemory, Manifest, MatchInv, GoodManifests, GoodManifest
<1>6. Pending(t).entry = Recorded(mem.tables[t], ctx[t], r)
  BY DEF Pending
<1> HIDE DEF r
<1> QED BY <1>2, <1>4, <1>5, <1>6, RecordedMatch

LEMMA ManifestsMatch == StagesInv /\ DataInv /\ MatchInv /\ [Next]_vars => GoodManifests'
<1> SUFFICES ASSUME StagesInv, DataInv, MatchInv, [Next]_vars PROVE GoodManifests'
  OBVIOUS
<1>0. GoodManifest(manifest) /\ GoodManifest(mem) /\ manifest \in Manifest /\ mem \in Manifest
  BY DEF MatchInv, GoodManifests, DataInv, OnDisk, InMemory
<1>1. ASSUME mem' \in {manifest, mem, NoManifest}, manifest' \in {manifest, mem} PROVE GoodManifests'
  BY <1>0, <1>1, NoManifestGood DEF GoodManifests
<1>2. ASSUME GoodManifest(mem'), manifest' \in {manifest, mem, mem'} PROVE GoodManifests'
  BY <1>0, <1>2 DEF GoodManifests
<1>3. CASE Recover
  <2>1. CASE manifest.pending = None
    BY <1>1, <1>3, <2>1 DEF Recover, loaded
  <2>2. CASE manifest.pending # None
    <3> DEFINE w == manifest.pending
    <3>1. w.table \in Table /\ w.entry \in Entry /\ Listed(ToSet(w.entry.variants))
      BY <1>0, <2>2 DEF Manifest, Write, GoodManifest
    <3>2. manifest' = [manifest EXCEPT !.tables[w.table] = w.entry, !.pending = None] /\ mem' = mem
      BY <1>3, <2>2 DEF Recover, loaded
    <3> HIDE DEF w
    <3>3. /\ manifest'.pending = None
          /\ \A t \in Table : manifest'.tables[t] \in {manifest.tables[t], w.entry}
      BY <1>0, <3>2 DEF Manifest
    <3>4. GoodManifest(manifest')
      BY <1>0, <3>1, <3>3 DEF GoodManifest
    <3> QED BY <1>0, <3>2, <3>4 DEF GoodManifests
  <2> QED BY <2>1, <2>2
<1>4. CASE Prune
  <2>1. mem'.pending = None /\ manifest' = manifest
        /\ mem'.tables = IF fresh THEN NoManifest.tables
                         ELSE [t \in Table |-> Prepared(t, manifest.tables[t])]
    BY <1>4 DEF Prune
  <2>2. ASSUME NEW t \in Table PROVE Listed(ToSet(mem'.tables[t].variants))
    <3>1. CASE fresh
      BY <2>1, <3>1, NoManifestGood DEF GoodManifest
    <3>2. CASE ~fresh
      <4>1. manifest.tables[t] \in Entry /\ Listed(ToSet(manifest.tables[t].variants))
        BY <1>0 DEF Manifest, GoodManifest
      <4>2. mem'.tables[t] = Prepared(t, manifest.tables[t])
        BY <2>1, <3>2
      <4>3. ToSet(Prepared(t, manifest.tables[t]).variants) \subseteq ToSet(manifest.tables[t].variants)
        BY <4>1, PreparedIs
      <4> QED BY <4>1, <4>2, <4>3 DEF Listed, Match
    <3> QED BY <3>1, <3>2
  <2>3. GoodManifest(mem')
    BY <2>1, <2>2 DEF GoodManifest
  <2> QED BY <1>2, <2>1, <2>3
<1>5. CASE Announce \/ Report
  BY <1>1, <1>5 DEF Announce, Report, loaded
<1>6. ASSUME NEW t \in Table, Journaling(t) PROVE GoodManifests'
  <2>1. at[t] \in {"told", "journaled", "placed"}
    BY <1>6 DEF Journaling, Journal, Place, Commit, WriteFails
  <2>2. Listed(ToSet(Pending(t).entry.variants))
    BY <2>1, PendingMatch
  <2>3. at[t] = "placed" => mem.pending = Pending(t)
    BY DEF DataInv, Journaled
  <2>4. ASSUME mem' = [mem EXCEPT !.pending = Pending(t)] \/ mem' = [mem EXCEPT !.pending = None]
        PROVE  GoodManifest(mem')
    BY <1>0, <2>2, <2>4 DEF GoodManifest, Manifest
  <2>5. ASSUME at[t] = "placed", mem' = [mem EXCEPT !.tables[t] = mem.pending.entry, !.pending = None]
        PROVE  GoodManifest(mem')
    <3>1. mem'.pending = None /\ \A u \in Table : mem'.tables[u] \in {mem.tables[u], Pending(t).entry}
      BY <1>0, <2>3, <2>5 DEF Manifest
    <3> QED BY <1>0, <2>2, <3>1 DEF GoodManifest
  <2>6. CASE Journal(t)
    BY <1>2, <2>4, <2>6 DEF Journal
  <2>7. CASE Place(t)
    BY <1>1, <2>7 DEF Place, loaded
  <2>8. CASE Commit(t)
    BY <1>2, <2>5, <2>8 DEF Commit
  <2>9. CASE WriteFails(t)
    BY <1>0, <1>2, <2>4, <2>5, <2>9 DEF WriteFails, disk
  <2> QED BY <1>6, <2>6, <2>7, <2>8, <2>9 DEF Journaling
<1>7. CASE Finish
  <2>1. /\ manifest'.pending = mem.pending /\ mem' = NoManifest
        /\ \A t \in Table : manifest'.tables[t] = IF t \in bad THEN RejectedEntry(mem.tables[t])
                                                  ELSE mem.tables[t]
    BY <1>7 DEF Finish, Gone
  <2>2. ASSUME NEW t \in Table PROVE Listed(ToSet(manifest'.tables[t].variants))
    <3>1. mem.tables[t] \in Entry /\ Listed(ToSet(mem.tables[t].variants))
      BY <1>0 DEF Manifest, GoodManifest
    <3>2. Listed(ToSet(RejectedEntry(mem.tables[t]).variants))
      <4> DEFINE new == RejectedEntry(mem.tables[t])
      <4>1. \A v \in ToSet(new.variants) : \E w \in ToSet(mem.tables[t].variants) :
               v.ctx = w.ctx /\ v.result = w.result /\ (v.eligible => w.eligible)
        BY <3>1, RejectedIs
      <4> HIDE DEF new
      <4>2. Listed(ToSet(new.variants))
        BY <3>1, <4>1 DEF Listed, Match
      <4> QED BY <4>2 DEF new
    <3> QED BY <2>1, <3>1, <3>2
  <2>3. GoodManifest(manifest')
    BY <1>0, <2>1, <2>2 DEF GoodManifest
  <2> QED BY <2>1, <2>3, NoManifestGood DEF GoodManifests
<1>8. CASE Leave \/ Die
  BY <1>1, <1>8 DEF Leave, Die, Gone, disk
<1>9. CASE UNCHANGED <<mem, manifest>>
  BY <1>1, <1>9
<1>10. CASE (\E noCache \in BOOLEAN : Start(noCache)) \/ OpenInspector
            \/ EndBatch \/ Validate \/ PublishFails \/ Interrupt \/ UNCHANGED vars
  BY <1>9, <1>10 DEF Start, OpenInspector, EndBatch, Validate, PublishFails, Interrupt, vars, disk, loaded
<1>11. ASSUME NEW t \in Table, Inspecting(t) \/ Finalize(t) \/ Edit(t) PROVE GoodManifests'
  BY <1>9, <1>11 DEF Inspecting, Restore, Ask, Skip, Finalize, Edit, disk, loaded
<1>12. ASSUME NEW f \in File, MoveAway(f) \/ MoveIn(f) \/ PutBack(f) PROVE GoodManifests'
  BY <1>9, <1>12 DEF MoveAway, MoveIn, PutBack, loaded
<1> QED
  BY <1>3, <1>4, <1>5, <1>6, <1>7, <1>8, <1>10, <1>11, <1>12 DEF Next, Working, Opening

LEMMA CachesMatch == StagesInv /\ DataInv /\ MatchInv /\ [Next]_vars => GoodCaches' /\ Resumed'
<1> SUFFICES ASSUME StagesInv, DataInv, MatchInv, [Next]_vars PROVE GoodCaches' /\ Resumed'
  OBVIOUS
<1>0. /\ GoodCaches /\ Resumed
      /\ cache \in [Table -> Seq(Saved)] /\ cacheFile \in [Table -> Seq(Saved)]
  BY DEF MatchInv, DataInv, OnDisk, InMemory
<1>1. ASSUME resume' = resume, cache' = cache, cacheFile' \in {cache, cacheFile} PROVE GoodCaches' /\ Resumed'
  BY <1>0, <1>1 DEF GoodCaches, Resumed
<1>2. ASSUME NEW t \in Table, NEW c \in Ctx, NEW r \in Result, Matches(r, c),
             cache' = [cache EXCEPT ![t] = Cached(@, c, r)],
             cacheFile' \in {cacheFile, cache'}, resume' = resume
      PROVE  GoodCaches' /\ Resumed'
  <2>1. cache[t] \in Seq(Saved) /\ Match(ToSet(cache[t]))
    BY <1>0 DEF GoodCaches
  <2>2. ToSet(Cached(cache[t], c, r)) \subseteq {v \in ToSet(cache[t]) : v.ctx # c} \cup {[ctx |-> c, result |-> r]}
    BY <2>1, CachedIs
  <2>3. Match(ToSet(Cached(cache[t], c, r)))
    BY <1>2, <2>1, <2>2 DEF Match
  <2>4. \A u \in Table : Match(ToSet(cache'[u]))
    BY <1>0, <1>2, <2>3 DEF GoodCaches
  <2> QED BY <1>0, <1>2, <2>4 DEF GoodCaches, Resumed
<1>3. CASE Prune
  <2>1. UNCHANGED <<cache, cacheFile>>
        /\ resume' = IF fresh THEN NoManifest.tables
                     ELSE [t \in Table |-> Prepared(t, manifest.tables[t])]
    BY <1>3 DEF Prune
  <2>2. Resumed'
    <3>1. CASE fresh
      BY <2>1, <3>1, NoManifestGood DEF Resumed, NoManifest
    <3>2. CASE ~fresh
      <4>1. ASSUME NEW t \in Table, NEW v \in ToSet(Prepared(t, manifest.tables[t]).variants)
            PROVE  v.result.ctx = v.ctx
        <5>1. manifest.tables[t] \in Entry /\ Match(ToSet(manifest.tables[t].variants))
          BY DEF DataInv, OnDisk, Manifest, MatchInv, GoodManifests, GoodManifest, Listed
        <5>2. v \in ToSet(manifest.tables[t].variants) /\ Valid(t, v)
          BY <5>1, PreparedIs
        <5> QED BY <5>1, <5>2 DEF Listed, Match, Matches, Valid
      <4> QED BY <2>1, <3>2, <4>1 DEF Resumed
    <3> QED BY <3>1, <3>2
  <2> QED BY <1>0, <2>1, <2>2 DEF GoodCaches
<1>4. CASE OpenInspector
  <2>1. \A t \in Table : Match(ToSet(Purged(t, cacheFile[t])))
    <3> TAKE t \in Table
    <3>1. cacheFile[t] \in Seq(Saved) /\ Match(ToSet(cacheFile[t]))
      BY <1>0 DEF GoodCaches
    <3>2. ToSet(Purged(t, cacheFile[t])) \subseteq ToSet(cacheFile[t])
      BY <3>1, PurgedIs
    <3> QED BY <3>1, <3>2 DEF Match
  <2>2. \A t \in Table : Match(ToSet(cache'[t]))
    BY <1>4, <2>1, NoManifestGood DEF OpenInspector, EmptyCache
  <2> QED BY <1>0, <1>4, <2>2 DEF OpenInspector, GoodCaches, Resumed
<1>5. ASSUME NEW t \in Table, Ask(t) PROVE GoodCaches' /\ Resumed'
  <2>1. PICK replies \in Conversations(t), metric \in BOOLEAN :
          LET r == [ctx |-> ctx[t], kind |-> Outcome(replies), metric |-> metric, final |-> FALSE] IN
          /\ cache' = IF Cacheable(r) THEN [cache EXCEPT ![t] = Cached(@, ctx[t], r)] ELSE cache
          /\ cacheFile' = IF Cacheable(r) THEN cache' ELSE cacheFile
    BY <1>5 DEF Ask
  <2> DEFINE r == [ctx |-> ctx[t], kind |-> Outcome(replies), metric |-> metric, final |-> FALSE]
  <2>2. ctx[t] \in Ctx
    BY <1>5 DEF Ask, DataInv, Asked, Inspected
  <2>3. r \in Result /\ r.ctx = ctx[t]
    BY <2>2, OutcomeIs DEF Result
  <2> HIDE DEF r
  <2>4. Matches(r, ctx[t]) /\ resume' = resume
    BY <1>5, <2>3 DEF Matches, Ask
  <2>5. CASE Cacheable(r)
    BY <1>2, <2>1, <2>2, <2>3, <2>4, <2>5 DEF r
  <2>6. CASE ~Cacheable(r)
    BY <1>1, <2>1, <2>4, <2>6 DEF r
  <2> QED BY <2>5, <2>6
<1>6. ASSUME NEW t \in Table, Finalize(t) PROVE GoodCaches' /\ Resumed'
  <2>1. ctx[t] \in Ctx /\ pair[t] \in Result /\ Matches(pair[t], ctx[t])
    BY <1>6 DEF Finalize, DataInv, Asked, Paired, Inspected, MatchInv, PairsMatch
  <2>2. resume' = resume /\ cacheFile' = cacheFile
        /\ cache' = IF Cacheable(pair[t]) THEN [cache EXCEPT ![t] = Cached(@, ctx[t], pair[t])] ELSE cache
    BY <1>6 DEF Finalize, disk
  <2>3. CASE Cacheable(pair[t])
    BY <1>2, <2>1, <2>2, <2>3
  <2>4. CASE ~Cacheable(pair[t])
    BY <1>1, <2>2, <2>4
  <2> QED BY <2>3, <2>4
<1>7. CASE Finish \/ Leave \/ Die
  <2>1. Gone /\ cacheFile' \in {cacheFile, EmptyCache}
    BY <1>7 DEF Finish, Leave, Die, disk
  <2>2. \A t \in Table : Match(ToSet(cacheFile'[t]))
    BY <1>0, <2>1, NoManifestGood DEF GoodCaches, EmptyCache
  <2> QED BY <2>1, <2>2, MatchGone DEF GoodCaches
<1>8. CASE (\E noCache \in BOOLEAN : Start(noCache)) \/ Recover \/ Announce \/ EndBatch \/ Report
           \/ Validate \/ PublishFails \/ Interrupt \/ UNCHANGED vars
  BY <1>1, <1>8 DEF Start, Recover, Announce, EndBatch, Report, Validate, PublishFails, Interrupt, vars,
                    disk, loaded
<1>9. ASSUME NEW t \in Table, Restore(t) \/ Skip(t) \/ Journaling(t) \/ Edit(t) PROVE GoodCaches' /\ Resumed'
  BY <1>1, <1>9 DEF Restore, Skip, Journaling, Journal, Place, Commit, WriteFails, Edit, disk, loaded
<1>10. ASSUME NEW f \in File, MoveAway(f) \/ MoveIn(f) \/ PutBack(f) PROVE GoodCaches' /\ Resumed'
  BY <1>1, <1>10 DEF MoveAway, MoveIn, PutBack, loaded
<1> QED
  BY <1>3, <1>4, <1>5, <1>6, <1>7, <1>8, <1>9, <1>10 DEF Next, Working, Opening, Inspecting

\* What the pipeline has for a table that propagation did not give a new context.
LEMMA PromotedMatch ==
    ASSUME StagesInv, DataInv, MatchInv, BatchOver, NEW pairs \in Promotions, NEW t \in Table
    PROVE  Matches(pairs[t], ctx[t])
<1>1. /\ pairs[t].ctx = Pairs[t].ctx
      /\ \/ pairs[t].kind \in {Pairs[t].kind, "blocked"}
         \/ Pairs[t].ctx = ctx[t]
         \/ t \in InBatch /\ Pairs[t] = answer[t]
      /\ t \in InBatch => pair[t] \in Result \cup {None} /\ answer[t] \in Result
                          /\ Pairs[t] = Merged(pair[t], answer[t])
      /\ t \notin InBatch => pair[t] \in Result /\ Pairs[t] = pair[t]
  BY PromotedIs
<1>2. CASE t \in InBatch
  <2>1. answer[t].ctx = ctx[t]
    BY <1>2 DEF MatchInv, AnswersMatch, BatchOver, InBatch
  <2>2. Merged(pair[t], answer[t]) = answer[t] \/ Merged(pair[t], answer[t]).kind \in {"blocked", "failed"}
    BY <1>1, <1>2, MarkedIs DEF Merged
  <2> QED BY <1>1, <1>2, <2>1, <2>2 DEF Matches
<1>3. CASE t \notin InBatch
  <2>1. Matches(pair[t], ctx[t])
    BY <1>3 DEF MatchInv, PairsMatch, BatchOver, InBatch
  <2> QED BY <1>1, <1>3, <2>1 DEF Matches
<1> QED BY <1>2, <1>3

LEMMA AnswersNext == StagesInv /\ DataInv /\ MatchInv /\ [Next]_vars => AnswersMatch' /\ PairsMatch'
<1> SUFFICES ASSUME StagesInv, DataInv, MatchInv, [Next]_vars PROVE AnswersMatch' /\ PairsMatch'
  OBVIOUS
<1>0. AnswersMatch /\ PairsMatch /\ at \in [Table -> Stage] /\ answer \in [Table -> Result \cup {None}]
  BY DEF MatchInv, StagesInv, Where, DataInv, Told
<1>1. ASSUME phase' \notin {"batch", "finalize"} PROVE AnswersMatch' /\ PairsMatch'
  BY <1>1 DEF AnswersMatch, PairsMatch
<1>2. ASSUME UNCHANGED <<phase, at, answer, ctx, pair>> PROVE AnswersMatch' /\ PairsMatch'
  BY <1>0, <1>2 DEF AnswersMatch, PairsMatch
<1>3. CASE OpenInspector
  <2>1. phase' = "batch" /\ \A t \in Table : at'[t] = "due"
    BY <1>3 DEF OpenInspector
  <2> QED BY <2>1 DEF AnswersMatch, PairsMatch
\* A table that was told.
<1>4. ASSUME NEW t \in Table, NEW r, at'[t] # "idle", answer' = [answer EXCEPT ![t] = r],
             \A u \in Table \ {t} : at'[u] = at[u],
             UNCHANGED <<phase, ctx, pair>>, phase = "batch" => r.ctx = ctx[t],
             phase = "finalize" => Matches(r, ctx[t])
      PROVE  AnswersMatch' /\ PairsMatch'
  <2>1. answer'[t] = r /\ \A u \in Table \ {t} : answer'[u] = answer[u]
    BY <1>0, <1>4
  <2> QED BY <1>0, <1>4, <2>1 DEF AnswersMatch, PairsMatch, Matches
<1>5. ASSUME NEW t \in Table, Restore(t) PROVE AnswersMatch' /\ PairsMatch'
  <2>1. PICK r, from : Answered(t, r, from) /\ r.ctx = ctx[t]
    <3>1. CASE FromCheckpoint(t) /\ Answered(t, At(resume[t].variants, ctx[t]).result, "checkpoint")
      <4>1. PICK i \in DOMAIN resume[t].variants :
               /\ resume[t].variants[i].ctx = ctx[t]
               /\ At(resume[t].variants, ctx[t]) = resume[t].variants[i]
        BY <3>1 DEF FromCheckpoint, Has, At
      <4>2. resume[t].variants[i] \in ToSet(resume[t].variants)
        BY DEF ToSet
      <4>3. resume[t].variants[i].result.ctx = ctx[t]
        BY <4>1, <4>2 DEF MatchInv, Resumed
      <4> QED BY <3>1, <4>1, <4>3
    <3>2. CASE FromCache(t) /\ Answered(t, At(cache[t], ctx[t]).result, "cache")
      <4>1. PICK i \in DOMAIN cache[t] :
               /\ cache[t][i].ctx = ctx[t] /\ At(cache[t], ctx[t]) = cache[t][i]
               /\ Usable(cache[t][i].result)
        BY <3>2 DEF FromCache, Has, At
      <4>2. cache[t][i] \in ToSet(cache[t])
        BY DEF ToSet
      <4>3. Matches(cache[t][i].result, cache[t][i].ctx)
        BY <4>2 DEF MatchInv, GoodCaches, Match
      <4>4. cache[t][i].result.ctx = ctx[t]
        BY <4>1, <4>3 DEF Matches, Usable
      <4> QED BY <3>2, <4>1, <4>4
    <3> QED BY <1>5, <3>1, <3>2 DEF Restore
  <2>2. phase = "batch" /\ UNCHANGED <<phase, ctx, pair>>
    BY <1>5 DEF Restore
  <2>3. /\ at'[t] # "idle" /\ answer' = [answer EXCEPT ![t] = r]
        /\ \A u \in Table \ {t} : at'[u] = at[u]
    BY <1>0, <2>1 DEF Answered
  <2> QED BY <1>4, <2>1, <2>2, <2>3
<1>6. ASSUME NEW t \in Table, Ask(t) PROVE AnswersMatch' /\ PairsMatch'
  <2>1. PICK replies \in Conversations(t), metric \in BOOLEAN :
          Answered(t, [ctx |-> ctx[t], kind |-> Outcome(replies), metric |-> metric, final |-> FALSE], "model")
    BY <1>6 DEF Ask
  <2>2. PICK r : Answered(t, r, "model") /\ r.ctx = ctx[t]
    BY <2>1
  <2>3. phase = "batch" /\ UNCHANGED <<phase, ctx, pair>>
    BY <1>6 DEF Ask
  <2>4. /\ at'[t] # "idle" /\ answer' = [answer EXCEPT ![t] = r]
        /\ \A u \in Table \ {t} : at'[u] = at[u]
    BY <1>0, <2>2 DEF Answered
  <2> QED BY <1>4, <2>2, <2>3, <2>4
<1>7. ASSUME NEW t \in Table, Finalize(t) PROVE AnswersMatch' /\ PairsMatch'
  <2>1. phase = "finalize" /\ Matches(pair[t], ctx[t])
    BY <1>0, <1>7 DEF Finalize, PairsMatch
  <2>2. /\ at'[t] # "idle" /\ answer' = [answer EXCEPT ![t] = pair[t]] /\ UNCHANGED <<phase, ctx, pair>>
        /\ \A u \in Table \ {t} : at'[u] = at[u]
    BY <1>0, <1>7 DEF Finalize
  <2> QED BY <1>4, <2>1, <2>2
<1>8. ASSUME NEW t \in Table, Skip(t) \/ Journaling(t) PROVE AnswersMatch' /\ PairsMatch'
  <2>1. /\ at[t] \notin {"idle", "due"} /\ UNCHANGED <<phase, answer, ctx, pair>>
        /\ \A u \in Table \ {t} : at'[u] = at[u]
        /\ at'[t] # "idle"
    BY <1>0, <1>8 DEF Skip, Journaling, Journal, Place, Commit, WriteFails
  <2> QED BY <1>0, <2>1 DEF AnswersMatch, PairsMatch
<1>9. CASE EndBatch
  <2>1. PICK pairs \in Promotions : Propagate(pairs) \/ Settle(pairs)
    BY <1>9 DEF EndBatch
  <2>2. \A t \in Table : Matches(pairs[t], ctx[t]) /\ pairs \in [Table -> Result]
    BY <1>9, PromotedMatch, PromotedTyped DEF EndBatch
  <2>3. /\ \A t \in Table : at'[t] \in {"idle", "due"} /\ ctx'[t] = Injected(pairs)[t]
        /\ \A t \in Table : t \notin Changed(pairs) => ctx'[t] = ctx[t]
    BY <2>1 DEF Propagate, Settle, Changed
  <2>4. CASE Propagate(pairs)
    <3>1. \A t \in Table : at'[t] = "idle" => t \notin Changed(pairs)
      BY <2>4 DEF Propagate
    <3> QED BY <1>9, <2>2, <2>3, <2>4, <3>1 DEF Propagate, AnswersMatch, PairsMatch, EndBatch, BatchOver
  <2>5. CASE Settle(pairs)
    <3>1. ASSUME NEW t \in Table PROVE Matches(pair'[t], ctx'[t])
      <4>0. /\ pair'[t].ctx = pairs[t].ctx
            /\ pair'[t].kind \in {pairs[t].kind, "blocked", "failed", "transient"}
            /\ t \in Changed(pairs) => pair'[t].kind \in {"blocked", "failed", "transient"}
            /\ t \in Changed(pairs) /\ pair'[t].kind = "transient" => pair'[t].ctx = ctx'[t]
            /\ pair'[t].kind = "transient" => pairs[t].kind = "transient" \/ pair'[t].ctx = ctx'[t]
        BY <2>2, <2>5, SettleIs
      <4>1. CASE t \in Changed(pairs)
        BY <4>0, <4>1 DEF Matches
      <4>2. CASE t \notin Changed(pairs)
        BY <2>2, <2>3, <4>0, <4>2 DEF Matches
      <4> QED BY <4>1, <4>2
    <3> QED BY <2>3, <3>1 DEF AnswersMatch, PairsMatch
  <2> QED BY <2>1, <2>4, <2>5
<1>10. CASE (\E noCache \in BOOLEAN : Start(noCache)) \/ Recover \/ Prune \/ Announce \/ Report
            \/ Validate \/ PublishFails
  BY <1>1, <1>10 DEF Start, Recover, Prune, Announce, Report, Validate, PublishFails
<1>11. CASE Finish \/ Leave \/ Die
  BY <1>11, MatchGone DEF Finish, Leave, Die
<1>12. ASSUME NEW f \in File, MoveAway(f) \/ MoveIn(f) \/ PutBack(f) PROVE AnswersMatch' /\ PairsMatch'
  BY <1>1, <1>12 DEF MoveAway, MoveIn, PutBack
<1>13. CASE Interrupt \/ (\E t \in Table : Edit(t)) \/ UNCHANGED vars
  BY <1>2, <1>13 DEF Interrupt, Edit, vars, pipeline
<1> QED
  BY <1>3, <1>5, <1>6, <1>7, <1>8, <1>9, <1>10, <1>11, <1>12, <1>13 DEF Next, Working, Opening, Inspecting

\* What a table is told was made for the context it has now, also after propagation
\* gave it a new one: for any tables, replies, edits, failures and kills.
THEOREM AnswersMade == Spec => []AnswersForContext
<1>1. Init => StagesInv /\ DataInv /\ MatchInv
  BY StagesBegin, DataBegin, MatchBegins
<1>2. StagesInv /\ DataInv /\ MatchInv /\ [Next]_vars => StagesInv' /\ DataInv' /\ MatchInv'
  BY StagesNext, DiskNext, MemoryNext, ContextsNext, PairedNext, JournaledNext,
     ManifestsMatch, CachesMatch, AnswersNext DEF DataInv, MatchInv
<1>3. MatchInv => AnswersForContext
  BY DEF MatchInv, AnswersMatch, AnswersForContext
<1> QED BY <1>1, <1>2, <1>3, PTL DEF Spec

-----------------------------------------------------------------------------
(* The journal between two writes *)

\* A write in progress is not the absence of one.
LEMMA WriteNone == None \notin Write
BY ConstantsAssumption DEF Write, WriteRecord, Entry, EntryRecord

LEMMA VariantsAre ==
    ASSUME NEW e \in Entry, NEW v \in ToSet(e.variants)
    PROVE  v \in Variant /\ v.ctx \in Ctx /\ v.result \in Result /\ v.eligible \in BOOLEAN
<1>1. e.variants \in Seq(Variant)
  BY DEF Entry
<1>2. PICK i \in DOMAIN e.variants : v = e.variants[i]
  BY DEF ToSet
<1>3. v \in Variant
  BY <1>1, <1>2
<1> QED BY <1>3 DEF Variant

\* The entry of t in memory; what is placed counts, although it is still pending.
InMem(t) == IF at[t] = "placed" THEN mem.pending.entry ELSE mem.tables[t]
\* c is a context t had in this generation, and will not have again.
Older(t, c) ==
    /\ phase = "batch"
    /\ c.seen \subseteq ctx[t].seen
    /\ at[t] = "due" => c.seen # ctx[t].seen
\* The manifest in memory is the one of this generation.
Loaded == phase \notin {"off", "recover", "prune"}
\* A context has one sidecar.
KeyedSidecars == \A t \in Table : \A a, b \in sidecars[t] : a.ctx = b.ctx => a = b
\* The entry of a pending write has the result that is written.
PendingRecords == manifest.pending # None =>
    Recording(manifest.pending.ctx, manifest.pending.result) \in ToSet(manifest.pending.entry.variants)
\* Nothing is pending between two writes, but after a failure.
Quiet ==
    /\ Loaded /\ ~broken /\ Writing = {} => mem.pending = None
    /\ phase = "prune" => manifest.pending = None
    /\ phase \notin {"batch", "finalize"} => ~broken
\* At the end every table has an entry about the context it ended up with.
Final(t) == (phase = "finalize" /\ at[t] = "done" /\ ~broken) \/ phase \in Inspected \ {"batch", "finalize"}
Finalized == \A t \in Table : Final(t) =>
    mem.tables[t].active = ctx[t] /\ Has(mem.tables[t].variants, ctx[t])
JournalInv == KeyedSidecars /\ PendingRecords /\ Quiet /\ Finalized
\* Where an answer came from is known for every table.
Sourced == source \in [Table -> {None, "checkpoint", "cache", "model"}]

LEMMA JournalBegins == Init => JournalInv /\ Sourced
<1> SUFFICES ASSUME Init PROVE JournalInv /\ Sourced
  OBVIOUS
<1>1. /\ phase = "off" /\ sidecars = [t \in Table |-> {}] /\ manifest = NoManifest /\ broken = FALSE
      /\ source = [t \in Table |-> None]
  BY DEF Init
<1>2. manifest.pending = None
  BY <1>1 DEF NoManifest
<1> QED BY <1>1, <1>2
        DEF JournalInv, KeyedSidecars, PendingRecords, Quiet, Finalized, Final, Loaded, Inspected, Sourced

\* The sidecars when one of them is put in its place.
LEMMA PutKeyed ==
    ASSUME KeyedSidecars, OnDisk, NEW t \in Table, NEW c \in Ctx, NEW r \in Result,
           sidecars' = [sidecars EXCEPT ![t] = Put(t, c, r)]
    PROVE  /\ KeyedSidecars'
           /\ [ctx |-> c, result |-> r] \in sidecars'[t]
           /\ \A x \in Table \ {t} : sidecars'[x] = sidecars[x]
           /\ \A d \in Ctx \ {c}, q \in Result :
                 [ctx |-> d, result |-> q] \in sidecars[t] <=> [ctx |-> d, result |-> q] \in sidecars'[t]
<1>1. /\ sidecars'[t] = {s \in sidecars[t] : s.ctx # c} \cup {[ctx |-> c, result |-> r]}
      /\ \A x \in Table \ {t} : sidecars'[x] = sidecars[x]
  BY DEF Put, OnDisk
<1>2. KeyedSidecars'
  <2>1. ASSUME NEW x \in Table, NEW a \in sidecars'[x], NEW b \in sidecars'[x], a.ctx = b.ctx PROVE a = b
    BY <1>1, <2>1 DEF KeyedSidecars
  <2> QED BY <2>1 DEF KeyedSidecars
<1> QED BY <1>1, <1>2

\* The result a thread is journaling.
LEMMA JournaledIs ==
    ASSUME StagesInv, DataInv, NEW t \in Table, at[t] \in {"told", "journaled", "placed"}
    PROVE  /\ Loaded /\ Pending(t) \in Write /\ Pending(t) # None
           /\ Pending(t).table = t /\ Pending(t).ctx = ctx[t]
           /\ Pending(t).entry = Recorded(mem.tables[t], ctx[t], Pending(t).result)
           /\ ctx[t] \in Ctx /\ Pending(t).result \in Result /\ mem.tables[t] \in Entry
           /\ at[t] # "told" => manifest = mem /\ mem.pending = Pending(t)
<1>1. phase \in {"batch", "finalize"}
  BY AtWork
<1>2. Pending(t) \in Write /\ ctx[t] \in Ctx
  BY <1>1, AtHand
<1>3. Pending(t) # None /\ Pending(t).result \in Result
  BY <1>2, WriteNone DEF Write
<1>4. mem.tables[t] \in Entry
  BY DEF DataInv, InMemory, Manifest
<1> QED BY <1>1, <1>2, <1>3, <1>4 DEF Pending, Loaded, DataInv, Journaled

\* The step in which the result of the pending write w becomes the one on disk.
Settling(w) ==
    /\ manifest.pending = w
    /\ sidecars' = [sidecars EXCEPT ![w.table] = Put(w.table, w.ctx, w.result)]
    /\ Settled(w.table, w.ctx, w.result)

LEMMA PlaceSettles ==
    ASSUME StagesInv, DataInv, NEW t \in Table, Place(t)
    PROVE  /\ \E w \in Write : Settling(w) /\ w.table = t
           /\ manifest = mem /\ mem' = mem /\ manifest' = manifest /\ ctx' = ctx /\ resume' = resume
           /\ phase' = phase /\ broken' = broken
           /\ at' \in [Table -> Stage] /\ at[t] = "journaled" /\ at'[t] = "placed"
           /\ \A x \in Table \ {t} : at'[x] = at[x]
           /\ phase \in {"batch", "finalize"}
           /\ mem.pending.ctx = ctx[t] /\ mem.pending.table = t
<1>1. at[t] = "journaled" /\ phase \in {"batch", "finalize"}
  BY AtWork DEF Place
<1>2. /\ Pending(t) \in Write /\ Pending(t).table = t /\ Pending(t).ctx = ctx[t]
      /\ manifest = mem /\ mem.pending = Pending(t)
  BY <1>1, JournaledIs
<1>3. Settling(Pending(t))
  BY <1>2 DEF Place, Settling
<1>4. /\ at' \in [Table -> Stage] /\ at'[t] = "placed"
      /\ \A x \in Table \ {t} : at'[x] = at[x]
  BY DEF Place, StagesInv, Where, Stage
<1> QED BY <1>1, <1>2, <1>3, <1>4 DEF Place, loaded

LEMMA RecoverSettles ==
    ASSUME DataInv, Recover, manifest.pending # None
    PROVE  \E w \in Write :
           /\ Settling(w)
           /\ manifest' \in Manifest /\ manifest'.pending = None
           /\ manifest'.tables[w.table] = w.entry
           /\ \A x \in Table \ {w.table} : manifest'.tables[x] = manifest.tables[x]
<1>1. PICK w \in Write : manifest.pending = w
  BY DEF DataInv, OnDisk, Manifest
<1>2. Settling(w) /\ manifest' = [manifest EXCEPT !.tables[w.table] = w.entry, !.pending = None]
  BY <1>1 DEF Recover, Settling
<1>3. w.table \in Table /\ w.entry \in Entry
  BY DEF Write
<1> QED BY <1>2, <1>3 DEF DataInv, OnDisk, Manifest

LEMMA SettlingIs ==
    ASSUME OnDisk, JournalInv, NEW w \in Write, Settling(w)
    PROVE  /\ w.table \in Table /\ w.ctx \in Ctx /\ w.result \in Result /\ w.entry \in Entry /\ w # None
           /\ KeyedSidecars'
           /\ [ctx |-> w.ctx, result |-> w.result] \in sidecars'[w.table]
           /\ \A x \in Table \ {w.table} : sidecars'[x] = sidecars[x] /\ Effective(x) = manifest.tables[x]
           /\ \A d \in Ctx \ {w.ctx}, q \in Result :
                 [ctx |-> d, result |-> q] \in sidecars[w.table] <=> [ctx |-> d, result |-> q] \in sidecars'[w.table]
           /\ Recording(w.ctx, w.result) \in ToSet(w.entry.variants)
<1>1. w.table \in Table /\ w.ctx \in Ctx /\ w.result \in Result /\ w.entry \in Entry /\ w # None
  BY WriteNone DEF Write
<1>2. \A x \in Table \ {w.table} : Effective(x) = manifest.tables[x]
  BY DEF Effective, Settling
<1>3. Recording(w.ctx, w.result) \in ToSet(w.entry.variants)
  BY <1>1 DEF JournalInv, PendingRecords, Settling
<1> QED BY <1>1, <1>2, <1>3, PutKeyed DEF JournalInv, Settling

\* The other steps of the journal leave what is in memory as it is.
LEMMA JournalSteps ==
    ASSUME StagesInv, DataInv, NEW t \in Table, Journal(t) \/ Commit(t) \/ WriteFails(t)
    PROVE  /\ UNCHANGED <<sidecars, cacheFile, cache, resume, ctx, pair, paid, rejected, phase, fresh>>
           /\ Loaded /\ phase \in {"batch", "finalize"}
           /\ at[t] # "due" /\ at'[t] \notin {"due", "placed"} /\ \A x \in Table \ {t} : at'[x] = at[x]
           /\ \A x \in Table : InMem(x)' = InMem(x)
<1>0. at \in [Table -> Stage] /\ mem \in Manifest
  BY DEF StagesInv, Where, DataInv, InMemory
<1>1. UNCHANGED <<sidecars, cacheFile, cache, resume, ctx, pair, paid, rejected, phase, fresh>>
  BY DEF Journal, Commit, WriteFails, disk, history
<1>2. Loaded /\ phase \in {"batch", "finalize"}
  BY JournaledIs, AtWork DEF Journal, Commit, WriteFails
<1>3. at[t] # "due" /\ at'[t] \notin {"due", "placed"} /\ \A x \in Table \ {t} : at'[x] = at[x]
  BY <1>0 DEF Journal, Commit, WriteFails
<1>4. ASSUME NEW x \in Table \ {t} PROVE mem'.tables[x] = mem.tables[x] /\ at[x] # "placed"
  <2>1. mem'.tables[x] = mem.tables[x]
    BY <1>0 DEF Journal, Commit, WriteFails, Manifest
  <2>2. at[x] # "placed"
    BY DEF Journal, Commit, WriteFails, Writing, StagesInv, Alone
  <2> QED BY <2>1, <2>2
<1>5. mem'.tables[t] = IF at[t] = "placed" THEN mem.pending.entry ELSE mem.tables[t]
  <2>1. CASE Journal(t)
    BY <1>0, <2>1 DEF Journal, Manifest
  <2>2. CASE Commit(t)
    BY <1>0, <2>2 DEF Commit, Manifest
  <2>3. CASE WriteFails(t)
    BY <1>0, <2>3 DEF WriteFails, Manifest
  <2> QED BY <2>1, <2>2, <2>3
<1>6. \A x \in Table : InMem(x)' = InMem(x)
  BY <1>3, <1>4, <1>5 DEF InMem
<1> QED BY <1>1, <1>2, <1>3, <1>6

\* What is placed is in memory.
LEMMA PlaceInMem ==
    ASSUME StagesInv, DataInv, NEW t \in Table, Place(t)
    PROVE  \E w \in Write :
           /\ Settling(w) /\ w.table = t /\ w.ctx = ctx[t] /\ mem.pending = w
           /\ InMem(t) = mem.tables[t]
           /\ \A x \in Table : InMem(x)' = IF x = t THEN w.entry ELSE InMem(x)
<1>1. PICK w \in Write : Settling(w) /\ w.table = t
  BY PlaceSettles
<1>2. /\ mem' = mem /\ mem.pending = w /\ at[t] = "journaled" /\ at'[t] = "placed" /\ w.ctx = ctx[t]
      /\ \A x \in Table \ {t} : at'[x] = at[x]
  BY <1>1, PlaceSettles DEF Settling
<1>3. \A x \in Table \ {t} : at[x] # "placed"
  BY <1>2 DEF StagesInv, Alone
<1>4. \A x \in Table : InMem(x)' = IF x = t THEN w.entry ELSE InMem(x)
  BY <1>2, <1>3 DEF InMem
<1> QED BY <1>1, <1>2, <1>4 DEF InMem

\* The other threads and the end of a batch leave it as well.
LEMMA InMemStays ==
    ASSUME StagesInv, DataInv,
           EndBatch \/ Report \/ Validate \/ PublishFails \/ Interrupt \/ Announce \/ OpenInspector
           \/ (\E t \in Table : Inspecting(t) \/ Finalize(t)) \/ UNCHANGED vars
           \/ \E f \in File : MoveAway(f) \/ MoveIn(f) \/ PutBack(f)
    PROVE  UNCHANGED <<mem, sidecars>> /\ \A x \in Table : InMem(x)' = InMem(x)
<1>0. at \in [Table -> Stage]
  BY DEF StagesInv, Where
<1>1. ASSUME UNCHANGED mem, \A x \in Table : at'[x] = "placed" <=> at[x] = "placed"
      PROVE  \A x \in Table : InMem(x)' = InMem(x)
  BY <1>1 DEF InMem
<1>2. CASE Report \/ Validate \/ PublishFails \/ Interrupt \/ Announce \/ UNCHANGED vars
  <2>1. UNCHANGED <<mem, at, sidecars>>
    BY <1>2 DEF Report, Validate, PublishFails, Interrupt, Announce, vars, disk, loaded, pipeline
  <2> QED BY <1>1, <2>1
<1>3. CASE OpenInspector
  <2>1. /\ UNCHANGED <<mem, sidecars>> /\ phase = "open"
        /\ \A t \in Table : at'[t] = "due"
    BY <1>3 DEF OpenInspector
  <2>2. \A t \in Table : at[t] # "placed"
    BY <2>1, AtWork
  <2> QED BY <1>1, <2>1, <2>2
<1>4. ASSUME NEW t \in Table, Inspecting(t) \/ Finalize(t)
      PROVE  UNCHANGED <<mem, sidecars>> /\ \A x \in Table : InMem(x)' = InMem(x)
  <2>1. /\ at[t] # "placed" /\ at'[t] # "placed"
        /\ \A x \in Table \ {t} : at'[x] = at[x]
    BY <1>0, <1>4 DEF Inspecting, Restore, Ask, Skip, Finalize, Answered
  <2>2. UNCHANGED <<mem, sidecars>>
    BY <1>4 DEF Inspecting, Restore, Ask, Skip, Finalize, disk, loaded
  <2> QED BY <1>1, <2>1, <2>2
<1>5. CASE EndBatch
  <2>1. UNCHANGED <<mem, sidecars>> /\ \A t \in Table : at'[t] \in {"idle", "due"}
    BY <1>5 DEF EndBatch, BatchOver, Propagate, Settle, disk, loaded
  <2>2. \A t \in Table : at[t] # "placed"
    BY <1>5 DEF EndBatch, BatchOver, InBatch
  <2> QED BY <1>1, <2>1, <2>2
<1>6. ASSUME NEW f \in File, MoveAway(f) \/ MoveIn(f) \/ PutBack(f)
      PROVE  UNCHANGED <<mem, sidecars>> /\ \A x \in Table : InMem(x)' = InMem(x)
  <2>1. UNCHANGED <<mem, at, sidecars>>
    BY <1>6 DEF MoveAway, MoveIn, PutBack, loaded, pipeline
  <2> QED BY <1>1, <2>1
<1> QED BY <1>2, <1>3, <1>4, <1>5, <1>6

\* A context that lies behind its table stays behind it.
LEMMA OlderStays ==
    ASSUME StagesInv, DataInv, EndBatch, NEW t \in Table, NEW c \in Ctx, Older(t, c), phase' = "batch"
    PROVE  Older(t, c)'
<1>1. PICK pairs \in Promotions : Propagate(pairs)
  BY DEF EndBatch, Settle
<1>2. phase = "batch" /\ ctx' = Injected(pairs) /\ ctx[t] \in Ctx
  BY <1>1 DEF Propagate, EndBatch, BatchOver, DataInv, Asked, Inspected
<1>3. ctx'[t] = [ctx[t] EXCEPT !.seen = @ \cup (Upstream[t] \cap Detected(pairs))]
  BY <1>2 DEF Injected
<1>4. ctx'[t].ver = ctx[t].ver /\ ctx'[t].seen = ctx[t].seen \cup (Upstream[t] \cap Detected(pairs))
  BY <1>2, <1>3 DEF Ctx
<1>5. ctx'[t].seen = ctx[t].seen => ctx'[t] = ctx[t]
  BY <1>2, <1>3 DEF Ctx
<1>6. at'[t] = "due" => ctx'[t] # ctx[t]
  BY <1>1, <1>2 DEF Propagate, Changed
<1> QED BY <1>4, <1>5, <1>6 DEF Older

LEMMA SidecarsNext == StagesInv /\ DataInv /\ JournalInv /\ [Next]_vars => KeyedSidecars'
<1> SUFFICES ASSUME StagesInv, DataInv, JournalInv, [Next]_vars PROVE KeyedSidecars'
  OBVIOUS
<1>1. ASSUME \A t \in Table : sidecars'[t] \subseteq sidecars[t]
      PROVE  KeyedSidecars'
  BY <1>1 DEF JournalInv, KeyedSidecars
<1>2. ASSUME UNCHANGED sidecars PROVE KeyedSidecars'
  BY <1>1, <1>2
<1>3. ASSUME NEW w \in Write, Settling(w) PROVE KeyedSidecars'
  BY <1>3, SettlingIs DEF DataInv
<1>4. CASE Recover
  <2>1. CASE manifest.pending = None
    BY <1>2, <1>4, <2>1 DEF Recover
  <2>2. CASE manifest.pending # None
    BY <1>3, <1>4, <2>2, RecoverSettles
  <2> QED BY <2>1, <2>2
<1>5. CASE Prune
  BY <1>1, <1>5 DEF Prune
<1>6. ASSUME NEW t \in Table, Place(t) PROVE KeyedSidecars'
  BY <1>3, <1>6, PlaceSettles
<1>7. CASE Finish
  BY <1>1, <1>7 DEF Finish
<1>8. CASE Announce \/ OpenInspector \/ EndBatch \/ Report \/ Validate \/ Leave \/ PublishFails \/ Interrupt \/ Die
  BY <1>2, <1>8
     DEF Announce, OpenInspector, EndBatch, Report, Validate, Leave, PublishFails, Interrupt, Die, disk
<1>9. ASSUME NEW t \in Table, Inspecting(t) \/ Finalize(t) \/ Edit(t) PROVE KeyedSidecars'
  BY <1>2, <1>9 DEF Inspecting, Restore, Ask, Skip, Finalize, Edit, disk
<1>10. ASSUME NEW t \in Table, Journal(t) \/ Commit(t) \/ WriteFails(t) PROVE KeyedSidecars'
  BY <1>2, <1>10 DEF Journal, Commit, WriteFails, disk
<1>11. ASSUME NEW f \in File, MoveAway(f) \/ MoveIn(f) \/ PutBack(f) PROVE KeyedSidecars'
  BY <1>2, <1>11 DEF MoveAway, MoveIn, PutBack
<1>12. ASSUME NEW noCache \in BOOLEAN, Start(noCache) PROVE KeyedSidecars'
  BY <1>2, <1>12 DEF Start, disk
<1>13. CASE UNCHANGED vars
  BY <1>2, <1>13 DEF vars, disk
<1> QED BY <1>4, <1>5, <1>6, <1>7, <1>8, <1>9, <1>10, <1>11, <1>12, <1>13
        DEF Next, Working, Opening, Journaling

LEMMA RecordsNext == StagesInv /\ DataInv /\ JournalInv /\ [Next]_vars => PendingRecords'
<1> SUFFICES ASSUME StagesInv, DataInv, JournalInv, [Next]_vars PROVE PendingRecords'
  OBVIOUS
<1>0. PendingRecords /\ Quiet /\ at \in [Table -> Stage] /\ mem \in Manifest
  BY DEF JournalInv, StagesInv, Where, DataInv, InMemory
<1>1. ASSUME manifest' = manifest \/ manifest'.pending = None PROVE PendingRecords'
  BY <1>0, <1>1 DEF PendingRecords
<1>2. CASE Recover
  BY <1>1, <1>2, RecoverSettles DEF Recover
<1>3. CASE Announce \/ Report \/ Finish
  <2>1. Loaded /\ Writing = {} /\ ~broken /\ manifest'.pending = mem.pending
    <3>1. CASE Announce \/ Finish
      BY <1>0, <3>1, AtWork DEF Announce, Finish, Loaded, Writing, Quiet
    <3>2. CASE Report
      BY <3>2 DEF Report, Loaded, Writing
    <3> QED BY <1>3, <3>1, <3>2
  <2> QED BY <1>0, <1>1, <2>1 DEF Quiet
<1>4. ASSUME NEW t \in Table, Journal(t) PROVE PendingRecords'
  <2> DEFINE w == Pending(t)
  <2>1. /\ w.ctx = ctx[t] /\ w.entry = Recorded(mem.tables[t], ctx[t], w.result)
        /\ ctx[t] \in Ctx /\ w.result \in Result /\ mem.tables[t] \in Entry
    BY <1>4, JournaledIs DEF Journal
  <2>2. manifest'.pending = w
    BY <1>0, <1>4 DEF Journal, Manifest
  <2> HIDE DEF w
  <2>3. Recording(w.ctx, w.result) \in ToSet(w.entry.variants)
    BY <2>1, RecordedVariants
  <2> QED BY <2>2, <2>3 DEF PendingRecords
<1>5. ASSUME NEW t \in Table, Commit(t) PROVE PendingRecords'
  BY <1>0, <1>1, <1>5 DEF Commit, Manifest
<1>6. CASE Prune \/ OpenInspector \/ EndBatch \/ Validate \/ Leave \/ PublishFails \/ Interrupt \/ Die
  BY <1>1, <1>6 DEF Prune, OpenInspector, EndBatch, Validate, Leave, PublishFails, Interrupt, Die, disk
<1>7. ASSUME NEW t \in Table, Inspecting(t) \/ Finalize(t) \/ Place(t) \/ WriteFails(t) \/ Edit(t)
      PROVE  PendingRecords'
  BY <1>1, <1>7 DEF Inspecting, Restore, Ask, Skip, Finalize, Place, WriteFails, Edit, disk
<1>8. ASSUME NEW f \in File, MoveAway(f) \/ MoveIn(f) \/ PutBack(f) PROVE PendingRecords'
  BY <1>1, <1>8 DEF MoveAway, MoveIn, PutBack
<1>9. ASSUME NEW noCache \in BOOLEAN, Start(noCache) PROVE PendingRecords'
  BY <1>1, <1>9 DEF Start, disk
<1>10. CASE UNCHANGED vars
  BY <1>1, <1>10 DEF vars, disk
<1> QED BY <1>2, <1>3, <1>4, <1>5, <1>6, <1>7, <1>8, <1>9, <1>10 DEF Next, Working, Opening, Journaling

\* Steps that leave broken, at, phase and what is pending alone keep Quiet.
LEMMA QuietNext == StagesInv /\ DataInv /\ JournalInv /\ [Next]_vars => Quiet'
<1> SUFFICES ASSUME StagesInv, DataInv, JournalInv, [Next]_vars PROVE Quiet'
  OBVIOUS
<1>0. Quiet /\ at \in [Table -> Stage] /\ mem \in Manifest
  BY DEF JournalInv, StagesInv, Where, DataInv, InMemory
<1>1. ASSUME UNCHANGED <<mem, broken>>, Writing' = Writing, Loaded, phase' \notin {"off", "prune", "recover"},
             phase \in {"batch", "finalize"} => phase' \in {"batch", "finalize"}
      PROVE  Quiet'
  BY <1>0, <1>1 DEF Quiet, Loaded
<1>2. ASSUME broken', phase' \in {"batch", "finalize"} PROVE Quiet'
  BY <1>2 DEF Quiet
<1>3. ASSUME mem'.pending = None, phase' # "prune", broken' = FALSE \/ phase' \in {"batch", "finalize"} PROVE Quiet'
  BY <1>3 DEF Quiet
<1>4. ASSUME Gone PROVE Quiet'
  BY <1>4 DEF Quiet, Gone, Loaded
<1>5. CASE Recover
  <2>1. manifest'.pending = None
    <3>1. CASE manifest.pending = None
      BY <1>5, <3>1 DEF Recover
    <3>2. CASE manifest.pending # None
      BY <1>5, <3>2, RecoverSettles
    <3> QED BY <3>1, <3>2
  <2> QED BY <1>0, <1>5, <2>1 DEF Recover, Quiet, Loaded, pipeline
<1>6. CASE Prune
  BY <1>0, <1>3, <1>6 DEF Prune, Quiet, pipeline
<1>7. CASE Announce \/ OpenInspector \/ Report \/ Validate \/ PublishFails
  <2>1. /\ UNCHANGED <<mem, broken>> /\ Loaded /\ phase' \notin {"off", "prune", "recover"}
        /\ phase \notin {"batch", "finalize"} \/ ~broken
    BY <1>7 DEF Announce, OpenInspector, Report, Validate, PublishFails, pipeline, loaded, Loaded
  <2>2. Writing' = {}
    BY <1>7, <2>1, AtWork
      DEF Announce, OpenInspector, Report, Validate, PublishFails, pipeline, Writing
  <2>3. Writing = {}
    BY <1>7, AtWork DEF Announce, OpenInspector, Report, Validate, PublishFails, Writing
  <2> QED BY <1>0, <2>1, <2>2, <2>3 DEF Quiet, Loaded
<1>8. ASSUME NEW t \in Table, Inspecting(t) \/ Finalize(t) PROVE Quiet'
  <2>1. /\ at[t] \notin {"journaled", "placed"} /\ at' \in [Table -> Stage] /\ at'[t] \notin {"journaled", "placed"}
        /\ \A x \in Table \ {t} : at'[x] = at[x]
    BY <1>0, <1>8 DEF Inspecting, Restore, Ask, Skip, Finalize, Answered, Stage
  <2>2. Writing' = Writing
    BY <2>1 DEF Writing
  <2>3. UNCHANGED <<mem, broken, phase>> /\ phase \in {"batch", "finalize"}
    BY <1>8, AtWork DEF Inspecting, Restore, Ask, Skip, Finalize, loaded
  <2> QED BY <1>1, <2>2, <2>3 DEF Loaded
<1>9. ASSUME NEW t \in Table, Journaling(t) PROVE Quiet'
  <2>1. phase \in {"batch", "finalize"} /\ phase' = phase
    BY <1>9, AtWork DEF Journaling, Journal, Place, Commit, WriteFails
  <2>2. CASE Journal(t) \/ Place(t)
    <3>1. t \in Writing'
      BY <1>0, <2>2 DEF Journal, Place, Writing
    <3> QED BY <2>1, <3>1 DEF Quiet
  <2>3. CASE Commit(t)
    <3>1. mem'.pending = None
      BY <1>0, <2>3 DEF Commit, Manifest
    <3> QED BY <1>3, <2>1, <3>1
  <2>4. CASE WriteFails(t)
    BY <1>2, <2>1, <2>4 DEF WriteFails
  <2> QED BY <1>9, <2>2, <2>3, <2>4 DEF Journaling
<1>10. CASE EndBatch
  <2>1. Writing = {} /\ mem.pending = None
    <3>1. Writing = {}
      BY <1>10 DEF EndBatch, BatchOver, InBatch, Writing
    <3> QED BY <1>0, <1>10, <3>1 DEF EndBatch, BatchOver, Quiet, Loaded
  <2>2. mem' = mem /\ phase' \in {"batch", "finalize"}
    BY <1>10 DEF EndBatch, BatchOver, Propagate, Settle, loaded
  <2> QED BY <1>3, <2>1, <2>2
<1>11. CASE Interrupt
  BY <1>2, <1>11 DEF Interrupt
<1>12. CASE Finish \/ Leave \/ Die
  BY <1>4, <1>12 DEF Finish, Leave, Die
<1>13. ASSUME NEW f \in File, MoveAway(f) \/ MoveIn(f) \/ PutBack(f) PROVE Quiet'
  <2>1. UNCHANGED <<at, mem, broken>> /\ phase \in Publishing /\ phase' \in Publishing \cup {"finish"}
    BY <1>13 DEF MoveAway, MoveIn, PutBack, pipeline, loaded, Publishing
  <2>2. Writing' = Writing
    BY <2>1 DEF Writing
  <2> QED BY <1>1, <2>1, <2>2 DEF Publishing, Loaded
<1>14. ASSUME NEW noCache \in BOOLEAN, Start(noCache) PROVE Quiet'
  BY <1>0, <1>14 DEF Start, pipeline, Quiet, Loaded
<1>15. ASSUME NEW t \in Table, Edit(t) PROVE Quiet'
  BY <1>0, <1>15 DEF Edit, pipeline, loaded, disk, Quiet, Loaded
<1>16. CASE UNCHANGED vars
  BY <1>0, <1>16 DEF vars, disk, pipeline, loaded, Quiet, Loaded, Writing
<1> QED BY <1>5, <1>6, <1>7, <1>8, <1>9, <1>10, <1>11, <1>12, <1>13, <1>14, <1>15, <1>16
        DEF Next, Working, Opening

LEMMA FinalizedNext == StagesInv /\ DataInv /\ JournalInv /\ [Next]_vars => Finalized'
<1> SUFFICES ASSUME StagesInv, DataInv, JournalInv, [Next]_vars PROVE Finalized'
  OBVIOUS
<1>0. Finalized /\ at \in [Table -> Stage] /\ mem \in Manifest /\ phase \in Phase
  BY DEF JournalInv, StagesInv, Where, DataInv, InMemory
<1>1. ASSUME UNCHANGED <<mem, ctx>>, \A t \in Table : Final(t)' => Final(t) PROVE Finalized'
  BY <1>0, <1>1 DEF Finalized
<1>2. ASSUME \A t \in Table : ~Final(t)' PROVE Finalized'
  BY <1>2 DEF Finalized
<1>3. ASSUME phase' \in {"off", "recover", "prune", "announce", "open", "batch"} PROVE Finalized'
  BY <1>2, <1>3 DEF Final, Inspected
<1>4. ASSUME phase' \in {"batch", "finalize"}, broken' PROVE Finalized'
  BY <1>2, <1>4 DEF Final, Inspected
<1>5. CASE Opening
  BY <1>3, <1>5 DEF Opening, Recover, Prune, Announce, OpenInspector
<1>6. ASSUME NEW t \in Table, Inspecting(t) PROVE Finalized'
  <2>1. CASE Restore(t) \/ Ask(t)
    BY <1>3, <2>1 DEF Restore, Ask
  <2>2. CASE Skip(t)
    BY <1>4, <2>2, AtWork DEF Skip
  <2> QED BY <1>6, <2>1, <2>2 DEF Inspecting
<1>7. ASSUME NEW t \in Table, Finalize(t) PROVE Finalized'
  <2>1. at'[t] = "told" /\ \A x \in Table \ {t} : at'[x] = at[x]
    BY <1>0, <1>7 DEF Finalize
  <2> QED BY <1>1, <1>7, <2>1 DEF Finalize, Final, Inspected
<1>8. ASSUME NEW t \in Table, Journal(t) PROVE Finalized'
  <2>1. mem'.tables = mem.tables /\ UNCHANGED <<ctx, broken, phase>> /\ phase \in {"batch", "finalize"}
    BY <1>0, <1>8, AtWork DEF Journal, Manifest
  <2>2. at'[t] = "journaled" /\ \A x \in Table \ {t} : at'[x] = at[x]
    BY <1>0, <1>8 DEF Journal
  <2> QED BY <1>0, <2>1, <2>2 DEF Finalized, Final, Inspected
<1>9. ASSUME NEW t \in Table, Place(t) PROVE Finalized'
  <2>1. /\ UNCHANGED <<mem, ctx, broken, phase>> /\ phase \in {"batch", "finalize"}
        /\ at'[t] = "placed" /\ \A x \in Table \ {t} : at'[x] = at[x]
    BY <1>9, PlaceSettles
  <2> QED BY <1>1, <2>1 DEF Final, Inspected
<1>10. ASSUME NEW t \in Table, Commit(t) PROVE Finalized'
  <2>1. /\ phase \in {"batch", "finalize"} /\ UNCHANGED <<phase, ctx, broken>>
        /\ \A x \in Table \ {t} : at'[x] = at[x]
        /\ mem'.tables[t] = mem.pending.entry /\ \A x \in Table \ {t} : mem'.tables[x] = mem.tables[x]
    BY <1>0, <1>10, AtWork DEF Commit, Manifest
  <2>2. PICK r \in Result : mem.pending.entry = Recorded(mem.tables[t], ctx[t], r)
    BY <1>10, JournaledIs DEF Commit
  <2>3. ctx[t] \in Ctx /\ mem.tables[t] \in Entry
    BY <1>10, JournaledIs DEF Commit
  <2>4. mem.pending.entry.active = ctx[t] /\ Recording(ctx[t], r) \in ToSet(mem.pending.entry.variants)
    BY <2>2, <2>3, RecordedVariants
  <2>5. Has(mem.pending.entry.variants, ctx[t])
    <3>1. PICK i \in DOMAIN mem.pending.entry.variants : mem.pending.entry.variants[i] = Recording(ctx[t], r)
      BY <2>4 DEF ToSet
    <3> QED BY <3>1 DEF Has, Recording
  <2>6. ASSUME NEW x \in Table, Final(x)'
        PROVE  mem'.tables[x].active = ctx'[x] /\ Has(mem'.tables[x].variants, ctx'[x])
    <3>1. CASE x = t
      BY <2>1, <2>4, <2>5, <3>1
    <3>2. CASE x # t
      <4>1. Final(x)
        BY <2>1, <2>6, <3>2 DEF Final, Inspected
      <4> QED BY <1>0, <2>1, <3>2, <4>1 DEF Finalized
    <3> QED BY <3>1, <3>2
  <2> QED BY <2>6 DEF Finalized
<1>11. ASSUME NEW t \in Table, WriteFails(t) PROVE Finalized'
  BY <1>4, <1>11, AtWork DEF WriteFails
<1>12. CASE EndBatch
  <2>1. /\ phase' \in {"batch", "finalize"}
        /\ \A t \in Table : at'[t] # "done"
    BY <1>12 DEF EndBatch, BatchOver, Propagate, Settle
  <2> QED BY <1>2, <2>1 DEF Final, Inspected
<1>13. CASE Report
  BY <1>1, <1>13 DEF Report, Final, pipeline, loaded
<1>14. CASE Validate \/ PublishFails
  <2>1. UNCHANGED <<mem, ctx>> /\ phase \in Inspected \ {"batch", "finalize"}
    BY <1>14 DEF Validate, PublishFails, pipeline, loaded, Inspected
  <2> QED BY <1>1, <2>1 DEF Final
<1>15. ASSUME NEW f \in File, MoveAway(f) \/ MoveIn(f) \/ PutBack(f) PROVE Finalized'
  <2>1. UNCHANGED <<mem, ctx>> /\ phase \in Inspected \ {"batch", "finalize"}
    BY <1>15 DEF MoveAway, MoveIn, PutBack, pipeline, loaded, Inspected
  <2> QED BY <1>1, <2>1 DEF Final
<1>16. CASE Finish \/ Leave \/ Die
  BY <1>3, <1>16 DEF Finish, Leave, Die, Gone
<1>17. CASE Interrupt
  BY <1>4, <1>17 DEF Interrupt
<1>18. ASSUME NEW noCache \in BOOLEAN, Start(noCache) PROVE Finalized'
  BY <1>3, <1>18 DEF Start
<1>19. ASSUME NEW t \in Table, Edit(t) PROVE Finalized'
  BY <1>3, <1>19 DEF Edit
<1>20. CASE UNCHANGED vars
  BY <1>1, <1>20 DEF vars, pipeline, loaded, Final
<1> QED BY <1>5, <1>6, <1>7, <1>8, <1>9, <1>10, <1>11, <1>12, <1>13, <1>14, <1>15, <1>16, <1>17, <1>18, <1>19, <1>20
        DEF Next, Working, Journaling

LEMMA SourcedNext == Sourced /\ [Next]_vars => Sourced'
<1> SUFFICES ASSUME Sourced, [Next]_vars PROVE Sourced'
  OBVIOUS
<1>1. ASSUME UNCHANGED source PROVE Sourced'
  BY <1>1 DEF Sourced
<1>2. ASSUME Gone PROVE Sourced'
  BY <1>2 DEF Gone, Sourced
<1>3. ASSUME NEW t \in Table, Inspecting(t) PROVE Sourced'
  BY <1>3 DEF Inspecting, Restore, Ask, Skip, Answered, Sourced
<1>4. ASSUME NEW t \in Table, Journaling(t) \/ Finalize(t) \/ Edit(t) PROVE Sourced'
  BY <1>1, <1>4 DEF Journaling, Journal, Place, Commit, WriteFails, Finalize, Edit, pipeline
<1>5. CASE Opening \/ EndBatch \/ Report \/ Validate \/ PublishFails \/ Interrupt
  BY <1>1, <1>5 DEF Opening, Recover, Prune, Announce, OpenInspector, EndBatch, Report, Validate,
                    PublishFails, Interrupt, pipeline
<1>6. ASSUME NEW f \in File, MoveAway(f) \/ MoveIn(f) \/ PutBack(f) PROVE Sourced'
  BY <1>1, <1>6 DEF MoveAway, MoveIn, PutBack, pipeline
<1>7. CASE Finish \/ Leave \/ Die
  BY <1>2, <1>7 DEF Finish, Leave, Die
<1>8. ASSUME NEW noCache \in BOOLEAN, Start(noCache) PROVE Sourced'
  BY <1>1, <1>8 DEF Start, pipeline
<1>9. CASE UNCHANGED vars
  BY <1>1, <1>9 DEF vars, pipeline
<1> QED BY <1>3, <1>4, <1>5, <1>6, <1>7, <1>8, <1>9 DEF Next, Working

\* Only a table that is due gets an answer: a reused one, or the model's.
LEMMA AnswersAre ==
    ASSUME StagesInv, [Next]_vars, NEW t \in Table, Answers(t)
    PROVE  phase = "batch" /\ at[t] = "due" /\ (Restore(t) \/ Ask(t))
<1> USE DEF Answers
<1>0. at \in [Table -> Stage] /\ phase \in {"batch", "finalize"} /\ at[t] = "due" /\ at'[t] # at[t]
  BY AtWork DEF StagesInv, Where
<1>1. ASSUME NEW x \in Table, Inspecting(x) \/ Journaling(x) \/ Finalize(x) PROVE x = t
  BY <1>0, <1>1 DEF Inspecting, Restore, Ask, Skip, Answered, Journaling, Journal, Place, Commit,
                    WriteFails, Finalize
<1>2. ~(Skip(t) \/ Journaling(t) \/ Finalize(t))
  BY <1>0 DEF Skip, Journaling, Journal, Place, Commit, WriteFails, Finalize
<1>3. ~(Opening \/ EndBatch \/ Report \/ Validate \/ PublishFails \/ Interrupt)
  BY <1>0 DEF Opening, Recover, Prune, Announce, OpenInspector, EndBatch, Propagate, Settle, Report,
              Validate, PublishFails, Interrupt, pipeline
<1>4. \A f \in File : ~(MoveAway(f) \/ MoveIn(f) \/ PutBack(f))
  BY <1>0 DEF MoveAway, MoveIn, PutBack, pipeline
<1>5. ~(Finish \/ Leave \/ Die)
  BY <1>0 DEF Finish, Leave, Die, Gone
<1>6. \A noCache \in BOOLEAN : ~Start(noCache)
  BY <1>0 DEF Start
<1>7. \A x \in Table : ~Edit(x)
  BY <1>0 DEF Edit
<1>8. ~UNCHANGED vars
  BY <1>0 DEF vars, pipeline
<1>9. Inspecting(t)
  BY <1>1, <1>2, <1>3, <1>4, <1>5, <1>6, <1>7, <1>8 DEF Next, Working
<1>10. Restore(t) \/ Ask(t)
  BY <1>2, <1>9 DEF Inspecting
<1> QED BY <1>0, <1>10 DEF Restore, Ask

\* What the two properties of the journal rest on.
LEMMA JournalNext ==
    StagesInv /\ DataInv /\ JournalInv /\ Sourced /\ [Next]_vars => StagesInv' /\ DataInv' /\ JournalInv' /\ Sourced'
BY StagesNext, DiskNext, MemoryNext, ContextsNext, PairedNext, JournaledNext, SourcedNext, SidecarsNext,
   RecordsNext, QuietNext, FinalizedNext DEF DataInv, JournalInv

-----------------------------------------------------------------------------
(* Nothing is paid for twice *)

\* A good result for c that a resumed generation would use: s are the sidecars.
Holds(s, c, e) == \E v \in ToSet(e.variants) :
    /\ v.ctx = c /\ v.result.kind = "passed" /\ v.eligible
    /\ [ctx |-> c, result |-> v.result] \in s
PaidType == paid \in SUBSET (Table \X Ctx)
PaidOnDisk == \A t \in Table, c \in Ctx : <<t, c>> \in paid => Holds(sidecars[t], c, Effective(t))
\* Finishing the pending write of a generation that was killed loses nothing.
PaidPending == manifest.pending # None =>
    LET w == manifest.pending IN
    \A c \in Ctx \ {w.ctx} : <<w.table, c>> \in paid => Holds(sidecars[w.table], c, w.entry)
PaidInMemory == Loaded => \A t \in Table, c \in Ctx : <<t, c>> \in paid => Holds(sidecars[t], c, InMem(t))
PaidLoaded == phase \in {"announce", "open", "batch"} =>
    \A t \in Table, c \in Ctx : <<t, c>> \in paid => Has(resume[t].variants, c) \/ Older(t, c)
PaidInv == PaidType /\ PaidOnDisk /\ PaidPending /\ PaidInMemory /\ PaidLoaded
\* What is assumed: no table ever had more contexts than the checkpoint keeps results
\* for, so none was pushed out by a later one.
RoomForVariants == \A t \in Table : at[t] = "told" =>
    Has(mem.tables[t].variants, ctx[t]) \/ Len(mem.tables[t].variants) < MaxVariants

LEMMA PaidBegins == Init => PaidInv
<1> SUFFICES ASSUME Init PROVE PaidInv
  OBVIOUS
<1>1. phase = "off" /\ paid = {} /\ manifest = NoManifest
  BY DEF Init
<1>2. manifest.pending = None
  BY <1>1 DEF NoManifest
<1> QED BY <1>1, <1>2 DEF PaidInv, PaidType, PaidOnDisk, PaidPending, PaidInMemory, PaidLoaded, Loaded

\* What is held stays held with more variants, and with other sidecars about the same context.
LEMMA HoldsStays ==
    ASSUME NEW s, NEW s2, NEW c, NEW e, NEW e2, Holds(s, c, e),
           \A v \in ToSet(e.variants) :
              v.ctx = c /\ v.eligible /\ v.result.kind = "passed" /\ [ctx |-> c, result |-> v.result] \in s
                 => v \in ToSet(e2.variants) /\ [ctx |-> c, result |-> v.result] \in s2
    PROVE  Holds(s2, c, e2)
<1>1. PICK v \in ToSet(e.variants) : v.ctx = c /\ v.result.kind = "passed" /\ v.eligible
                                     /\ [ctx |-> c, result |-> v.result] \in s
  BY DEF Holds
<1>2. v \in ToSet(e2.variants) /\ [ctx |-> c, result |-> v.result] \in s2
  BY <1>1
<1> QED BY <1>1, <1>2 DEF Holds

\* A good result that is recorded and placed is held.
LEMMA RecordingHolds ==
    ASSUME NEW s, NEW c, NEW r \in Result, NEW e, Recording(c, r) \in ToSet(e.variants),
           [ctx |-> c, result |-> r] \in s, r.kind = "passed"
    PROVE  Holds(s, c, e)
<1> DEFINE v == Recording(c, r)
<1>1. v.ctx = c /\ v.result = r /\ v.eligible
  BY DEF Recording
<1> HIDE DEF v
<1> QED BY <1>1 DEF Holds, v

\* Settling a result: whether it is good is what is remembered of its context.
LEMMA SettledIs ==
    ASSUME PaidType, NEW t \in Table, NEW c \in Ctx, NEW r \in Result, Settled(t, c, r)
    PROVE  /\ PaidType'
           /\ <<t, c>> \in paid' <=> r.kind = "passed"
           /\ \A x \in Table, d \in Ctx : x # t \/ d # c => (<<x, d>> \in paid' <=> <<x, d>> \in paid)
BY DEF Settled, Resumable, PaidType

\* The write that is placed or recovered leaves what is paid for with its table.
LEMMA Places ==
    ASSUME OnDisk, JournalInv, PaidInv, NEW w \in Write, Settling(w)
    PROVE  /\ PaidType'
           /\ \A c \in Ctx : <<w.table, c>> \in paid' => Holds(sidecars'[w.table], c, w.entry)
           /\ \A x \in Table \ {w.table}, c \in Ctx : <<x, c>> \in paid' =>
                 <<x, c>> \in paid /\ sidecars'[x] = sidecars[x] /\ Effective(x) = manifest.tables[x]
<1>1. /\ w.table \in Table /\ w.ctx \in Ctx /\ w.result \in Result /\ w.entry \in Entry /\ w # None
      /\ [ctx |-> w.ctx, result |-> w.result] \in sidecars'[w.table]
      /\ \A x \in Table \ {w.table} : sidecars'[x] = sidecars[x] /\ Effective(x) = manifest.tables[x]
      /\ \A d \in Ctx \ {w.ctx}, q \in Result :
            [ctx |-> d, result |-> q] \in sidecars[w.table] <=> [ctx |-> d, result |-> q] \in sidecars'[w.table]
      /\ Recording(w.ctx, w.result) \in ToSet(w.entry.variants)
  BY SettlingIs
<1>2. /\ PaidType'
      /\ <<w.table, w.ctx>> \in paid' <=> w.result.kind = "passed"
      /\ \A x \in Table, d \in Ctx : x # w.table \/ d # w.ctx => (<<x, d>> \in paid' <=> <<x, d>> \in paid)
  BY <1>1, SettledIs DEF PaidInv, Settling
<1>3. \A c \in Ctx \ {w.ctx} : <<w.table, c>> \in paid => Holds(sidecars[w.table], c, w.entry)
  BY <1>1 DEF PaidInv, PaidPending, Settling
<1>4. ASSUME NEW c \in Ctx, <<w.table, c>> \in paid' PROVE Holds(sidecars'[w.table], c, w.entry)
  <2>1. CASE c = w.ctx
    BY <1>1, <1>2, <1>4, <2>1, RecordingHolds
  <2>2. CASE c # w.ctx
    <3>1. Holds(sidecars[w.table], c, w.entry)
      BY <1>1, <1>2, <1>3, <1>4, <2>2
    <3>2. \A v \in ToSet(w.entry.variants) : v.result \in Result
      BY <1>1, VariantsAre
    <3> QED BY <1>1, <2>2, <3>1, <3>2, HoldsStays
  <2> QED BY <2>1, <2>2
<1> QED BY <1>1, <1>2, <1>4

LEMMA PaidTypeNext == StagesInv /\ DataInv /\ JournalInv /\ PaidInv /\ [Next]_vars => PaidType'
<1> SUFFICES ASSUME StagesInv, DataInv, JournalInv, PaidInv, [Next]_vars PROVE PaidType'
  OBVIOUS
<1>1. ASSUME paid' \subseteq paid PROVE PaidType'
  BY <1>1 DEF PaidInv, PaidType
<1>2. ASSUME NEW w \in Write, Settling(w) PROVE PaidType'
  BY <1>2, Places DEF DataInv
<1>3. CASE Recover
  <2>1. CASE manifest.pending = None
    BY <1>1, <1>3, <2>1 DEF Recover
  <2>2. CASE manifest.pending # None
    BY <1>2, <1>3, <2>2, RecoverSettles
  <2> QED BY <2>1, <2>2
<1>4. ASSUME NEW t \in Table, Place(t) PROVE PaidType'
  BY <1>2, <1>4, PlaceSettles
<1>5. CASE Prune \/ Finish
  BY <1>1, <1>5 DEF Prune, Finish
<1>6. CASE Announce \/ OpenInspector \/ EndBatch \/ Report \/ Validate \/ Leave \/ PublishFails \/ Interrupt \/ Die
  BY <1>1, <1>6
     DEF Announce, OpenInspector, EndBatch, Report, Validate, Leave, PublishFails, Interrupt, Die, history
<1>7. ASSUME NEW t \in Table, Inspecting(t) \/ Finalize(t) \/ Edit(t) PROVE PaidType'
  BY <1>1, <1>7 DEF Inspecting, Restore, Ask, Skip, Finalize, Edit, history
<1>8. ASSUME NEW t \in Table, Journal(t) \/ Commit(t) \/ WriteFails(t) PROVE PaidType'
  BY <1>1, <1>8 DEF Journal, Commit, WriteFails, history
<1>9. ASSUME NEW f \in File, MoveAway(f) \/ MoveIn(f) \/ PutBack(f) PROVE PaidType'
  BY <1>1, <1>9 DEF MoveAway, MoveIn, PutBack, history
<1>10. ASSUME NEW noCache \in BOOLEAN, Start(noCache) PROVE PaidType'
  BY <1>1, <1>10 DEF Start, history
<1>11. CASE UNCHANGED vars
  BY <1>1, <1>11 DEF vars, history
<1> QED BY <1>3, <1>4, <1>5, <1>6, <1>7, <1>8, <1>9, <1>10, <1>11 DEF Next, Working, Opening, Journaling

\* What is paid for survives the pruning of the sidecars.
LEMMA PruneKeeps ==
    ASSUME StagesInv, DataInv, JournalInv, PaidInv, Prune, NEW t \in Table, NEW c \in Ctx, <<t, c>> \in paid'
    PROVE  /\ Holds(sidecars'[t], c, manifest.tables[t])
           /\ Holds(sidecars'[t], c, mem'.tables[t])
           /\ Has(resume'[t].variants, c)
<1>1. ~fresh /\ <<t, c>> \in paid
  BY DEF Prune
<1>2. manifest.pending = None /\ manifest.tables[t] \in Entry /\ sidecars \in [Table -> SUBSET Saved]
  BY DEF JournalInv, PaidInv, Quiet, Prune, DataInv, OnDisk, Manifest
<1>3. Effective(t) = manifest.tables[t]
  BY <1>2 DEF Effective
<1>4. PICK v \in ToSet(manifest.tables[t].variants) :
         v.ctx = c /\ v.result.kind = "passed" /\ v.eligible /\ [ctx |-> c, result |-> v.result] \in sidecars[t]
  BY <1>1, <1>3 DEF JournalInv, PaidInv, PaidOnDisk, Holds
<1> DEFINE new == Prepared(t, manifest.tables[t])
<1>5. ToSet(new.variants) = {w \in ToSet(manifest.tables[t].variants) : Valid(t, w)}
  BY <1>2, PreparedIs
<1>6. mem'.tables[t] = new /\ resume'[t] = new
      /\ sidecars'[t] = {s \in sidecars[t] : Has(new.variants, s.ctx)}
  BY <1>1 DEF Prune
<1> HIDE DEF new
<1>7. v \in ToSet(new.variants)
  BY <1>4, <1>5 DEF Valid
<1>8. Has(new.variants, c)
  BY <1>4, <1>7 DEF Has, ToSet
<1>9. [ctx |-> c, result |-> v.result] \in sidecars'[t]
  BY <1>4, <1>6, <1>8
<1> QED BY <1>4, <1>6, <1>7, <1>8, <1>9 DEF Holds

\* Between two writes the manifest in memory holds all that is paid for.
LEMMA AllInMemory ==
    ASSUME StagesInv, DataInv, JournalInv, PaidInv, Loaded, Writing = {}
    PROVE  \A t \in Table, c \in Ctx : <<t, c>> \in paid => Holds(sidecars[t], c, mem.tables[t])
<1>1. \A t \in Table : InMem(t) = mem.tables[t]
  BY DEF InMem, Writing
<1> QED BY <1>1 DEF JournalInv, PaidInv, PaidInMemory

\* What is paid for is on disk, whatever is killed.
LEMMA OnDiskNext ==
    StagesInv /\ DataInv /\ JournalInv /\ PaidInv /\ RoomForVariants /\ [Next]_vars => PaidOnDisk' /\ PaidPending'
<1> SUFFICES ASSUME StagesInv, DataInv, JournalInv, PaidInv, RoomForVariants, [Next]_vars PROVE PaidOnDisk' /\ PaidPending'
  OBVIOUS
<1>0. /\ PaidOnDisk /\ PaidPending /\ KeyedSidecars /\ Quiet /\ Finalized
      /\ at \in [Table -> Stage] /\ manifest \in Manifest /\ mem \in Manifest
      /\ sidecars \in [Table -> SUBSET Saved]
  BY DEF JournalInv, PaidInv, StagesInv, Where, DataInv, OnDisk, InMemory
<1>1. ASSUME UNCHANGED <<manifest, sidecars>>, paid' \subseteq paid PROVE PaidOnDisk' /\ PaidPending'
  <2>1. \A t \in Table : Effective(t)' = Effective(t)
    BY <1>1 DEF Effective
  <2> QED BY <1>0, <1>1, <2>1 DEF PaidOnDisk, PaidPending
<1>2. ASSUME manifest'.pending = None,
             \A t \in Table, c \in Ctx : <<t, c>> \in paid' => Holds(sidecars'[t], c, manifest'.tables[t])
      PROVE  PaidOnDisk' /\ PaidPending'
  <2>1. \A t \in Table : Effective(t)' = manifest'.tables[t]
    BY <1>2 DEF Effective
  <2> QED BY <1>2, <2>1 DEF PaidOnDisk, PaidPending
<1>3. CASE Recover
  <2>1. CASE manifest.pending = None
    BY <1>1, <1>3, <2>1 DEF Recover
  <2>2. CASE manifest.pending # None
    <3>1. PICK w \in Write :
           /\ Settling(w)
           /\ manifest'.pending = None
           /\ manifest'.tables[w.table] = w.entry
           /\ \A x \in Table \ {w.table} : manifest'.tables[x] = manifest.tables[x]
      BY <1>3, <2>2, RecoverSettles
    <3>2. /\ \A c \in Ctx : <<w.table, c>> \in paid' => Holds(sidecars'[w.table], c, w.entry)
          /\ \A x \in Table \ {w.table}, c \in Ctx : <<x, c>> \in paid' =>
                <<x, c>> \in paid /\ sidecars'[x] = sidecars[x] /\ Effective(x) = manifest.tables[x]
      BY <3>1, Places DEF DataInv
    <3>3. ASSUME NEW x \in Table, NEW c \in Ctx, <<x, c>> \in paid' PROVE Holds(sidecars'[x], c, manifest'.tables[x])
      BY <1>0, <3>1, <3>2, <3>3 DEF PaidOnDisk
    <3> QED BY <1>2, <3>1, <3>3
  <2> QED BY <2>1, <2>2
<1>4. CASE Prune
  <2>1. manifest' = manifest /\ manifest.pending = None
    BY <1>0, <1>4 DEF Prune, Quiet
  <2> QED BY <1>2, <1>4, <2>1, PruneKeeps
<1>5. CASE Announce \/ Report
  <2>1. Loaded /\ Writing = {} /\ ~broken /\ UNCHANGED <<sidecars, paid>> /\ manifest' = mem
    <3>1. CASE Announce
      BY <1>0, <3>1, AtWork DEF Announce, Loaded, Writing, Quiet, history
    <3>2. CASE Report
      BY <3>2 DEF Report, Loaded, Writing, history
    <3> QED BY <1>5, <3>1, <3>2
  <2>2. mem.pending = None
    BY <1>0, <2>1 DEF Quiet
  <2> QED BY <1>2, <2>1, <2>2, AllInMemory
<1>6. ASSUME NEW t \in Table, Journal(t) PROVE PaidOnDisk' /\ PaidPending'
  <2> DEFINE w == Pending(t)
             r == w.result
             e == mem.tables[t]
  <2>1. /\ Loaded /\ w \in Write /\ w # None /\ w.table = t /\ w.ctx = ctx[t]
        /\ w.entry = Recorded(e, ctx[t], r) /\ ctx[t] \in Ctx /\ r \in Result /\ e \in Entry
        /\ Writing = {} /\ at[t] = "told"
    BY <1>6, JournaledIs DEF Journal
  <2> HIDE DEF w
  <2>2. /\ UNCHANGED <<sidecars, paid>>
        /\ manifest'.pending = w /\ manifest'.tables = mem.tables
    <3>1. mem' = [mem EXCEPT !.pending = w] /\ manifest' = mem' /\ UNCHANGED <<sidecars, paid>>
      BY <1>6 DEF Journal, history, w
    <3> QED BY <1>0, <3>1 DEF Manifest
  <2>3. \A x \in Table, c \in Ctx : <<x, c>> \in paid => Holds(sidecars[x], c, mem.tables[x])
    BY <2>1, AllInMemory
  <2> HIDE DEF r, e
  <2>4. /\ Recording(ctx[t], r) \in ToSet(w.entry.variants)
        /\ {v \in ToSet(e.variants) : v.ctx # ctx[t]} \subseteq ToSet(w.entry.variants)
    <3>1. Has(e.variants, ctx[t]) \/ Len(e.variants) < MaxVariants
      BY <2>1 DEF RoomForVariants, e
    <3> QED BY <2>1, <3>1, RecordedVariants
  <2>5. ASSUME NEW c \in Ctx \ {ctx[t]}, <<t, c>> \in paid PROVE Holds(sidecars[t], c, w.entry)
    <3>1. Holds(sidecars[t], c, e)
      BY <2>3, <2>5 DEF e
    <3> QED BY <2>4, <2>5, <3>1, HoldsStays
  <2>6. ASSUME NEW c \in Ctx, <<t, c>> \in paid, [ctx |-> ctx[t], result |-> r] \in sidecars[t]
        PROVE  Holds(sidecars[t], c, w.entry)
    <3>1. CASE c # ctx[t]
      BY <2>5, <2>6, <3>1
    <3>2. CASE c = ctx[t]
      <4>1. PICK v \in ToSet(e.variants) : v.result.kind = "passed" /\ [ctx |-> c, result |-> v.result] \in sidecars[t]
        BY <2>3, <2>6 DEF e, Holds
      <4>2. r.kind = "passed"
        <5> DEFINE a == [ctx |-> c, result |-> v.result]
                   b == [ctx |-> c, result |-> r]
        <5>1. a = b
          BY <1>0, <2>6, <3>2, <4>1 DEF KeyedSidecars
        <5>2. a.result = b.result
          BY <5>1
        <5> QED BY <4>1, <5>2
      <4> QED BY <2>1, <2>4, <2>6, <3>2, <4>2, RecordingHolds
    <3> QED BY <3>1, <3>2
  <2>7. \A x \in Table : Effective(x)' =
           IF x = t /\ [ctx |-> ctx[t], result |-> r] \in sidecars[t] THEN w.entry ELSE mem.tables[x]
    <3>1. \A x \in Table : Effective(x)' =
            IF /\ manifest'.pending # None
               /\ manifest'.pending.table = x
               /\ [ctx |-> manifest'.pending.ctx, result |-> manifest'.pending.result] \in sidecars'[x]
            THEN manifest'.pending.entry ELSE manifest'.tables[x]
      BY DEF Effective
    <3> QED BY <2>1, <2>2, <3>1 DEF r
  <2>8. PaidOnDisk'
    <3>1. ASSUME NEW x \in Table, NEW c \in Ctx, <<x, c>> \in paid' PROVE Holds(sidecars'[x], c, Effective(x)')
      BY <2>2, <2>3, <2>6, <2>7, <3>1
    <3> QED BY <3>1 DEF PaidOnDisk
  <2>9. PaidPending'
    BY <2>1, <2>2, <2>5 DEF PaidPending
  <2> QED BY <2>8, <2>9
<1>7. ASSUME NEW t \in Table, Place(t) PROVE PaidOnDisk' /\ PaidPending'
  <2>1. PICK w \in Write : Settling(w) /\ w.table = t
    BY <1>7, PlaceSettles
  <2>2. /\ \A c \in Ctx : <<t, c>> \in paid' => Holds(sidecars'[t], c, w.entry)
        /\ \A x \in Table \ {t}, c \in Ctx : <<x, c>> \in paid' =>
              <<x, c>> \in paid /\ sidecars'[x] = sidecars[x] /\ Effective(x) = manifest.tables[x]
    BY <2>1, Places DEF DataInv
  <2>3. manifest' = manifest /\ manifest.pending = w /\ w # None
    BY <1>7, <2>1, PlaceSettles, WriteNone DEF Settling
  <2>4. \A x \in Table : Effective(x)' = IF x = t THEN w.entry ELSE manifest.tables[x]
    <3>1. \A x \in Table : Effective(x)' =
            IF /\ manifest'.pending # None
               /\ manifest'.pending.table = x
               /\ [ctx |-> manifest'.pending.ctx, result |-> manifest'.pending.result] \in sidecars'[x]
            THEN manifest'.pending.entry ELSE manifest'.tables[x]
      BY DEF Effective
    <3>2. [ctx |-> w.ctx, result |-> w.result] \in sidecars'[t]
      BY <2>1, SettlingIs DEF DataInv
    <3> QED BY <2>1, <2>3, <3>1, <3>2
  <2>5. PaidOnDisk'
    <3>1. ASSUME NEW x \in Table, NEW c \in Ctx, <<x, c>> \in paid' PROVE Holds(sidecars'[x], c, Effective(x)')
      BY <1>0, <2>2, <2>4, <3>1 DEF PaidOnDisk
    <3> QED BY <3>1 DEF PaidOnDisk
  <2>6. PaidPending'
    BY <2>1, <2>2, <2>3 DEF PaidPending
  <2> QED BY <2>5, <2>6
<1>8. ASSUME NEW t \in Table, Commit(t) PROVE PaidOnDisk' /\ PaidPending'
  <2>1. /\ at[t] = "placed" /\ Loaded /\ UNCHANGED <<sidecars, paid>> /\ manifest' = mem'
        /\ mem'.pending = None
        /\ mem'.tables[t] = mem.pending.entry /\ \A x \in Table \ {t} : mem'.tables[x] = mem.tables[x]
    BY <1>0, <1>8, JournaledIs DEF Commit, Manifest, history
  <2>2. \A x \in Table : InMem(x) = mem'.tables[x]
    BY <2>1 DEF InMem, StagesInv, Alone
  <2> QED BY <1>2, <2>1, <2>2 DEF JournalInv, PaidInv, PaidInMemory
<1>9. CASE Finish
  <2>1. /\ phase \in {"finish", "blocked"} /\ sidecars' = sidecars
        /\ paid' = paid \ {<<t, ctx[t]>> : t \in bad}
        /\ manifest' = [tables |-> [t \in Table |-> IF t \in bad THEN RejectedEntry(mem.tables[t])
                                                    ELSE mem.tables[t]],
                        pending |-> mem.pending,
                        published |-> IF phase = "finish" THEN runs ELSE None]
    BY <1>9 DEF Finish
  <2>2. /\ Loaded /\ Writing = {} /\ mem.pending = None
        /\ \A t \in Table : Final(t)
    BY <1>0, <2>1, AtWork DEF Loaded, Writing, Quiet, Final, Inspected
  <2>3. ASSUME NEW t \in Table, NEW c \in Ctx, <<t, c>> \in paid' PROVE Holds(sidecars'[t], c, manifest'.tables[t])
    <3> DEFINE e == mem.tables[t]
    <3>1. Holds(sidecars[t], c, e)
      BY <2>1, <2>2, <2>3, AllInMemory
    <3>2. CASE t \notin bad
      BY <2>1, <3>1, <3>2
    <3>3. CASE t \in bad
      <4>1. manifest'.tables[t] = RejectedEntry(e) /\ c # ctx[t]
        BY <2>1, <2>3, <3>3
      <4>2. RejectedContext(e) = ctx[t]
        BY <1>0, <2>2 DEF Finalized, RejectedContext
      <4>3. e \in Entry
        BY <1>0 DEF Manifest
      <4> HIDE DEF e
      <4>4. \A v \in ToSet(e.variants) : v.ctx # RejectedContext(e) => v \in ToSet(RejectedEntry(e).variants)
        BY <4>3, RejectedIs
      <4>5. Holds(sidecars[t], c, RejectedEntry(e))
        BY <3>1, <4>1, <4>2, <4>4, HoldsStays
      <4> QED BY <2>1, <4>1, <4>5
    <3> QED BY <3>2, <3>3
  <2> QED BY <1>2, <2>1, <2>2, <2>3
<1>10. CASE OpenInspector \/ EndBatch \/ Validate \/ Leave \/ PublishFails \/ Interrupt \/ Die
  BY <1>1, <1>10
     DEF OpenInspector, EndBatch, Validate, Leave, PublishFails, Interrupt, Die, disk, history
<1>11. ASSUME NEW t \in Table, Inspecting(t) \/ Finalize(t) \/ WriteFails(t) \/ Edit(t)
       PROVE  PaidOnDisk' /\ PaidPending'
  BY <1>1, <1>11 DEF Inspecting, Restore, Ask, Skip, Finalize, WriteFails, Edit, disk, history
<1>12. ASSUME NEW f \in File, MoveAway(f) \/ MoveIn(f) \/ PutBack(f) PROVE PaidOnDisk' /\ PaidPending'
  BY <1>1, <1>12 DEF MoveAway, MoveIn, PutBack, history
<1>13. ASSUME NEW noCache \in BOOLEAN, Start(noCache) PROVE PaidOnDisk' /\ PaidPending'
  BY <1>1, <1>13 DEF Start, disk, history
<1>14. CASE UNCHANGED vars
  BY <1>1, <1>14 DEF vars, disk, history
<1> QED BY <1>3, <1>4, <1>5, <1>6, <1>7, <1>8, <1>9, <1>10, <1>11, <1>12, <1>13, <1>14
        DEF Next, Working, Opening, Journaling

LEMMA InMemoryNext == StagesInv /\ DataInv /\ JournalInv /\ PaidInv /\ [Next]_vars => PaidInMemory'
<1> SUFFICES ASSUME StagesInv, DataInv, JournalInv, PaidInv, [Next]_vars PROVE PaidInMemory'
  OBVIOUS
<1>0. PaidInMemory
  BY DEF PaidInv
<1>1. ASSUME UNCHANGED sidecars, paid' \subseteq paid, Loaded' => Loaded, \A t \in Table : InMem(t)' = InMem(t)
      PROVE  PaidInMemory'
  BY <1>0, <1>1 DEF PaidInMemory
<1>2. ASSUME ~Loaded' PROVE PaidInMemory'
  BY <1>2 DEF PaidInMemory
<1>3. CASE Recover
  BY <1>2, <1>3 DEF Recover, Loaded
<1>4. CASE Prune
  <2>1. \A t \in Table : InMem(t)' = mem'.tables[t]
    <3>1. at' = at /\ \A t \in Table : at[t] # "placed"
      BY <1>4, AtWork DEF Prune, pipeline
    <3> QED BY <3>1 DEF InMem
  <2>2. \A t \in Table, c \in Ctx : <<t, c>> \in paid' => Holds(sidecars'[t], c, InMem(t)')
    BY <1>4, <2>1, PruneKeeps
  <2> QED BY <2>2 DEF PaidInMemory
<1>5. CASE EndBatch \/ Report \/ Validate \/ PublishFails \/ Interrupt \/ Announce \/ OpenInspector \/ UNCHANGED vars
  <2>1. paid' = paid /\ (Loaded' => Loaded)
    BY <1>5 DEF EndBatch, BatchOver, Report, Validate, PublishFails, Interrupt, Announce, OpenInspector, vars,
                history, Loaded
  <2>2. UNCHANGED sidecars /\ \A t \in Table : InMem(t)' = InMem(t)
    BY <1>5, InMemStays
  <2> QED BY <1>1, <2>1, <2>2
<1>6. ASSUME NEW t \in Table, Inspecting(t) \/ Finalize(t) PROVE PaidInMemory'
  <2>1. paid' = paid /\ (Loaded' => Loaded)
    BY <1>6 DEF Inspecting, Restore, Ask, Skip, Finalize, history, Loaded
  <2>2. UNCHANGED sidecars /\ \A x \in Table : InMem(x)' = InMem(x)
    BY <1>6, InMemStays
  <2> QED BY <1>1, <2>1, <2>2
<1>7. ASSUME NEW t \in Table, Journal(t) \/ Commit(t) \/ WriteFails(t) PROVE PaidInMemory'
  BY <1>1, <1>7, JournalSteps
<1>8. ASSUME NEW t \in Table, Place(t) PROVE PaidInMemory'
  <2>1. PICK w \in Write : Settling(w) /\ w.table = t /\ \A x \in Table : InMem(x)' = IF x = t THEN w.entry ELSE InMem(x)
    BY <1>8, PlaceInMem
  <2>2. /\ \A c \in Ctx : <<t, c>> \in paid' => Holds(sidecars'[t], c, w.entry)
        /\ \A x \in Table \ {t}, c \in Ctx : <<x, c>> \in paid' =>
              <<x, c>> \in paid /\ sidecars'[x] = sidecars[x]
    BY <2>1, Places DEF DataInv
  <2>3. Loaded
    BY <1>8, PlaceSettles DEF Loaded
  <2>4. ASSUME NEW x \in Table, NEW c \in Ctx, <<x, c>> \in paid' PROVE Holds(sidecars'[x], c, InMem(x)')
    BY <1>0, <2>1, <2>2, <2>3, <2>4 DEF PaidInMemory
  <2> QED BY <2>4 DEF PaidInMemory
<1>9. CASE Finish \/ Leave \/ Die
  BY <1>2, <1>9 DEF Finish, Leave, Die, Gone, Loaded
<1>10. ASSUME NEW f \in File, MoveAway(f) \/ MoveIn(f) \/ PutBack(f) PROVE PaidInMemory'
  <2>1. paid' = paid /\ (Loaded' => Loaded)
    BY <1>10 DEF MoveAway, MoveIn, PutBack, history, Loaded
  <2>2. UNCHANGED sidecars /\ \A x \in Table : InMem(x)' = InMem(x)
    BY <1>10, InMemStays
  <2> QED BY <1>1, <2>1, <2>2
<1>11. ASSUME NEW noCache \in BOOLEAN, Start(noCache) PROVE PaidInMemory'
  BY <1>2, <1>11 DEF Start, Loaded
<1>12. ASSUME NEW t \in Table, Edit(t) PROVE PaidInMemory'
  BY <1>2, <1>12 DEF Edit, Loaded
<1> QED BY <1>3, <1>4, <1>5, <1>6, <1>7, <1>8, <1>9, <1>10, <1>11, <1>12 DEF Next, Working, Opening, Journaling

\* What is paid for was loaded when the generation began, or is behind the table.
LEMMA LoadedNext == StagesInv /\ DataInv /\ JournalInv /\ PaidInv /\ [Next]_vars => PaidLoaded'
<1> SUFFICES ASSUME StagesInv, DataInv, JournalInv, PaidInv, [Next]_vars PROVE PaidLoaded'
  OBVIOUS
<1>0. /\ PaidLoaded /\ at \in [Table -> Stage] /\ ctx \in [Table -> Ctx \cup {None}]
      /\ phase = "batch" => \A t \in Table : ctx[t] \in Ctx
  BY DEF JournalInv, PaidInv, StagesInv, Where, DataInv, Asked, Inspected
<1>1. ASSUME phase' \notin {"announce", "open", "batch"} PROVE PaidLoaded'
  BY <1>1 DEF PaidLoaded
<1>2. ASSUME UNCHANGED <<resume, paid, ctx, phase>>, \A t \in Table : at'[t] = "due" => at[t] = "due"
      PROVE  PaidLoaded'
  BY <1>0, <1>2 DEF PaidLoaded, Older
<1>3. CASE Prune
  <2>1. \A t \in Table, c \in Ctx : <<t, c>> \in paid' => Has(resume'[t].variants, c)
    BY <1>3, PruneKeeps
  <2> QED BY <2>1 DEF PaidLoaded
<1>4. CASE Announce \/ OpenInspector
  <2>1. UNCHANGED <<resume, paid>> /\ phase \in {"announce", "open"}
    BY <1>4 DEF Announce, OpenInspector, loaded, history
  <2>2. \A t \in Table, c \in Ctx : <<t, c>> \in paid => Has(resume[t].variants, c)
    BY <1>0, <2>1 DEF PaidLoaded, Older
  <2> QED BY <2>1, <2>2 DEF PaidLoaded
<1>5. ASSUME NEW t \in Table, Inspecting(t) PROVE PaidLoaded'
  <2>1. at'[t] # "due" /\ \A x \in Table \ {t} : at'[x] = at[x]
    BY <1>0, <1>5 DEF Inspecting, Restore, Ask, Skip, Answered
  <2>2. UNCHANGED <<resume, paid, ctx, phase>>
    BY <1>5 DEF Inspecting, Restore, Ask, Skip, loaded, history
  <2> QED BY <1>2, <2>1, <2>2
<1>6. ASSUME NEW t \in Table, Journal(t) \/ Commit(t) \/ WriteFails(t) PROVE PaidLoaded'
  <2>1. at'[t] # "due" /\ \A x \in Table \ {t} : at'[x] = at[x]
    BY <1>0, <1>6 DEF Journal, Commit, WriteFails
  <2>2. UNCHANGED <<resume, paid, ctx, phase>>
    BY <1>6 DEF Journal, Commit, WriteFails, history
  <2> QED BY <1>2, <2>1, <2>2
<1>7. ASSUME NEW t \in Table, Place(t) PROVE PaidLoaded'
  <2>1. PICK w \in Write : Settling(w) /\ w.table = t
    BY <1>7, PlaceSettles
  <2>2. /\ UNCHANGED <<resume, ctx, phase>> /\ phase \in {"batch", "finalize"} /\ w.ctx = ctx[t]
        /\ at'[t] = "placed" /\ \A x \in Table \ {t} : at'[x] = at[x]
    BY <1>7, <2>1, PlaceSettles DEF Settling
  <2>3. \A x \in Table, c \in Ctx : x # t \/ c # ctx[t] => (<<x, c>> \in paid' <=> <<x, c>> \in paid)
    <3>1. w.ctx \in Ctx /\ w.result \in Result
      BY DEF Write
    <3> QED BY <2>1, <2>2, <3>1, SettledIs DEF Settling, PaidInv
  <2>4. ASSUME NEW x \in Table, NEW c \in Ctx, <<x, c>> \in paid', phase = "batch"
        PROVE  Has(resume'[x].variants, c) \/ Older(x, c)'
    <3>1. CASE x = t /\ c = ctx[t]
      BY <2>2, <2>4, <3>1 DEF Older
    <3>2. CASE x # t \/ c # ctx[t]
      <4>1. Has(resume[x].variants, c) \/ Older(x, c)
        BY <1>0, <2>3, <2>4, <3>2 DEF PaidLoaded
      <4> QED BY <2>2, <4>1 DEF Older
    <3> QED BY <3>1, <3>2
  <2> QED BY <2>2, <2>4 DEF PaidLoaded
<1>9. CASE EndBatch
  <2>1. CASE phase' = "batch"
    <3>1. UNCHANGED <<resume, paid>> /\ phase = "batch"
      BY <1>9 DEF EndBatch, BatchOver, loaded, history
    <3>2. ASSUME NEW t \in Table, NEW c \in Ctx, <<t, c>> \in paid
          PROVE  Has(resume[t].variants, c) \/ Older(t, c)'
      BY <1>0, <1>9, <2>1, <3>1, <3>2, OlderStays DEF PaidLoaded
    <3> QED BY <3>1, <3>2 DEF PaidLoaded
  <2>2. CASE phase' # "batch"
    BY <1>1, <1>9, <2>2 DEF EndBatch, BatchOver, Propagate, Settle
  <2> QED BY <2>1, <2>2
<1>10. CASE Interrupt
  BY <1>2, <1>10 DEF Interrupt, loaded, history
<1>11. CASE Recover \/ Report \/ Validate \/ PublishFails \/ Finish \/ Leave \/ Die
  BY <1>1, <1>11 DEF Recover, Report, Validate, PublishFails, Finish, Leave, Die, Gone
<1>12. ASSUME NEW f \in File, MoveAway(f) \/ MoveIn(f) \/ PutBack(f) PROVE PaidLoaded'
  BY <1>1, <1>12 DEF MoveAway, MoveIn, PutBack
<1>13. ASSUME NEW t \in Table, Finalize(t) \/ Edit(t) PROVE PaidLoaded'
  BY <1>1, <1>13 DEF Finalize, Edit
<1>14. ASSUME NEW noCache \in BOOLEAN, Start(noCache) PROVE PaidLoaded'
  BY <1>1, <1>14 DEF Start
<1>15. CASE UNCHANGED vars
  BY <1>2, <1>15 DEF vars, pipeline, loaded, history
<1> QED BY <1>3, <1>4, <1>5, <1>6, <1>7, <1>9, <1>10, <1>11, <1>12, <1>13, <1>14, <1>15
        DEF Next, Working, Opening, Journaling

LEMMA PaidAlways == Spec /\ []RoomForVariants => [](StagesInv /\ DataInv /\ JournalInv /\ Sourced /\ PaidInv)
<1>1. Init => StagesInv /\ DataInv /\ JournalInv /\ Sourced /\ PaidInv
  BY StagesBegin, DataBegin, JournalBegins, PaidBegins
<1>2. StagesInv /\ DataInv /\ JournalInv /\ Sourced /\ PaidInv /\ RoomForVariants /\ [Next]_vars
         => StagesInv' /\ DataInv' /\ JournalInv' /\ Sourced' /\ PaidInv'
  BY JournalNext, PaidTypeNext, OnDiskNext, InMemoryNext, LoadedNext DEF PaidInv
<1> QED BY <1>1, <1>2, PTL DEF Spec

\* No table is paid for twice: a good result that reached the disk is not asked for
\* again under the same context, whatever was killed since (write_inspection_result,
\* _recover_pending_write, _prepare_resume_state).
THEOREM PaidOnce == Spec /\ []RoomForVariants => NothingPaidTwice
<1> DEFINE NotAgain == \A t \in Table : Answers(t) /\ source'[t] = "model" => <<t, ctx[t]>> \notin paid
<1>1. StagesInv /\ DataInv /\ PaidInv /\ Sourced /\ [Next]_vars => NotAgain
  <2> SUFFICES ASSUME StagesInv, DataInv, PaidInv, Sourced, [Next]_vars,
                      NEW t \in Table, Answers(t), source'[t] = "model", <<t, ctx[t]>> \in paid
               PROVE  FALSE
    OBVIOUS
  <2>1. phase = "batch" /\ at[t] = "due" /\ (Restore(t) \/ Ask(t))
    BY AnswersAre
  <2>2. ctx[t] \in Ctx
    BY <2>1 DEF DataInv, Asked, Inspected
  <2>3. ~Restore(t)
    BY DEF Restore, Answered, Sourced
  <2>4. ~FromCheckpoint(t)
    BY <2>1, <2>3 DEF Ask
  <2>5. Has(resume[t].variants, ctx[t]) \/ Older(t, ctx[t])
    BY <2>1, <2>2 DEF PaidInv, PaidLoaded
  <2> QED BY <2>1, <2>4, <2>5 DEF FromCheckpoint, Older
<1>2. NothingPaidTwice <=> [][NotAgain]_vars
  BY DEF NothingPaidTwice
<1> QED BY <1>1, <1>2, PaidAlways, PTL DEF Spec

-----------------------------------------------------------------------------
(* What was refused is not used again *)

\* A resumed generation finds no result for c: e is the entry, s are the sidecars.
Refused(s, c, e) == \A v \in ToSet(e.variants) :
    v.ctx = c /\ v.eligible /\ v.result.kind \notin {"blocked", "failed"} => [ctx |-> c, result |-> v.result] \notin s
\* A cache f cannot bring c back: c is marked in e, or it is not there.
Kept(f, c, e) == c \in ToSet(e.invalid) \/ ~Has(f, c)
\* A start with --no-cache drops the marks first, and inspect.json last.
Anew == fresh /\ phase \in {"announce", "open"}

RejectedOnDisk == \A t \in Table, c \in Ctx : <<t, c>> \in rejected =>
    /\ Refused(sidecars[t], c, Effective(t))
    /\ Kept(cacheFile[t], c, Effective(t)) \/ (fresh /\ phase = "open")
RejectedPending == manifest.pending # None =>
    LET w == manifest.pending IN
    /\ \A c \in Ctx \ {w.ctx} : <<w.table, c>> \in rejected =>
          Refused(sidecars[w.table], c, w.entry) /\ Kept(cacheFile[w.table], c, w.entry)
    /\ ~Resumable(w.result) => w.result.kind # "late" /\ w.ctx \in ToSet(w.entry.invalid)
RejectedInMemory == Loaded => \A t \in Table, c \in Ctx : <<t, c>> \in rejected =>
    Refused(sidecars[t], c, InMem(t)) /\ (Kept(cacheFile[t], c, InMem(t)) \/ Anew)
RejectedInCache == phase \in Inspected => \A t \in Table, c \in Ctx : <<t, c>> \in rejected =>
    Kept(cache[t], c, InMem(t))
\* What was loaded when the generation began has nothing refused, unless the context
\* was refused since, and then it is behind the table.
RejectedLoaded ==
    /\ phase \in {"announce", "open", "batch"} => \A t \in Table, c \in Ctx :
          <<t, c>> \in rejected => ~Has(resume[t].variants, c) \/ Older(t, c)
    /\ phase = "batch" => \A t \in Table, c \in Ctx :
          <<t, c>> \in rejected => ~Has(cache[t], c) \/ Older(t, c)
    /\ phase \in {"announce", "open"} => mem.tables = resume
\* What a table ends up with goes to the cache only where a mark goes with it.
RejectedMarked == \A t \in Table :
    /\ ~broken /\ <<t, ctx[t]>> \in rejected
    /\ (phase = "batch" /\ at[t] # "due") \/ (phase = "finalize" /\ Cacheable(pair[t]))
    => ctx[t] \in ToSet(InMem(t).invalid)
\* A sidecar that is there already is not the good result of a refused context.
RejectedSidecars == Loaded => \A t \in Table : \A s \in sidecars[t] :
    <<t, s.ctx>> \in rejected => s.result.kind # "passed"
SameCache == phase = "batch" => cacheFile = cache

RejectInv ==
    /\ RejectedOnDisk /\ RejectedPending /\ RejectedInMemory /\ RejectedInCache /\ RejectedLoaded
    /\ RejectedMarked /\ RejectedSidecars /\ SameCache

\* What is assumed: the manifest has room for one more mark, so that none is dropped.
RoomForMarks == \A t \in Table : \A e \in {manifest.tables[t], mem.tables[t]} :
    Len(e.invalid) + Len(e.variants) < MaxInvalid

LEMMA RoomForOne ==
    ASSUME NEW e \in Entry, Len(e.invalid) + Len(e.variants) < MaxInvalid
    PROVE  Len(e.invalid) < MaxInvalid /\ Len(e.invalid) + Len(e.variants) <= MaxInvalid
<1> DEFINE m == Len(e.invalid)
           n == Len(e.variants)
<1>1. e.invalid \in Seq(Ctx) /\ e.variants \in Seq(Variant)
  BY DEF Entry
<1>2. m \in Nat /\ n \in Nat
  BY <1>1
<1>3. m + n < MaxInvalid
  OBVIOUS
<1> HIDE DEF m, n
<1>4. m < MaxInvalid /\ m + n <= MaxInvalid
  BY <1>2, <1>3, Bounds
<1> QED BY <1>4 DEF m, n

LEMMA RejectBegins == Init => RejectInv
<1> SUFFICES ASSUME Init PROVE RejectInv
  OBVIOUS
<1>1. phase = "off" /\ rejected = {} /\ manifest = NoManifest
  BY DEF Init
<1>2. manifest.pending = None
  BY <1>1 DEF NoManifest
<1> QED BY <1>1, <1>2
        DEF RejectInv, RejectedOnDisk, RejectedPending, RejectedInMemory, RejectedInCache, RejectedLoaded,
            RejectedMarked, RejectedSidecars, SameCache, Loaded, Inspected

LEMMA HasIs == ASSUME NEW s, NEW c PROVE Has(s, c) <=> \E v \in ToSet(s) : v.ctx = c
BY DEF Has, ToSet

\* The cache knows no context more than before but the one it was given.
LEMMA CachedHas ==
    ASSUME NEW s \in Seq(Saved), NEW c \in Ctx, NEW r \in Result, NEW d, Has(Cached(s, c, r), d), d # c
    PROVE  Has(s, d)
BY CachedIs, HasIs

LEMMA PurgedHas ==
    ASSUME InMemory, NEW t \in Table, NEW s \in Seq(Saved), NEW d, Has(Purged(t, s), d)
    PROVE  Has(s, d) /\ d \notin ToSet(resume[t].invalid)
<1>1. PICK v \in ToSet(Purged(t, s)) : v.ctx = d
  BY HasIs
<1>2. v \in ToSet(s) /\ ~Contains(resume[t].invalid, v.ctx)
  BY <1>1, PurgedIs
<1>3. resume[t].invalid \in Seq(Ctx)
  BY DEF InMemory, Entry
<1> QED BY <1>1, <1>2, <1>3, HasIs, ContainsIs

LEMMA RejectedSettled ==
    ASSUME NEW t \in Table, NEW c \in Ctx, NEW r \in Result, Settled(t, c, r)
    PROVE  /\ <<t, c>> \in rejected' <=> ~Resumable(r)
           /\ \A x \in Table, d \in Ctx : x # t \/ d # c => (<<x, d>> \in rejected' <=> <<x, d>> \in rejected)
BY DEF Settled

\* What is refused stays refused with fewer variants or sidecars.
LEMMA RefusedStays ==
    ASSUME NEW s, NEW s2, NEW c, NEW e, NEW e2, Refused(s, c, e),
           \A v \in ToSet(e2.variants) :
              v.ctx = c /\ v.eligible /\ [ctx |-> c, result |-> v.result] \in s2
                 => v \in ToSet(e.variants) /\ [ctx |-> c, result |-> v.result] \in s
    PROVE  Refused(s2, c, e2)
BY DEF Refused

\* A result that may not be resumed is refused once it is recorded.
LEMMA RecordingRefused ==
    ASSUME NEW s, NEW c \in Ctx, NEW r \in Result, NEW e \in Entry, Recording(c, r) \in ToSet(e.variants),
           ~Resumable(r), r.kind # "late"
    PROVE  Refused(s, c, e)
<1> SUFFICES ASSUME NEW v \in ToSet(e.variants), v.ctx = c, v.eligible, v.result.kind \notin {"blocked", "failed"}
             PROVE  FALSE
  BY DEF Refused
<1>1. v = Recording(c, r)
  BY DEF Entry, Keyed, ToSet, Recording
<1>2. v.result = r /\ r.kind # "transient"
  <2>1. Recording(c, r).result = r /\ (Recording(c, r).eligible => r.kind # "transient")
    BY DEF Recording
  <2> QED BY <1>1, <2>1
<1>3. r.kind \in Kinds
  BY DEF Result
<1> QED BY <1>2, <1>3 DEF Resumable, Kinds

\* The write that is placed or recovered leaves what is refused as it is.
LEMMA PlacesRefused ==
    ASSUME OnDisk, JournalInv, RejectedPending, NEW w \in Write, Settling(w)
    PROVE  /\ \A c \in Ctx : <<w.table, c>> \in rejected' =>
                 Refused(sidecars'[w.table], c, w.entry) /\ Kept(cacheFile[w.table], c, w.entry)
           /\ \A x \in Table \ {w.table}, c \in Ctx : <<x, c>> \in rejected' =>
                 <<x, c>> \in rejected /\ sidecars'[x] = sidecars[x] /\ Effective(x) = manifest.tables[x]
<1>1. /\ w.table \in Table /\ w.ctx \in Ctx /\ w.result \in Result /\ w.entry \in Entry /\ w # None
      /\ \A x \in Table \ {w.table} : sidecars'[x] = sidecars[x] /\ Effective(x) = manifest.tables[x]
      /\ \A d \in Ctx \ {w.ctx}, q \in Result :
            [ctx |-> d, result |-> q] \in sidecars[w.table] <=> [ctx |-> d, result |-> q] \in sidecars'[w.table]
      /\ Recording(w.ctx, w.result) \in ToSet(w.entry.variants)
  BY SettlingIs
<1>2. /\ <<w.table, w.ctx>> \in rejected' <=> ~Resumable(w.result)
      /\ \A x \in Table, d \in Ctx : x # w.table \/ d # w.ctx => (<<x, d>> \in rejected' <=> <<x, d>> \in rejected)
  BY <1>1, RejectedSettled DEF Settling
<1>3. /\ \A c \in Ctx \ {w.ctx} : <<w.table, c>> \in rejected =>
            Refused(sidecars[w.table], c, w.entry) /\ Kept(cacheFile[w.table], c, w.entry)
      /\ ~Resumable(w.result) => w.result.kind # "late" /\ w.ctx \in ToSet(w.entry.invalid)
  BY <1>1 DEF RejectedPending, Settling
<1>4. ASSUME NEW c \in Ctx, <<w.table, c>> \in rejected'
      PROVE  Refused(sidecars'[w.table], c, w.entry) /\ Kept(cacheFile[w.table], c, w.entry)
  <2>1. CASE c = w.ctx
    <3>1. ~Resumable(w.result) /\ w.result.kind # "late" /\ c \in ToSet(w.entry.invalid)
      BY <1>2, <1>3, <1>4, <2>1
    <3>2. Refused(sidecars'[w.table], w.ctx, w.entry)
      BY <1>1, <3>1, RecordingRefused
    <3> QED BY <2>1, <3>1, <3>2 DEF Kept
  <2>2. CASE c # w.ctx
    <3>1. Refused(sidecars[w.table], c, w.entry) /\ Kept(cacheFile[w.table], c, w.entry)
      BY <1>1, <1>2, <1>3, <1>4, <2>2
    <3>2. \A v \in ToSet(w.entry.variants) : v.result \in Result
      BY <1>1, VariantsAre
    <3> QED BY <1>1, <2>2, <3>1, <3>2, RefusedStays
  <2> QED BY <2>1, <2>2
<1> QED BY <1>1, <1>2, <1>4

\* Between two writes the manifest in memory brings nothing refused back.
LEMMA AllRefused ==
    ASSUME StagesInv, RejectInv, Loaded, Writing = {}
    PROVE  \A t \in Table, c \in Ctx : <<t, c>> \in rejected =>
              Refused(sidecars[t], c, mem.tables[t]) /\ (Kept(cacheFile[t], c, mem.tables[t]) \/ Anew)
<1>1. \A t \in Table : InMem(t) = mem.tables[t]
  BY DEF InMem, Writing
<1> QED BY <1>1 DEF RejectInv, RejectedInMemory

\* The result a thread journals, and the entry it makes.
LEMMA JournaledMarks ==
    ASSUME StagesInv, DataInv, RejectInv, RoomForMarks, NEW t \in Table, at[t] = "told", Writing = {}
    PROVE  LET w == Pending(t) IN
           /\ Recording(ctx[t], w.result) \in ToSet(w.entry.variants) /\ w.entry \in Entry
           /\ ~Resumable(w.result) => w.result.kind # "late" /\ ctx[t] \in ToSet(w.entry.invalid)
           /\ \A c \in Ctx \ {ctx[t]} : <<t, c>> \in rejected =>
                 Refused(sidecars[t], c, w.entry) /\ Kept(cacheFile[t], c, w.entry)
           /\ ToSet(mem.tables[t].invalid) \ {ctx[t]} \subseteq ToSet(w.entry.invalid)
<1> DEFINE w == Pending(t)
           r == w.result
           e == mem.tables[t]
<1>1. /\ Loaded /\ w \in Write /\ w.entry = Recorded(e, ctx[t], r) /\ ctx[t] \in Ctx /\ r \in Result /\ e \in Entry
      /\ phase \in {"batch", "finalize"}
  BY JournaledIs, AtWork
<1>2. r.kind # "late"
  <2>1. answer[t] \in Result /\ r = Processed(answer[t])
    BY <1>1, AtHand DEF Pending
  <2> QED BY <2>1 DEF Processed, Result
<1>3. w.entry \in Entry
  BY <1>1 DEF Write
<1> HIDE DEF w, r
<1>4. Len(e.invalid) < MaxInvalid
  <2>1. Len(e.invalid) + Len(e.variants) < MaxInvalid
    BY DEF RoomForMarks
  <2> QED BY <1>1, <2>1, RoomForOne
<1>5. \A c \in Ctx : <<t, c>> \in rejected => Refused(sidecars[t], c, e) /\ Kept(cacheFile[t], c, e)
  BY <1>1, AllRefused DEF Anew
<1> HIDE DEF e
<1>6. /\ Recording(ctx[t], r) \in ToSet(w.entry.variants)
      /\ ToSet(w.entry.variants) \subseteq {v \in ToSet(e.variants) : v.ctx # ctx[t]} \cup {Recording(ctx[t], r)}
  BY <1>1, RecordedVariants
<1>7. /\ ~Resumable(r) => ctx[t] \in ToSet(w.entry.invalid)
      /\ ToSet(e.invalid) \ {ctx[t]} \subseteq ToSet(w.entry.invalid)
  BY <1>1, <1>4, RecordedMarks
<1>8. ASSUME NEW c \in Ctx \ {ctx[t]}, <<t, c>> \in rejected
      PROVE  Refused(sidecars[t], c, w.entry) /\ Kept(cacheFile[t], c, w.entry)
  <2>1. Refused(sidecars[t], c, e) /\ Kept(cacheFile[t], c, e)
    BY <1>5, <1>8
  <2>2. \A v \in ToSet(w.entry.variants) : v.ctx = c => v \in ToSet(e.variants)
    BY <1>6, <1>8 DEF Recording
  <2>3. Refused(sidecars[t], c, w.entry)
    BY <2>1, <2>2, RefusedStays
  <2> QED BY <1>7, <1>8, <2>1, <2>3 DEF Kept
<1> QED BY <1>2, <1>3, <1>6, <1>7, <1>8 DEF w, r, e

\* A new answer is no longer refused, and the cache has no other context more.
LEMMA AskKeeps ==
    ASSUME DataInv, SameCache, NEW t \in Table, Ask(t)
    PROVE  /\ rejected' = rejected \ {<<t, ctx[t]>>} /\ cacheFile' = cache'
           /\ \A x \in Table, c \in Ctx : <<x, c>> \in rejected' /\ Has(cacheFile'[x], c) => Has(cacheFile[x], c)
<1>1. /\ rejected' = rejected \ {<<t, ctx[t]>>} /\ phase = "batch" /\ cacheFile = cache /\ ctx[t] \in Ctx
      /\ cache \in [Table -> Seq(Saved)]
  BY DEF Ask, SameCache, DataInv, InMemory, Asked, Inspected
<1>2. CASE UNCHANGED <<cache, cacheFile>>
  BY <1>1, <1>2
<1>3. CASE ~UNCHANGED <<cache, cacheFile>>
  <2>1. PICK replies \in Conversations(t), metric \in BOOLEAN :
           /\ cacheFile' = cache'
           /\ cache' = [cache EXCEPT ![t] = Cached(@, ctx[t], [ctx |-> ctx[t], kind |-> Outcome(replies),
                                                             metric |-> metric, final |-> FALSE])]
    BY <1>3 DEF Ask
  <2> DEFINE r == [ctx |-> ctx[t], kind |-> Outcome(replies), metric |-> metric, final |-> FALSE]
  <2>2. r \in Result
    BY <1>1, OutcomeIs DEF Result
  <2> HIDE DEF r
  <2>3. \A x \in Table : cacheFile'[x] = IF x = t THEN Cached(cache[t], ctx[t], r) ELSE cache[x]
    BY <1>1, <2>1 DEF r
  <2>4. ASSUME NEW x \in Table, NEW c \in Ctx, <<x, c>> \in rejected', Has(cacheFile'[x], c)
        PROVE  Has(cacheFile[x], c)
    BY <1>1, <2>2, <2>3, <2>4, CachedHas
  <2> QED BY <1>1, <2>1, <2>4
<1> QED BY <1>2, <1>3

\* Nothing on disk brings back what was refused, whatever is killed.
LEMMA RefusedOnDiskNext ==
    ASSUME Careful, StagesInv, DataInv, JournalInv, RejectInv, RoomForMarks, [Next]_vars
    PROVE  RejectedOnDisk' /\ RejectedPending'
<1>0. /\ RejectedOnDisk /\ RejectedPending /\ SameCache /\ Quiet /\ Finalized /\ DataInv
      /\ at \in [Table -> Stage] /\ manifest \in Manifest /\ mem \in Manifest
      /\ sidecars \in [Table -> SUBSET Saved]
      /\ cacheFile \in [Table -> Seq(Saved)] /\ cache \in [Table -> Seq(Saved)]
  BY DEF RejectInv, JournalInv, StagesInv, Where, DataInv, OnDisk, InMemory
<1>1. ASSUME UNCHANGED <<manifest, sidecars>>, rejected' \subseteq rejected,
             \A t \in Table, c \in Ctx : <<t, c>> \in rejected' /\ Has(cacheFile'[t], c) => Has(cacheFile[t], c),
             fresh /\ phase = "open" => \A t \in Table, c \in Ctx : ~Has(cacheFile'[t], c)
      PROVE  RejectedOnDisk' /\ RejectedPending'
  <2>1. \A t \in Table : Effective(t)' = Effective(t)
    BY <1>1 DEF Effective
  <2>2. ASSUME NEW t \in Table, NEW c \in Ctx, NEW e, <<t, c>> \in rejected', Kept(cacheFile[t], c, e)
        PROVE  Kept(cacheFile'[t], c, e)
    BY <1>1, <2>2 DEF Kept
  <2>3. RejectedOnDisk'
    <3>1. ASSUME NEW t \in Table, NEW c \in Ctx, <<t, c>> \in rejected'
          PROVE  Refused(sidecars'[t], c, Effective(t)') /\ Kept(cacheFile'[t], c, Effective(t)')
      <4>1. Refused(sidecars[t], c, Effective(t)) /\ (Kept(cacheFile[t], c, Effective(t)) \/ (fresh /\ phase = "open"))
        BY <1>0, <1>1, <3>1 DEF RejectedOnDisk
      <4>2. Kept(cacheFile'[t], c, Effective(t))
        BY <1>1, <2>2, <3>1, <4>1 DEF Kept
      <4> QED BY <1>1, <2>1, <4>1, <4>2
    <3> QED BY <3>1 DEF RejectedOnDisk
  <2>4. RejectedPending'
    <3>1. CASE manifest.pending = None
      BY <1>1, <3>1 DEF RejectedPending
    <3>2. CASE manifest.pending # None
      <4>1. PICK w \in Write : manifest.pending = w
        BY <1>0, <3>2 DEF Manifest
      <4>2. w.table \in Table
        BY DEF Write
      <4>3. \A c \in Ctx \ {w.ctx} : <<w.table, c>> \in rejected' =>
               Refused(sidecars'[w.table], c, w.entry) /\ Kept(cacheFile'[w.table], c, w.entry)
        BY <1>0, <1>1, <2>2, <3>2, <4>1, <4>2 DEF RejectedPending
      <4>4. manifest'.pending = w /\ (~Resumable(w.result) => w.result.kind # "late" /\ w.ctx \in ToSet(w.entry.invalid))
        BY <1>0, <1>1, <3>2, <4>1 DEF RejectedPending
      <4> QED BY <4>3, <4>4 DEF RejectedPending
    <3> QED BY <3>1, <3>2
  <2> QED BY <2>3, <2>4
<1>2. ASSUME manifest'.pending = None,
             \A t \in Table, c \in Ctx : <<t, c>> \in rejected' =>
                /\ Refused(sidecars'[t], c, manifest'.tables[t])
                /\ Kept(cacheFile'[t], c, manifest'.tables[t]) \/ (fresh' /\ phase' = "open")
      PROVE  RejectedOnDisk' /\ RejectedPending'
  <2>1. \A t \in Table : Effective(t)' = manifest'.tables[t]
    BY <1>2 DEF Effective
  <2> QED BY <1>2, <2>1 DEF RejectedOnDisk, RejectedPending
<1>3. CASE Recover
  <2>1. CASE manifest.pending = None
    BY <1>1, <1>3, <2>1 DEF Recover
  <2>2. CASE manifest.pending # None
    <3>1. PICK w \in Write :
           /\ Settling(w)
           /\ manifest'.pending = None
           /\ manifest'.tables[w.table] = w.entry
           /\ \A x \in Table \ {w.table} : manifest'.tables[x] = manifest.tables[x]
      BY <1>3, <2>2, RecoverSettles
    <3>2. /\ \A c \in Ctx : <<w.table, c>> \in rejected' =>
                Refused(sidecars'[w.table], c, w.entry) /\ Kept(cacheFile[w.table], c, w.entry)
          /\ \A x \in Table \ {w.table}, c \in Ctx : <<x, c>> \in rejected' =>
                <<x, c>> \in rejected /\ sidecars'[x] = sidecars[x] /\ Effective(x) = manifest.tables[x]
      BY <1>0, <3>1, PlacesRefused DEF DataInv
    <3>3. cacheFile' = cacheFile /\ phase = "recover"
      BY <1>3 DEF Recover
    <3>4. ASSUME NEW x \in Table, NEW c \in Ctx, <<x, c>> \in rejected'
          PROVE  Refused(sidecars'[x], c, manifest'.tables[x]) /\ Kept(cacheFile'[x], c, manifest'.tables[x])
      BY <1>0, <3>1, <3>2, <3>3, <3>4 DEF RejectedOnDisk
    <3> QED BY <1>2, <3>1, <3>4
  <2> QED BY <2>1, <2>2
<1>4. CASE Prune
  <2>1. /\ UNCHANGED <<manifest, cacheFile, rejected>> /\ manifest.pending = None /\ phase = "prune"
        /\ \A t \in Table : sidecars'[t] \subseteq sidecars[t]
    BY <1>0, <1>4 DEF Prune, Quiet
  <2>2. \A t \in Table : Effective(t) = manifest.tables[t]
    BY <2>1 DEF Effective
  <2>3. ASSUME NEW t \in Table, NEW c \in Ctx, <<t, c>> \in rejected'
        PROVE  Refused(sidecars'[t], c, manifest'.tables[t]) /\ Kept(cacheFile'[t], c, manifest'.tables[t])
    <3>1. Refused(sidecars[t], c, manifest.tables[t]) /\ Kept(cacheFile[t], c, manifest.tables[t])
      BY <1>0, <2>1, <2>2, <2>3 DEF RejectedOnDisk
    <3>2. Refused(sidecars'[t], c, manifest.tables[t])
      BY <2>1, <3>1, RefusedStays
    <3> QED BY <2>1, <3>1, <3>2
  <2> QED BY <1>2, <2>1, <2>3
<1>5. CASE Announce
  <2>1. /\ Loaded /\ Writing = {} /\ ~broken /\ UNCHANGED <<sidecars, cacheFile, rejected, fresh>> /\ manifest' = mem
        /\ phase = "announce" /\ phase' = "open"
    BY <1>0, <1>5, AtWork DEF Announce, Loaded, Writing, Quiet, history, loaded
  <2>2. mem.pending = None
    BY <1>0, <2>1 DEF Quiet
  <2> QED BY <1>2, <2>1, <2>2, AllRefused DEF Anew
<1>6. CASE Report
  <2>1. /\ Loaded /\ Writing = {} /\ ~broken /\ UNCHANGED <<sidecars, rejected>> /\ manifest' = mem
        /\ cacheFile' = cache /\ phase = "finalize"
    BY <1>6 DEF Report, Loaded, Writing, history
  <2>2. mem.pending = None
    BY <1>0, <2>1 DEF Quiet
  <2>3. \A t \in Table : InMem(t) = mem.tables[t]
    BY <2>1 DEF InMem, Writing
  <2>4. \A t \in Table, c \in Ctx : <<t, c>> \in rejected => Kept(cache[t], c, mem.tables[t])
    BY <2>1, <2>3 DEF RejectInv, RejectedInCache, Inspected
  <2> QED BY <1>2, <2>1, <2>2, <2>4, AllRefused
<1>7. CASE OpenInspector
  <2>1. /\ UNCHANGED <<manifest, sidecars, rejected>> /\ phase' = "batch" /\ phase = "open"
        /\ cacheFile' = cache' /\ cache' = IF fresh THEN EmptyCache ELSE [t \in Table |-> Purged(t, cacheFile[t])]
    BY <1>7 DEF OpenInspector, history
  <2>2. CASE ~fresh
    <3>1. ASSUME NEW t \in Table, NEW c \in Ctx, Has(cacheFile'[t], c) PROVE Has(cacheFile[t], c)
      BY <1>0, <2>1, <2>2, <3>1, PurgedHas DEF DataInv
    <3> QED BY <1>1, <2>1, <2>2, <3>1
  <2>3. CASE fresh
    <3>1. \A t \in Table, c \in Ctx : ~Has(cacheFile'[t], c)
      BY <2>1, <2>3 DEF EmptyCache, Has
    <3> QED BY <1>1, <2>1, <3>1
  <2> QED BY <2>2, <2>3
<1>8. ASSUME NEW t \in Table, Journal(t) PROVE RejectedOnDisk' /\ RejectedPending'
  <2> DEFINE w == Pending(t)
             r == w.result
  <2>1. /\ Loaded /\ w # None /\ w.table = t /\ w.ctx = ctx[t] /\ ctx[t] \in Ctx /\ r \in Result
        /\ Writing = {} /\ at[t] = "told" /\ phase \in {"batch", "finalize"}
    BY <1>8, JournaledIs, AtWork DEF Journal
  <2>2. /\ Recording(ctx[t], r) \in ToSet(w.entry.variants) /\ w.entry \in Entry
        /\ ~Resumable(r) => r.kind # "late" /\ ctx[t] \in ToSet(w.entry.invalid)
        /\ \A c \in Ctx \ {ctx[t]} : <<t, c>> \in rejected =>
              Refused(sidecars[t], c, w.entry) /\ Kept(cacheFile[t], c, w.entry)
    BY <2>1, JournaledMarks
  <2> HIDE DEF w
  <2>3. /\ UNCHANGED <<sidecars, cacheFile, rejected>>
        /\ manifest'.pending = w /\ manifest'.tables = mem.tables
    <3>1. mem' = [mem EXCEPT !.pending = w] /\ manifest' = mem' /\ UNCHANGED <<sidecars, cacheFile, rejected>>
      BY <1>8 DEF Journal, history, w
    <3> QED BY <1>0, <3>1 DEF Manifest
  <2>4. \A x \in Table, c \in Ctx : <<x, c>> \in rejected =>
           Refused(sidecars[x], c, mem.tables[x]) /\ Kept(cacheFile[x], c, mem.tables[x])
    BY <2>1, AllRefused DEF Anew
  <2>5. ASSUME NEW c \in Ctx, <<t, c>> \in rejected, [ctx |-> ctx[t], result |-> r] \in sidecars[t]
        PROVE  Refused(sidecars[t], c, w.entry) /\ Kept(cacheFile[t], c, w.entry)
    <3>1. CASE c # ctx[t]
      BY <2>2, <2>5, <3>1
    <3>2. CASE c = ctx[t]
      <4> DEFINE a == [ctx |-> ctx[t], result |-> r]
      <4>1. a \in sidecars[t] /\ a.ctx = ctx[t] /\ a.result = r
        BY <2>5
      <4> HIDE DEF a
      <4>2. r.kind # "passed"
        BY <2>1, <2>5, <3>2, <4>1 DEF RejectInv, RejectedSidecars
      <4>3. ~Resumable(r)
        BY <4>2 DEF Resumable
      <4>4. Refused(sidecars[t], ctx[t], w.entry)
        BY <2>1, <2>2, <4>3, RecordingRefused
      <4> QED BY <2>2, <3>2, <4>3, <4>4 DEF Kept
    <3> QED BY <3>1, <3>2
  <2>6. \A x \in Table : Effective(x)' =
           IF x = t /\ [ctx |-> ctx[t], result |-> r] \in sidecars[t] THEN w.entry ELSE mem.tables[x]
    <3>1. \A x \in Table : Effective(x)' =
            IF /\ manifest'.pending # None
               /\ manifest'.pending.table = x
               /\ [ctx |-> manifest'.pending.ctx, result |-> manifest'.pending.result] \in sidecars'[x]
            THEN manifest'.pending.entry ELSE manifest'.tables[x]
      BY DEF Effective
    <3> QED BY <2>1, <2>3, <3>1 DEF r
  <2>7. RejectedOnDisk'
    <3>1. ASSUME NEW x \in Table, NEW c \in Ctx, <<x, c>> \in rejected'
          PROVE  Refused(sidecars'[x], c, Effective(x)') /\ Kept(cacheFile'[x], c, Effective(x)')
      BY <2>3, <2>4, <2>5, <2>6, <3>1
    <3> QED BY <3>1 DEF RejectedOnDisk
  <2>8. RejectedPending'
    <3>1. \A c \in Ctx \ {ctx[t]} : <<t, c>> \in rejected' =>
             Refused(sidecars'[t], c, w.entry) /\ Kept(cacheFile'[t], c, w.entry)
      BY <2>2, <2>3
    <3>2. ~Resumable(w.result) => w.result.kind # "late" /\ w.ctx \in ToSet(w.entry.invalid)
      BY <2>1, <2>2 DEF r
    <3> QED BY <2>1, <2>3, <3>1, <3>2 DEF RejectedPending
  <2> QED BY <2>7, <2>8
<1>9. ASSUME NEW t \in Table, Place(t) PROVE RejectedOnDisk' /\ RejectedPending'
  <2>1. PICK w \in Write : Settling(w) /\ w.table = t
    BY <1>9, PlaceSettles
  <2>2. /\ \A c \in Ctx : <<t, c>> \in rejected' =>
              Refused(sidecars'[t], c, w.entry) /\ Kept(cacheFile[t], c, w.entry)
        /\ \A x \in Table \ {t}, c \in Ctx : <<x, c>> \in rejected' =>
              <<x, c>> \in rejected /\ sidecars'[x] = sidecars[x] /\ Effective(x) = manifest.tables[x]
    BY <1>0, <2>1, PlacesRefused DEF DataInv
  <2>3. manifest' = manifest /\ manifest.pending = w /\ w # None /\ cacheFile' = cacheFile
        /\ phase \in {"batch", "finalize"}
    BY <1>9, <2>1, PlaceSettles, WriteNone DEF Settling, Place
  <2>4. \A x \in Table : Effective(x)' = IF x = t THEN w.entry ELSE manifest.tables[x]
    <3>1. \A x \in Table : Effective(x)' =
            IF /\ manifest'.pending # None
               /\ manifest'.pending.table = x
               /\ [ctx |-> manifest'.pending.ctx, result |-> manifest'.pending.result] \in sidecars'[x]
            THEN manifest'.pending.entry ELSE manifest'.tables[x]
      BY DEF Effective
    <3>2. [ctx |-> w.ctx, result |-> w.result] \in sidecars'[t]
      BY <2>1, SettlingIs DEF DataInv
    <3> QED BY <2>1, <2>3, <3>1, <3>2
  <2>5. RejectedOnDisk'
    <3>1. ASSUME NEW x \in Table, NEW c \in Ctx, <<x, c>> \in rejected'
          PROVE  Refused(sidecars'[x], c, Effective(x)') /\ Kept(cacheFile'[x], c, Effective(x)')
      BY <1>0, <2>2, <2>3, <2>4, <3>1 DEF RejectedOnDisk
    <3> QED BY <3>1 DEF RejectedOnDisk
  <2>6. RejectedPending'
    <3>1. ~Resumable(w.result) => w.result.kind # "late" /\ w.ctx \in ToSet(w.entry.invalid)
      BY <1>0, <2>3 DEF RejectedPending
    <3> QED BY <2>1, <2>2, <2>3, <3>1 DEF RejectedPending
  <2> QED BY <2>5, <2>6
<1>10. ASSUME NEW t \in Table, Commit(t) PROVE RejectedOnDisk' /\ RejectedPending'
  <2>1. /\ at[t] = "placed" /\ Loaded /\ UNCHANGED <<sidecars, cacheFile, rejected>> /\ manifest' = mem'
        /\ mem'.pending = None /\ phase \in {"batch", "finalize"}
        /\ mem'.tables[t] = mem.pending.entry /\ \A x \in Table \ {t} : mem'.tables[x] = mem.tables[x]
    BY <1>0, <1>10, JournaledIs, AtWork DEF Commit, Manifest, history
  <2>2. \A x \in Table : InMem(x) = mem'.tables[x]
    BY <2>1 DEF InMem, StagesInv, Alone
  <2>3. \A x \in Table, c \in Ctx : <<x, c>> \in rejected =>
           Refused(sidecars[x], c, mem'.tables[x]) /\ Kept(cacheFile[x], c, mem'.tables[x])
    BY <2>1, <2>2 DEF RejectInv, RejectedInMemory, Anew
  <2> QED BY <1>2, <2>1, <2>3
<1>11. CASE Finish
  <2>1. /\ phase \in {"finish", "blocked"} /\ UNCHANGED <<sidecars, cacheFile>>
        /\ rejected' = rejected \cup {<<t, ctx[t]>> : t \in bad}
        /\ manifest' = [tables |-> [t \in Table |-> IF t \in bad THEN RejectedEntry(mem.tables[t])
                                                    ELSE mem.tables[t]],
                        pending |-> mem.pending,
                        published |-> IF phase = "finish" THEN runs ELSE None]
    BY <1>11 DEF Finish
  <2>2. /\ Loaded /\ Writing = {} /\ mem.pending = None
        /\ \A t \in Table : Final(t)
    BY <1>0, <2>1, AtWork DEF Loaded, Writing, Quiet, Final, Inspected
  <2>3. ASSUME NEW t \in Table, NEW c \in Ctx, <<t, c>> \in rejected'
        PROVE  Refused(sidecars'[t], c, manifest'.tables[t]) /\ Kept(cacheFile'[t], c, manifest'.tables[t])
    <3> DEFINE e == mem.tables[t]
    <3>1. <<t, c>> \in rejected => Refused(sidecars[t], c, e) /\ Kept(cacheFile[t], c, e)
      BY <2>1, <2>2, AllRefused DEF Anew
    <3>2. CASE t \notin bad
      BY <2>1, <2>3, <3>1, <3>2
    <3>3. CASE t \in bad
      <4>1. manifest'.tables[t] = RejectedEntry(e) /\ (c # ctx[t] => <<t, c>> \in rejected)
        BY <2>1, <2>3, <3>3
      <4>2. RejectedContext(e) = ctx[t] /\ e.variants # <<>>
        BY <1>0, <2>2 DEF Finalized, RejectedContext, Has
      <4>3. e \in Entry
        BY <1>0 DEF Manifest
      <4>4. Len(e.invalid) < MaxInvalid
        <5>1. Len(e.invalid) + Len(e.variants) < MaxInvalid
          BY DEF RoomForMarks
        <5> QED BY <4>3, <5>1, RoomForOne
      <4> HIDE DEF e
      <4> DEFINE new == RejectedEntry(e)
      <4>5. /\ \A v \in ToSet(new.variants) : \E w \in ToSet(e.variants) :
                  /\ v.ctx = w.ctx /\ v.result = w.result
                  /\ IF w.ctx = ctx[t] THEN ~v.eligible ELSE v = w
            /\ ctx[t] \in ToSet(new.invalid) /\ ToSet(e.invalid) \subseteq ToSet(new.invalid)
        BY <4>2, <4>3, <4>4, RejectedIs
      <4> HIDE DEF new
      <4>6. CASE c = ctx[t]
        <5>1. Refused(sidecars[t], c, new)
          BY <4>5, <4>6 DEF Refused
        <5> QED BY <2>1, <4>1, <4>5, <4>6, <5>1 DEF Kept, new
      <4>7. CASE c # ctx[t]
        <5>1. Refused(sidecars[t], c, e) /\ Kept(cacheFile[t], c, e)
          BY <3>1, <4>1, <4>7
        <5>2. \A v \in ToSet(new.variants) : v.ctx = c => v \in ToSet(e.variants)
          BY <4>5, <4>7
        <5>3. Refused(sidecars[t], c, new)
          BY <5>1, <5>2, RefusedStays
        <5>4. Kept(cacheFile[t], c, new)
          BY <4>5, <5>1 DEF Kept
        <5> QED BY <2>1, <4>1, <5>3, <5>4 DEF new
      <4> QED BY <4>6, <4>7
    <3> QED BY <3>2, <3>3
  <2> QED BY <1>2, <2>1, <2>2, <2>3
<1>12. ASSUME NEW t \in Table, Ask(t) PROVE RejectedOnDisk' /\ RejectedPending'
  <2>1. UNCHANGED <<manifest, sidecars>> /\ phase = "batch"
    BY <1>12 DEF Ask
  <2> QED BY <1>0, <1>1, <1>12, <2>1, AskKeeps
<1>13. CASE Leave \/ Die
  <2>1. /\ UNCHANGED <<manifest, sidecars, rejected>> /\ ~(fresh /\ phase = "open")
        /\ cacheFile' = cacheFile \/ cacheFile' = EmptyCache
    BY <1>13 DEF Leave, Die, disk, history
  <2>2. \A t \in Table, c \in Ctx : Has(cacheFile'[t], c) => Has(cacheFile[t], c)
    BY <2>1 DEF EmptyCache, Has
  <2> QED BY <1>1, <2>1, <2>2
<1>14. CASE EndBatch \/ Validate \/ PublishFails \/ Interrupt
  BY <1>1, <1>14 DEF EndBatch, BatchOver, Validate, PublishFails, Interrupt, disk, history
<1>15. ASSUME NEW t \in Table, Restore(t) \/ Skip(t) \/ Finalize(t) \/ WriteFails(t) \/ Edit(t)
       PROVE  RejectedOnDisk' /\ RejectedPending'
  <2>1. UNCHANGED <<disk, rejected>> /\ phase # "open"
    BY <1>15, AtWork DEF Restore, Skip, Finalize, WriteFails, Edit, history
  <2> QED BY <1>1, <2>1 DEF disk
<1>16. ASSUME NEW f \in File, MoveAway(f) \/ MoveIn(f) \/ PutBack(f) PROVE RejectedOnDisk' /\ RejectedPending'
  BY <1>1, <1>16 DEF MoveAway, MoveIn, PutBack, history
<1>17. ASSUME NEW noCache \in BOOLEAN, Start(noCache) PROVE RejectedOnDisk' /\ RejectedPending'
  BY <1>1, <1>17 DEF Start, disk, history
<1>18. CASE UNCHANGED vars
  <2>1. UNCHANGED <<manifest, sidecars, cacheFile, rejected, fresh, phase>>
    BY <1>18 DEF vars, disk, history, loaded
  <2>2. \A t \in Table : Effective(t)' = Effective(t)
    BY <2>1 DEF Effective
  <2> QED BY <1>0, <2>1, <2>2 DEF RejectedOnDisk, RejectedPending
<1> QED BY <1>3, <1>4, <1>5, <1>6, <1>7, <1>8, <1>9, <1>10, <1>11, <1>12, <1>13, <1>14, <1>15, <1>16, <1>17, <1>18
        DEF Next, Working, Opening, Inspecting, Journaling

\* Pruning keeps nothing about a refused context but the mark.
LEMMA PruneRefuses ==
    ASSUME StagesInv, DataInv, JournalInv, RejectInv, RoomForMarks, Prune,
           NEW t \in Table, NEW c \in Ctx, <<t, c>> \in rejected'
    PROVE  /\ Refused(sidecars'[t], c, mem'.tables[t]) /\ (Kept(cacheFile[t], c, mem'.tables[t]) \/ fresh)
           /\ ~Has(resume'[t].variants, c)
           /\ \A s \in sidecars'[t] : s.ctx # c
<1>1. <<t, c>> \in rejected /\ manifest.pending = None /\ manifest.tables[t] \in Entry /\ phase = "prune"
  BY DEF JournalInv, Quiet, Prune, DataInv, OnDisk, Manifest
<1>2. CASE fresh
  <2>1. mem'.tables[t] = NoEntry /\ resume'[t] = NoEntry
        /\ sidecars'[t] = {s \in sidecars[t] : Has(NoEntry.variants, s.ctx)}
    BY <1>2 DEF Prune, NoManifest
  <2>2. NoEntry.variants = <<>> /\ ToSet(<<>>) = {}
    BY EmptyIs DEF NoEntry
  <2>3. \A d : ~Has(NoEntry.variants, d)
    BY <2>2, HasIs
  <2> QED BY <1>2, <2>1, <2>2, <2>3 DEF Refused
<1>3. CASE ~fresh
  <2> DEFINE e == manifest.tables[t]
             new == Prepared(t, e)
  <2>1. mem'.tables[t] = new /\ resume'[t] = new
        /\ sidecars'[t] = {s \in sidecars[t] : Has(new.variants, s.ctx)}
    BY <1>3 DEF Prune
  <2>2. Refused(sidecars[t], c, e) /\ Kept(cacheFile[t], c, e)
    <3>1. Effective(t) = e
      BY <1>1 DEF Effective
    <3> QED BY <1>1, <3>1 DEF RejectInv, RejectedOnDisk
  <2>3. Len(e.invalid) + Len(e.variants) <= MaxInvalid
    <3>1. Len(e.invalid) + Len(e.variants) < MaxInvalid
      BY DEF RoomForMarks
    <3> QED BY <1>1, <3>1, RoomForOne
  <2>4. ToSet(new.variants) = {v \in ToSet(e.variants) : Valid(t, v)}
    BY <1>1, PreparedIs
  <2>5. c \in ToSet(e.invalid) /\ ~Has(new.variants, c) => c \in ToSet(new.invalid)
    BY <1>1, <2>3, PreparedIs
  <2> HIDE DEF new, e
  <2>6. ~Has(new.variants, c)
    <3>1. ASSUME NEW v \in ToSet(new.variants), v.ctx = c PROVE FALSE
      BY <2>2, <2>4, <3>1 DEF Refused, Valid
    <3> QED BY <3>1, HasIs
  <2>7. Refused(sidecars'[t], c, new)
    BY <2>6, HasIs DEF Refused
  <2>8. Kept(cacheFile[t], c, new)
    BY <2>2, <2>5, <2>6 DEF Kept
  <2> QED BY <2>1, <2>6, <2>7, <2>8
<1> QED BY <1>2, <1>3

\* The property, for one step: what is restored was not refused.
LEMMA NotRestored ==
    ASSUME DataInv, RejectInv, NEW t \in Table, Restore(t)
    PROVE  <<t, ctx[t]>> \notin rejected
<1>1. phase = "batch" /\ at[t] = "due" /\ (Has(resume[t].variants, ctx[t]) \/ Has(cache[t], ctx[t])) /\ ctx[t] \in Ctx
  BY DEF Restore, FromCheckpoint, FromCache, DataInv, Asked, Inspected
<1> QED BY <1>1 DEF RejectInv, RejectedLoaded, Older

LEMMA SameCacheNext == DataInv /\ SameCache /\ [Next]_vars => SameCache'
<1> SUFFICES ASSUME DataInv, SameCache, [Next]_vars PROVE SameCache'
  OBVIOUS
<1>1. ASSUME phase' # "batch" PROVE SameCache'
  BY <1>1 DEF SameCache
<1>2. ASSUME UNCHANGED <<cache, cacheFile, phase>> PROVE SameCache'
  BY <1>2 DEF SameCache
<1>3. ASSUME cacheFile' = cache' PROVE SameCache'
  BY <1>3 DEF SameCache
<1>4. CASE Recover \/ Prune \/ Announce
  BY <1>1, <1>4 DEF Recover, Prune, Announce
<1>5. CASE OpenInspector
  BY <1>3, <1>5 DEF OpenInspector
<1>6. ASSUME NEW t \in Table, Ask(t) PROVE SameCache'
  BY <1>3, <1>6, AskKeeps
<1>7. ASSUME NEW t \in Table, Restore(t) \/ Skip(t) \/ Journaling(t) PROVE SameCache'
  BY <1>2, <1>7 DEF Restore, Skip, Journaling, Journal, Place, Commit, WriteFails, disk, loaded
<1>8. ASSUME NEW t \in Table, Finalize(t) \/ Edit(t) PROVE SameCache'
  BY <1>1, <1>8 DEF Finalize, Edit
<1>9. CASE EndBatch
  <2>1. UNCHANGED <<cache, cacheFile>> /\ phase = "batch"
    BY <1>9 DEF EndBatch, BatchOver, disk, loaded
  <2> QED BY <2>1 DEF SameCache
<1>10. CASE Report \/ Validate \/ PublishFails \/ Finish \/ Leave \/ Die
  BY <1>1, <1>10 DEF Report, Validate, PublishFails, Finish, Leave, Die, Gone
<1>11. CASE Interrupt
  BY <1>2, <1>11 DEF Interrupt, disk, loaded
<1>12. ASSUME NEW f \in File, MoveAway(f) \/ MoveIn(f) \/ PutBack(f) PROVE SameCache'
  BY <1>1, <1>12 DEF MoveAway, MoveIn, PutBack
<1>13. ASSUME NEW noCache \in BOOLEAN, Start(noCache) PROVE SameCache'
  BY <1>1, <1>13 DEF Start
<1>14. CASE UNCHANGED vars
  BY <1>2, <1>14 DEF vars, disk, loaded
<1> QED BY <1>4, <1>5, <1>6, <1>7, <1>8, <1>9, <1>10, <1>11, <1>12, <1>13, <1>14
        DEF Next, Working, Opening, Inspecting

LEMMA RefusedInMemoryNext ==
    ASSUME StagesInv, DataInv, JournalInv, RejectInv, RoomForMarks, [Next]_vars
    PROVE  RejectedInMemory'
<1>0. RejectedInMemory /\ SameCache /\ DataInv /\ cacheFile \in [Table -> Seq(Saved)]
  BY DEF RejectInv, DataInv, OnDisk
<1>1. ASSUME UNCHANGED sidecars, \A t \in Table : InMem(t)' = InMem(t), rejected' \subseteq rejected, Loaded,
             Anew => Anew' \/ \A t \in Table, c \in Ctx : ~Has(cacheFile'[t], c),
             \A t \in Table, c \in Ctx : <<t, c>> \in rejected' /\ Has(cacheFile'[t], c) => Has(cacheFile[t], c)
      PROVE  RejectedInMemory'
  <2>1. ASSUME NEW t \in Table, NEW c \in Ctx, <<t, c>> \in rejected'
        PROVE  Refused(sidecars'[t], c, InMem(t)') /\ (Kept(cacheFile'[t], c, InMem(t)') \/ Anew')
    <3>1. Refused(sidecars[t], c, InMem(t)) /\ (Kept(cacheFile[t], c, InMem(t)) \/ Anew)
      BY <1>0, <1>1, <2>1 DEF RejectedInMemory
    <3>2. Kept(cacheFile'[t], c, InMem(t)) \/ Anew'
      BY <1>1, <2>1, <3>1 DEF Kept
    <3> QED BY <1>1, <3>1, <3>2
  <2> QED BY <2>1 DEF RejectedInMemory
<1>2. ASSUME ~Loaded' PROVE RejectedInMemory'
  BY <1>2 DEF RejectedInMemory
<1>3. CASE Recover
  BY <1>2, <1>3 DEF Recover, Loaded
<1>4. CASE Prune
  <2>1. \A t \in Table : InMem(t)' = mem'.tables[t]
    <3>1. at' = at /\ \A t \in Table : at[t] # "placed"
      BY <1>4, AtWork DEF Prune, pipeline
    <3> QED BY <3>1 DEF InMem
  <2>2. cacheFile' = cacheFile /\ (fresh => Anew')
    BY <1>4 DEF Prune, Anew
  <2>3. \A t \in Table, c \in Ctx : <<t, c>> \in rejected' =>
           Refused(sidecars'[t], c, InMem(t)') /\ (Kept(cacheFile'[t], c, InMem(t)') \/ Anew')
    BY <1>4, <2>1, <2>2, PruneRefuses
  <2> QED BY <2>3 DEF RejectedInMemory
<1>5. CASE OpenInspector
  <2>1. /\ rejected' = rejected /\ Loaded
        /\ cacheFile' = cache' /\ cache' = IF fresh THEN EmptyCache ELSE [t \in Table |-> Purged(t, cacheFile[t])]
    BY <1>5 DEF OpenInspector, history, Loaded
  <2>2. \A t \in Table, c \in Ctx : Has(cacheFile'[t], c) => Has(cacheFile[t], c)
    <3>1. CASE fresh
      BY <2>1, <3>1 DEF EmptyCache, Has
    <3>2. CASE ~fresh
      BY <1>0, <2>1, <3>2, PurgedHas DEF DataInv
    <3> QED BY <3>1, <3>2
  <2>3. Anew => \A t \in Table, c \in Ctx : ~Has(cacheFile'[t], c)
    BY <2>1 DEF Anew, EmptyCache, Has
  <2>4. UNCHANGED sidecars /\ \A t \in Table : InMem(t)' = InMem(t)
    BY <1>5, InMemStays
  <2> QED BY <1>1, <2>1, <2>2, <2>3, <2>4
<1>6. CASE Report
  <2>1. rejected' = rejected /\ phase = "finalize" /\ cacheFile' = cache
    BY <1>6 DEF Report, history
  <2>2. UNCHANGED sidecars /\ \A t \in Table : InMem(t)' = InMem(t)
    BY <1>6, InMemStays
  <2>3. ASSUME NEW t \in Table, NEW c \in Ctx, <<t, c>> \in rejected'
        PROVE  Refused(sidecars'[t], c, InMem(t)') /\ Kept(cacheFile'[t], c, InMem(t)')
    <3>1. Refused(sidecars[t], c, InMem(t)) /\ Kept(cache[t], c, InMem(t))
      BY <2>1, <2>3 DEF RejectInv, RejectedInMemory, RejectedInCache, Loaded, Inspected
    <3> QED BY <2>1, <2>2, <3>1
  <2> QED BY <2>3 DEF RejectedInMemory
<1>7. CASE EndBatch \/ Validate \/ PublishFails \/ Interrupt \/ Announce \/ UNCHANGED vars
  <2>1. UNCHANGED <<rejected, cacheFile>> /\ (Loaded' => Loaded) /\ (Anew => Anew')
    BY <1>7 DEF EndBatch, BatchOver, Validate, PublishFails, Interrupt, Announce, vars, disk, loaded,
                history, Loaded, Anew
  <2>2. UNCHANGED sidecars /\ \A t \in Table : InMem(t)' = InMem(t)
    BY <1>7, InMemStays
  <2> QED BY <1>1, <1>2, <2>1, <2>2
<1>8. ASSUME NEW t \in Table, Ask(t) PROVE RejectedInMemory'
  <2>1. Loaded /\ ~Anew
    BY <1>8 DEF Ask, Loaded, Anew
  <2>2. UNCHANGED sidecars /\ \A x \in Table : InMem(x)' = InMem(x)
    BY <1>8, InMemStays DEF Inspecting
  <2> QED BY <1>0, <1>1, <1>8, <2>1, <2>2, AskKeeps
<1>9. ASSUME NEW t \in Table, Restore(t) \/ Skip(t) \/ Finalize(t) PROVE RejectedInMemory'
  <2>1. UNCHANGED <<rejected, cacheFile>> /\ Loaded /\ ~Anew
    BY <1>9, AtWork DEF Restore, Skip, Finalize, disk, history, Loaded, Anew
  <2>2. UNCHANGED sidecars /\ \A x \in Table : InMem(x)' = InMem(x)
    BY <1>9, InMemStays DEF Inspecting
  <2> QED BY <1>1, <2>1, <2>2
<1>10. ASSUME NEW t \in Table, Journal(t) \/ Commit(t) \/ WriteFails(t) PROVE RejectedInMemory'
  <2>1. ~Anew
    BY <1>10, JournalSteps DEF Anew
  <2> QED BY <1>1, <1>10, <2>1, JournalSteps
<1>11. ASSUME NEW t \in Table, Place(t) PROVE RejectedInMemory'
  <2>1. PICK w \in Write : Settling(w) /\ w.table = t /\ \A x \in Table : InMem(x)' = IF x = t THEN w.entry ELSE InMem(x)
    BY <1>11, PlaceInMem
  <2>2. /\ \A c \in Ctx : <<t, c>> \in rejected' => Refused(sidecars'[t], c, w.entry) /\ Kept(cacheFile[t], c, w.entry)
        /\ \A x \in Table \ {t}, c \in Ctx : <<x, c>> \in rejected' =>
              <<x, c>> \in rejected /\ sidecars'[x] = sidecars[x]
    BY <2>1, PlacesRefused DEF DataInv, RejectInv
  <2>3. Loaded /\ ~Anew /\ cacheFile' = cacheFile
    BY <1>11, PlaceSettles DEF Loaded, Anew, Place
  <2>4. ASSUME NEW x \in Table, NEW c \in Ctx, <<x, c>> \in rejected'
        PROVE  Refused(sidecars'[x], c, InMem(x)') /\ Kept(cacheFile'[x], c, InMem(x)')
    BY <1>0, <2>1, <2>2, <2>3, <2>4 DEF RejectedInMemory
  <2> QED BY <2>4 DEF RejectedInMemory
<1>12. CASE Finish \/ Leave \/ Die
  BY <1>2, <1>12 DEF Finish, Leave, Die, Gone, Loaded
<1>13. ASSUME NEW f \in File, MoveAway(f) \/ MoveIn(f) \/ PutBack(f) PROVE RejectedInMemory'
  <2>1. UNCHANGED <<rejected, cacheFile>> /\ Loaded /\ ~Anew
    BY <1>13 DEF MoveAway, MoveIn, PutBack, history, Loaded, Anew
  <2>2. UNCHANGED sidecars /\ \A x \in Table : InMem(x)' = InMem(x)
    BY <1>13, InMemStays
  <2> QED BY <1>1, <2>1, <2>2
<1>14. ASSUME NEW noCache \in BOOLEAN, Start(noCache) PROVE RejectedInMemory'
  BY <1>2, <1>14 DEF Start, Loaded
<1>15. ASSUME NEW t \in Table, Edit(t) PROVE RejectedInMemory'
  BY <1>2, <1>15 DEF Edit, Loaded
<1> QED BY <1>3, <1>4, <1>5, <1>6, <1>7, <1>8, <1>9, <1>10, <1>11, <1>12, <1>13, <1>14, <1>15
        DEF Next, Working, Opening, Inspecting, Journaling

\* What the running generation has in its cache it may write to inspect.json.
LEMMA RefusedInCacheNext ==
    ASSUME StagesInv, DataInv, JournalInv, RejectInv, RoomForMarks, [Next]_vars, RejectedInMemory', SameCache'
    PROVE  RejectedInCache'
<1>0. RejectedInCache /\ RejectedMarked /\ DataInv /\ at \in [Table -> Stage] /\ cache \in [Table -> Seq(Saved)]
  BY DEF RejectInv, DataInv, InMemory, StagesInv, Where
<1>1. ASSUME UNCHANGED <<cache, rejected>>, \A t \in Table : InMem(t)' = InMem(t), phase \in Inspected
      PROVE  RejectedInCache'
  BY <1>0, <1>1 DEF RejectedInCache
<1>2. ASSUME phase' \notin Inspected PROVE RejectedInCache'
  BY <1>2 DEF RejectedInCache
<1>3. CASE phase' = "batch"
  <2>1. Loaded' /\ ~Anew' /\ cacheFile' = cache'
    BY <1>3 DEF SameCache, Loaded, Anew
  <2> QED BY <2>1 DEF RejectedInMemory, RejectedInCache
<1>4. CASE Recover \/ Prune \/ Announce \/ OpenInspector
  BY <1>2, <1>3, <1>4 DEF Recover, Prune, Announce, OpenInspector, Inspected
<1>5. CASE EndBatch \/ Report \/ Validate \/ PublishFails \/ Interrupt
  <2>1. UNCHANGED <<cache, rejected>> /\ phase \in Inspected
    BY <1>5 DEF EndBatch, BatchOver, Report, Validate, PublishFails, Interrupt, disk, loaded, history, Inspected
  <2>2. \A t \in Table : InMem(t)' = InMem(t)
    BY <1>5, InMemStays
  <2> QED BY <1>1, <2>1, <2>2
<1>6. CASE UNCHANGED vars
  <2>1. UNCHANGED <<cache, rejected, phase>> /\ \A t \in Table : InMem(t)' = InMem(t)
    BY <1>6, InMemStays DEF vars, loaded, history
  <2> QED BY <1>1, <1>2, <2>1
<1>7. ASSUME NEW t \in Table, Restore(t) \/ Ask(t) PROVE RejectedInCache'
  BY <1>3, <1>7 DEF Restore, Ask
<1>8. ASSUME NEW t \in Table, Skip(t) PROVE RejectedInCache'
  <2>1. UNCHANGED <<cache, rejected>> /\ phase \in Inspected
    BY <1>8, AtWork DEF Skip, loaded, history, Inspected
  <2>2. \A x \in Table : InMem(x)' = InMem(x)
    BY <1>8, InMemStays DEF Inspecting
  <2> QED BY <1>1, <2>1, <2>2
<1>9. ASSUME NEW t \in Table, Journal(t) \/ Commit(t) \/ WriteFails(t) PROVE RejectedInCache'
  <2>1. /\ UNCHANGED <<cache, rejected>> /\ \A x \in Table : InMem(x)' = InMem(x)
        /\ phase \in {"batch", "finalize"}
    BY <1>9, JournalSteps
  <2> QED BY <1>1, <2>1 DEF Inspected
<1>10. ASSUME NEW t \in Table, Place(t) PROVE RejectedInCache'
  <2>1. PICK w \in Write :
           /\ Settling(w) /\ w.table = t /\ w.ctx = ctx[t] /\ mem.pending = w /\ InMem(t) = mem.tables[t]
           /\ \A x \in Table : InMem(x)' = IF x = t THEN w.entry ELSE InMem(x)
    BY <1>10, PlaceInMem
  <2>2. phase \in Inspected /\ phase' = phase /\ cache' = cache /\ at[t] = "journaled"
    BY <1>10, PlaceSettles DEF Place, loaded, Inspected
  <2>3. ToSet(mem.tables[t].invalid) \ {ctx[t]} \subseteq ToSet(w.entry.invalid)
    <3>1. /\ w = Pending(t) /\ w.entry = Recorded(mem.tables[t], ctx[t], Pending(t).result)
          /\ ctx[t] \in Ctx /\ Pending(t).result \in Result /\ mem.tables[t] \in Entry
      BY <2>1, <2>2, JournaledIs
    <3>2. Len(mem.tables[t].invalid) + Len(mem.tables[t].variants) < MaxInvalid
      BY DEF RoomForMarks
    <3>3. Len(mem.tables[t].invalid) < MaxInvalid
      BY <3>1, <3>2, RoomForOne
    <3> QED BY <3>1, <3>3, RecordedMarks
  <2>4. /\ <<t, ctx[t]>> \in rejected' => ctx[t] \in ToSet(w.entry.invalid)
        /\ \A x \in Table, d \in Ctx : x # t \/ d # ctx[t] => (<<x, d>> \in rejected' <=> <<x, d>> \in rejected)
    <3>1. w # None /\ w.ctx \in Ctx /\ w.result \in Result
      BY WriteNone DEF Write
    <3>2. ~Resumable(w.result) => ctx[t] \in ToSet(w.entry.invalid)
      BY <2>1, <3>1 DEF RejectInv, RejectedPending, Settling
    <3> QED BY <2>1, <3>1, <3>2, RejectedSettled DEF Settling
  <2>5. ASSUME NEW x \in Table, NEW c \in Ctx, <<x, c>> \in rejected' PROVE Kept(cache'[x], c, InMem(x)')
    <3>1. CASE x = t /\ c = ctx[t]
      BY <2>1, <2>4, <2>5, <3>1 DEF Kept
    <3>2. CASE x # t \/ c # ctx[t]
      <4>1. Kept(cache[x], c, InMem(x))
        BY <1>0, <2>2, <2>4, <2>5, <3>2 DEF RejectedInCache
      <4> QED BY <2>1, <2>2, <2>3, <3>2, <4>1 DEF Kept
    <3> QED BY <3>1, <3>2
  <2> QED BY <2>5 DEF RejectedInCache
<1>11. ASSUME NEW t \in Table, Finalize(t) PROVE RejectedInCache'
  <2>1. /\ phase = "finalize" /\ phase' = phase /\ rejected' = rejected /\ ~broken /\ pair[t] \in Result /\ ctx[t] \in Ctx
        /\ cache' = IF Cacheable(pair[t]) THEN [cache EXCEPT ![t] = Cached(@, ctx[t], pair[t])] ELSE cache
    BY <1>11 DEF Finalize, history, Inspected, DataInv, Asked, Paired
  <2>2. \A x \in Table : InMem(x)' = InMem(x)
    BY <1>11, InMemStays
  <2>3. ASSUME NEW x \in Table, NEW c \in Ctx, <<x, c>> \in rejected' PROVE Kept(cache'[x], c, InMem(x)')
    <3>1. Kept(cache[x], c, InMem(x))
      BY <1>0, <2>1, <2>3 DEF RejectedInCache, Inspected
    <3>2. CASE cache'[x] = cache[x]
      BY <2>2, <3>1, <3>2
    <3>3. CASE cache'[x] # cache[x]
      <4>1. x = t /\ Cacheable(pair[t]) /\ cache'[t] = Cached(cache[t], ctx[t], pair[t])
        BY <1>0, <2>1, <3>3
      <4>2. CASE c = ctx[t]
        <5>1. c \in ToSet(InMem(t).invalid)
          BY <1>0, <2>1, <2>3, <4>1, <4>2 DEF RejectedMarked
        <5> QED BY <2>2, <4>1, <5>1 DEF Kept
      <4>3. CASE c # ctx[t]
        <5>1. Has(cache'[t], c) => Has(cache[t], c)
          BY <1>0, <2>1, <4>1, <4>3, CachedHas
        <5> QED BY <2>2, <3>1, <4>1, <5>1 DEF Kept
      <4> QED BY <4>2, <4>3
    <3> QED BY <3>2, <3>3
  <2> QED BY <2>3 DEF RejectedInCache
<1>12. CASE Finish \/ Leave \/ Die
  BY <1>2, <1>12 DEF Finish, Leave, Die, Gone, Inspected
<1>13. ASSUME NEW f \in File, MoveAway(f) \/ MoveIn(f) \/ PutBack(f) PROVE RejectedInCache'
  <2>1. UNCHANGED <<cache, rejected>> /\ phase \in Inspected
    BY <1>13 DEF MoveAway, MoveIn, PutBack, loaded, history, Inspected
  <2>2. \A t \in Table : InMem(t)' = InMem(t)
    BY <1>13, InMemStays
  <2> QED BY <1>1, <2>1, <2>2
<1>14. ASSUME NEW noCache \in BOOLEAN, Start(noCache) PROVE RejectedInCache'
  BY <1>2, <1>14 DEF Start, Inspected
<1>15. ASSUME NEW t \in Table, Edit(t) PROVE RejectedInCache'
  BY <1>2, <1>15 DEF Edit, Inspected
<1> QED BY <1>4, <1>5, <1>6, <1>7, <1>8, <1>9, <1>10, <1>11, <1>12, <1>13, <1>14, <1>15
        DEF Next, Working, Opening, Inspecting, Journaling

\* What was loaded in the beginning answers for nothing that was refused.
LEMMA RefusedLoadedNext ==
    ASSUME StagesInv, DataInv, JournalInv, RejectInv, RoomForMarks, [Next]_vars
    PROVE  RejectedLoaded'
<1>0. RejectedLoaded /\ SameCache /\ DataInv /\ at \in [Table -> Stage] /\ cacheFile \in [Table -> Seq(Saved)]
  BY DEF RejectInv, DataInv, OnDisk, StagesInv, Where
<1>1. ASSUME UNCHANGED <<ctx, resume, mem, phase>>, rejected' \subseteq rejected,
             \A t \in Table : at'[t] = "due" => at[t] = "due",
             \A t \in Table, c \in Ctx : <<t, c>> \in rejected' /\ Has(cache'[t], c) => Has(cache[t], c)
      PROVE  RejectedLoaded'
  <2>1. \A t \in Table, c \in Ctx : Older(t, c) => Older(t, c)'
    BY <1>1 DEF Older
  <2> QED BY <1>0, <1>1, <2>1 DEF RejectedLoaded
<1>2. ASSUME phase' \notin {"announce", "open", "batch"} PROVE RejectedLoaded'
  BY <1>2 DEF RejectedLoaded
<1>3. CASE Recover
  BY <1>2, <1>3 DEF Recover
<1>4. CASE Prune
  <2>1. phase' = "announce" /\ mem'.tables = resume'
    BY <1>4 DEF Prune
  <2>2. \A t \in Table, c \in Ctx : <<t, c>> \in rejected' => ~Has(resume'[t].variants, c)
    BY <1>4, PruneRefuses
  <2> QED BY <2>1, <2>2 DEF RejectedLoaded
<1>5. CASE Announce
  <2>1. phase = "announce" /\ phase' = "open" /\ UNCHANGED <<resume, mem, rejected>>
    BY <1>5 DEF Announce, loaded, history
  <2>2. \A t \in Table, c \in Ctx : ~Older(t, c)
    BY <2>1 DEF Older
  <2> QED BY <1>0, <2>1, <2>2 DEF RejectedLoaded
<1>6. CASE OpenInspector
  <2>1. /\ phase = "open" /\ phase' = "batch" /\ UNCHANGED <<resume, mem, rejected>>
        /\ cache' = IF fresh THEN EmptyCache ELSE [t \in Table |-> Purged(t, cacheFile[t])]
    BY <1>6 DEF OpenInspector, history
  <2>2. \A t \in Table, c \in Ctx : ~Older(t, c)
    BY <2>1 DEF Older
  <2>3. \A t \in Table : InMem(t) = resume[t]
    <3>1. mem.tables = resume
      BY <1>0, <2>1 DEF RejectedLoaded
    <3>2. \A t \in Table : at[t] # "placed"
      BY <2>1, AtWork
    <3> QED BY <3>1, <3>2 DEF InMem
  <2>4. ASSUME NEW t \in Table, NEW c \in Ctx, <<t, c>> \in rejected' PROVE ~Has(cache'[t], c)
    <3>1. CASE fresh
      BY <2>1, <3>1 DEF EmptyCache, Has
    <3>2. CASE ~fresh
      <4>1. Kept(cacheFile[t], c, resume[t])
        BY <2>1, <2>3, <2>4, <3>2 DEF RejectInv, RejectedInMemory, Loaded, Anew
      <4>2. Has(cache'[t], c) => Has(cacheFile[t], c) /\ c \notin ToSet(resume[t].invalid)
        BY <1>0, <2>1, <3>2, PurgedHas DEF DataInv
      <4> QED BY <4>1, <4>2 DEF Kept
    <3> QED BY <3>1, <3>2
  <2> QED BY <1>0, <2>1, <2>2, <2>4 DEF RejectedLoaded
<1>7. ASSUME NEW t \in Table, Ask(t) PROVE RejectedLoaded'
  <2>1. /\ UNCHANGED <<ctx, resume, mem, phase>> /\ phase = "batch"
        /\ \A x \in Table : at'[x] = "due" => at[x] = "due"
    BY <1>0, <1>7 DEF Ask, Answered
  <2>2. /\ rejected' \subseteq rejected /\ cacheFile = cache
        /\ \A x \in Table, c \in Ctx : <<x, c>> \in rejected' /\ Has(cache'[x], c) => Has(cache[x], c)
    BY <1>0, <1>7, <2>1, AskKeeps DEF SameCache
  <2> QED BY <1>1, <2>1, <2>2
<1>8. ASSUME NEW t \in Table, Restore(t) \/ Skip(t) PROVE RejectedLoaded'
  <2>1. UNCHANGED <<ctx, resume, mem, phase, cache, rejected>> /\ \A x \in Table : at'[x] = "due" => at[x] = "due"
    BY <1>0, <1>8 DEF Restore, Skip, Answered, loaded, history
  <2> QED BY <1>1, <2>1
<1>9. ASSUME NEW t \in Table, Journal(t) \/ Commit(t) \/ WriteFails(t) PROVE RejectedLoaded'
  <2>1. /\ UNCHANGED <<ctx, resume, phase, cache, rejected>> /\ phase \in {"batch", "finalize"}
        /\ \A x \in Table : at'[x] = "due" => at[x] = "due"
    BY <1>9, JournalSteps
  <2>2. \A x \in Table, c \in Ctx : Older(x, c) => Older(x, c)'
    BY <2>1 DEF Older
  <2> QED BY <1>0, <2>1, <2>2 DEF RejectedLoaded
<1>10. ASSUME NEW t \in Table, Place(t) PROVE RejectedLoaded'
  <2>1. PICK w \in Write : Settling(w) /\ w.table = t /\ w.ctx = ctx[t]
    BY <1>10, PlaceInMem
  <2>2. /\ UNCHANGED <<ctx, resume, phase, cache>> /\ phase \in {"batch", "finalize"} /\ at'[t] = "placed"
        /\ \A x \in Table \ {t} : at'[x] = at[x]
    BY <1>10, PlaceSettles DEF Place, loaded
  <2>3. \A x \in Table, c \in Ctx : Older(x, c) => Older(x, c)'
    BY <2>2 DEF Older
  <2>4. \A c \in Ctx : phase = "batch" /\ c = ctx[t] => Older(t, c)'
    BY <2>2 DEF Older
  <2>5. \A x \in Table, d \in Ctx : x # t \/ d # ctx[t] => (<<x, d>> \in rejected' <=> <<x, d>> \in rejected)
    <3>1. w.ctx \in Ctx /\ w.result \in Result
      BY DEF Write
    <3> QED BY <2>1, <3>1, RejectedSettled DEF Settling
  <2>6. ASSUME phase = "batch", NEW x \in Table, NEW c \in Ctx, <<x, c>> \in rejected'
        PROVE  (~Has(resume'[x].variants, c) /\ ~Has(cache'[x], c)) \/ Older(x, c)'
    <3>1. CASE x = t /\ c = ctx[t]
      BY <2>4, <2>6, <3>1
    <3>2. CASE x # t \/ c # ctx[t]
      <4>1. <<x, c>> \in rejected
        BY <2>5, <2>6, <3>2
      <4>2. (~Has(resume[x].variants, c) /\ ~Has(cache[x], c)) \/ Older(x, c)
        BY <1>0, <2>6, <4>1 DEF RejectedLoaded
      <4> QED BY <2>2, <2>3, <4>2
    <3> QED BY <3>1, <3>2
  <2> QED BY <2>2, <2>6 DEF RejectedLoaded
<1>11. CASE EndBatch
  <2>1. UNCHANGED <<resume, cache, rejected>> /\ phase = "batch" /\ phase' \in {"batch", "finalize"}
    BY <1>11 DEF EndBatch, BatchOver, Propagate, Settle, loaded, history
  <2>2. phase' = "batch" => \A t \in Table, c \in Ctx : Older(t, c) => Older(t, c)'
    BY <1>11, OlderStays
  <2> QED BY <1>0, <2>1, <2>2 DEF RejectedLoaded
<1>12. CASE Interrupt \/ UNCHANGED vars
  BY <1>1, <1>12 DEF Interrupt, vars, loaded, history, pipeline
<1>13. ASSUME NEW t \in Table, Finalize(t) \/ Edit(t) PROVE RejectedLoaded'
  BY <1>2, <1>13 DEF Finalize, Edit
<1>14. CASE Report \/ Validate \/ PublishFails \/ Finish \/ Leave \/ Die
  BY <1>2, <1>14 DEF Report, Validate, PublishFails, Finish, Leave, Die, Gone
<1>15. ASSUME NEW f \in File, MoveAway(f) \/ MoveIn(f) \/ PutBack(f) PROVE RejectedLoaded'
  BY <1>2, <1>15 DEF MoveAway, MoveIn, PutBack
<1>16. ASSUME NEW noCache \in BOOLEAN, Start(noCache) PROVE RejectedLoaded'
  BY <1>2, <1>16 DEF Start
<1> QED BY <1>3, <1>4, <1>5, <1>6, <1>7, <1>8, <1>9, <1>10, <1>11, <1>12, <1>13, <1>14, <1>15, <1>16
        DEF Next, Working, Opening, Inspecting, Journaling

\* What the table has now is marked where it was refused.
LEMMA RefusedMarkedNext ==
    ASSUME StagesInv, DataInv, JournalInv, RejectInv, RoomForMarks, [Next]_vars
    PROVE  RejectedMarked'
<1>0. RejectedMarked /\ at \in [Table -> Stage]
  BY DEF RejectInv, StagesInv, Where
<1>1. ASSUME UNCHANGED <<ctx, pair, phase, broken>>, rejected' \subseteq rejected,
             \A t \in Table : InMem(t)' = InMem(t),
             \A t \in Table : at'[t] # "due" /\ <<t, ctx[t]>> \in rejected' => at[t] # "due"
      PROVE  RejectedMarked'
  BY <1>0, <1>1 DEF RejectedMarked
<1>2. ASSUME broken' \/ phase' \notin {"batch", "finalize"} PROVE RejectedMarked'
  BY <1>2 DEF RejectedMarked
<1>3. CASE Recover \/ Prune \/ Announce
  BY <1>2, <1>3 DEF Recover, Prune, Announce
<1>4. CASE OpenInspector
  BY <1>4 DEF OpenInspector, RejectedMarked
<1>5. ASSUME NEW t \in Table, Restore(t) \/ Ask(t) PROVE RejectedMarked'
  <2>1. /\ UNCHANGED <<ctx, pair, phase, broken>> /\ rejected' \subseteq rejected
        /\ \A x \in Table \ {t} : at'[x] = at[x]
    BY <1>0, <1>5 DEF Restore, Ask, Answered, history
  <2>2. <<t, ctx[t]>> \notin rejected'
    <3>1. CASE Restore(t)
      <4>1. <<t, ctx[t]>> \notin rejected /\ rejected' = rejected
        BY <3>1, NotRestored DEF Restore, history
      <4> QED BY <4>1
    <3>2. CASE Ask(t)
      BY <3>2 DEF Ask
    <3> QED BY <1>5, <3>1, <3>2
  <2>3. \A x \in Table : InMem(x)' = InMem(x)
    BY <1>5, InMemStays DEF Inspecting
  <2> QED BY <1>1, <2>1, <2>2, <2>3
<1>6. ASSUME NEW t \in Table, Skip(t) \/ WriteFails(t) PROVE RejectedMarked'
  BY <1>2, <1>6 DEF Skip, WriteFails
<1>7. ASSUME NEW t \in Table, Journal(t) \/ Commit(t) PROVE RejectedMarked'
  <2>1. /\ UNCHANGED <<ctx, pair, rejected, phase>>
        /\ at[t] # "due" /\ \A x \in Table \ {t} : at'[x] = at[x]
        /\ \A x \in Table : InMem(x)' = InMem(x)
    BY <1>7, JournalSteps
  <2>2. broken' = broken
    BY <1>7 DEF Journal, Commit
  <2> QED BY <1>1, <2>1, <2>2
<1>8. ASSUME NEW t \in Table, Place(t) PROVE RejectedMarked'
  <2>1. PICK w \in Write :
           /\ Settling(w) /\ w.table = t /\ w.ctx = ctx[t]
           /\ \A x \in Table : InMem(x)' = IF x = t THEN w.entry ELSE InMem(x)
    BY <1>8, PlaceInMem
  <2>2. /\ UNCHANGED <<ctx, pair, phase, broken>> /\ phase \in {"batch", "finalize"}
        /\ \A x \in Table \ {t} : at'[x] = at[x]
    BY <1>8, PlaceSettles DEF Place
  <2>3. w # None /\ w.ctx \in Ctx /\ w.result \in Result
    BY WriteNone DEF Write
  <2>4. ~Resumable(w.result) => ctx[t] \in ToSet(w.entry.invalid)
    BY <2>1, <2>3 DEF RejectInv, RejectedPending, Settling
  <2>5. /\ <<t, ctx[t]>> \in rejected' => ctx[t] \in ToSet(w.entry.invalid)
        /\ \A x \in Table, d \in Ctx : x # t => (<<x, d>> \in rejected' <=> <<x, d>> \in rejected)
    BY <2>1, <2>3, <2>4, RejectedSettled DEF Settling
  <2>6. \A x \in Table : ctx[x] \in Ctx
    BY <2>2 DEF DataInv, Asked, Inspected
  <2>7. ASSUME NEW x \in Table, ~broken, <<x, ctx[x]>> \in rejected',
               (phase = "batch" /\ at'[x] # "due") \/ (phase = "finalize" /\ Cacheable(pair[x]))
        PROVE  ctx[x] \in ToSet((InMem(x)').invalid)
    <3>1. CASE x = t
      BY <2>1, <2>5, <2>7, <3>1
    <3>2. CASE x # t
      <4>1. <<x, ctx[x]>> \in rejected /\ at'[x] = at[x] /\ InMem(x)' = InMem(x)
        BY <2>1, <2>2, <2>5, <2>6, <2>7, <3>2
      <4> QED BY <1>0, <2>7, <4>1 DEF RejectedMarked
    <3> QED BY <3>1, <3>2
  <2> QED BY <2>2, <2>7 DEF RejectedMarked
<1>9. ASSUME NEW t \in Table, Finalize(t) PROVE RejectedMarked'
  <2>1. /\ UNCHANGED <<ctx, pair, phase, broken, rejected>>
        /\ \A x \in Table : at'[x] # "due" => at[x] # "due"
    BY <1>0, <1>9 DEF Finalize, history
  <2>2. \A x \in Table : InMem(x)' = InMem(x)
    BY <1>9, InMemStays
  <2> QED BY <1>1, <2>1, <2>2
<1>10. CASE EndBatch
  <2>1. PICK pairs \in Promotions : Propagate(pairs) \/ Settle(pairs)
    BY <1>10 DEF EndBatch
  <2>2. /\ phase = "batch" /\ ~broken /\ broken' = broken /\ rejected' = rejected
        /\ \A t \in Table : at[t] # "due"
    BY <1>10 DEF EndBatch, BatchOver, InBatch, history
  <2>3. \A t \in Table : InMem(t)' = InMem(t)
    BY <1>10, InMemStays
  <2>4. ASSUME NEW t \in Table,
               (phase' = "batch" /\ at'[t] # "due") \/ (phase' = "finalize" /\ Cacheable(pair'[t]))
        PROVE  ctx'[t] = ctx[t]
    <3>1. t \notin Changed(pairs)
      <4>1. CASE Propagate(pairs)
        BY <2>2, <2>4, <4>1 DEF Propagate
      <4>2. CASE Settle(pairs)
        <5>1. pairs \in [Table -> Result]
          BY <1>10, PromotedTyped DEF EndBatch
        <5>2. t \in Changed(pairs) => pair'[t].kind \in {"blocked", "failed", "transient"}
          BY <4>2, <5>1, SettleIs
        <5>3. phase' = "finalize"
          BY <4>2 DEF Settle
        <5> QED BY <2>4, <5>2, <5>3 DEF Cacheable
      <4> QED BY <2>1, <4>1, <4>2
    <3>2. ctx' = Injected(pairs)
      BY <2>1 DEF Propagate, Settle
    <3> QED BY <3>1, <3>2 DEF Changed
  <2> QED BY <1>0, <2>2, <2>3, <2>4 DEF RejectedMarked
<1>11. CASE Interrupt \/ Report \/ Validate \/ PublishFails \/ Finish \/ Leave \/ Die
  BY <1>2, <1>11 DEF Interrupt, Report, Validate, PublishFails, Finish, Leave, Die, Gone
<1>12. ASSUME NEW f \in File, MoveAway(f) \/ MoveIn(f) \/ PutBack(f) PROVE RejectedMarked'
  BY <1>2, <1>12 DEF MoveAway, MoveIn, PutBack
<1>13. ASSUME NEW noCache \in BOOLEAN, Start(noCache) PROVE RejectedMarked'
  BY <1>2, <1>13 DEF Start
<1>14. ASSUME NEW t \in Table, Edit(t) PROVE RejectedMarked'
  BY <1>2, <1>14 DEF Edit
<1>15. CASE UNCHANGED vars
  <2>1. UNCHANGED <<ctx, pair, phase, broken, rejected, at>> /\ \A t \in Table : InMem(t)' = InMem(t)
    BY <1>15, InMemStays DEF vars, pipeline, history
  <2> QED BY <1>1, <2>1
<1> QED BY <1>3, <1>4, <1>5, <1>6, <1>7, <1>8, <1>9, <1>10, <1>11, <1>12, <1>13, <1>14, <1>15
        DEF Next, Working, Opening, Inspecting, Journaling

\* A sidecar of what was refused is not the good result.
LEMMA RefusedSidecarsNext ==
    ASSUME StagesInv, DataInv, JournalInv, RejectInv, RoomForMarks, [Next]_vars
    PROVE  RejectedSidecars'
<1>0. RejectedSidecars /\ DataInv /\ sidecars \in [Table -> SUBSET Saved]
  BY DEF RejectInv, DataInv, OnDisk
<1>1. ASSUME UNCHANGED sidecars, rejected' \subseteq rejected, Loaded' => Loaded PROVE RejectedSidecars'
  BY <1>0, <1>1 DEF RejectedSidecars
<1>2. ASSUME ~Loaded' PROVE RejectedSidecars'
  BY <1>2 DEF RejectedSidecars
<1>3. CASE Recover \/ Finish \/ Leave \/ Die
  BY <1>2, <1>3 DEF Recover, Finish, Leave, Die, Gone, Loaded
<1>4. CASE Prune
  <2>1. \A t \in Table : sidecars'[t] \subseteq sidecars[t]
    BY <1>0, <1>4 DEF Prune
  <2>2. ASSUME NEW t \in Table, NEW s \in sidecars'[t] PROVE <<t, s.ctx>> \notin rejected'
    <3>1. s.ctx \in Ctx
      BY <1>0, <2>1 DEF Saved
    <3> QED BY <1>4, <3>1, PruneRefuses
  <2> QED BY <2>2 DEF RejectedSidecars
<1>5. ASSUME NEW t \in Table, Place(t) PROVE RejectedSidecars'
  <2>1. PICK w \in Write : Settling(w) /\ w.table = t
    BY <1>5, PlaceInMem
  <2>2. Loaded /\ OnDisk
    BY <1>5, PlaceSettles DEF Loaded, DataInv
  <2>3. /\ w.ctx \in Ctx /\ w.result \in Result /\ sidecars'[t] = Put(t, w.ctx, w.result)
        /\ \A x \in Table \ {t} : sidecars'[x] = sidecars[x]
    BY <1>0, <2>1 DEF Settling, Write
  <2>4. /\ <<t, w.ctx>> \in rejected' <=> ~Resumable(w.result)
        /\ \A x \in Table, d \in Ctx : x # t \/ d # w.ctx => (<<x, d>> \in rejected' <=> <<x, d>> \in rejected)
    BY <2>1, <2>3, RejectedSettled DEF Settling
  <2>5. ASSUME NEW x \in Table, NEW s \in sidecars'[x], <<x, s.ctx>> \in rejected' PROVE s.result.kind # "passed"
    <3>1. CASE s \in sidecars[x] /\ (x # t \/ s.ctx # w.ctx)
      <4>1. s.ctx \in Ctx
        BY <1>0, <3>1 DEF Saved
      <4> QED BY <1>0, <2>2, <2>4, <2>5, <3>1, <4>1 DEF RejectedSidecars
    <3>2. CASE x = t /\ s = [ctx |-> w.ctx, result |-> w.result]
      BY <2>4, <2>5, <3>2 DEF Resumable
    <3>3. (s \in sidecars[x] /\ (x # t \/ s.ctx # w.ctx)) \/ (x = t /\ s = [ctx |-> w.ctx, result |-> w.result])
      BY <2>3, <2>5 DEF Put
    <3> QED BY <3>1, <3>2, <3>3
  <2> QED BY <2>5 DEF RejectedSidecars
<1>6. ASSUME NEW t \in Table, Journal(t) \/ Commit(t) \/ WriteFails(t) PROVE RejectedSidecars'
  <2>1. UNCHANGED <<sidecars, rejected>> /\ Loaded
    BY <1>6, JournalSteps
  <2> QED BY <1>1, <2>1
<1>7. ASSUME NEW t \in Table, Inspecting(t) \/ Finalize(t) PROVE RejectedSidecars'
  <2>1. UNCHANGED sidecars /\ rejected' \subseteq rejected /\ phase' = phase
    BY <1>7 DEF Inspecting, Restore, Ask, Skip, Finalize, disk, history
  <2> QED BY <1>1, <2>1 DEF Loaded
<1>8. CASE Announce \/ OpenInspector \/ EndBatch \/ Report \/ Validate \/ PublishFails \/ Interrupt \/ UNCHANGED vars
  <2>1. UNCHANGED <<sidecars, rejected>> /\ (Loaded' => Loaded)
    BY <1>8 DEF Announce, OpenInspector, EndBatch, BatchOver, Report, Validate, PublishFails, Interrupt,
                vars, disk, history, Loaded
  <2> QED BY <1>1, <2>1
<1>9. ASSUME NEW f \in File, MoveAway(f) \/ MoveIn(f) \/ PutBack(f) PROVE RejectedSidecars'
  <2>1. UNCHANGED <<sidecars, rejected>> /\ Loaded
    BY <1>9 DEF MoveAway, MoveIn, PutBack, history, Loaded
  <2> QED BY <1>1, <2>1
<1>10. ASSUME NEW noCache \in BOOLEAN, Start(noCache) PROVE RejectedSidecars'
  BY <1>2, <1>10 DEF Start, Loaded
<1>11. ASSUME NEW t \in Table, Edit(t) PROVE RejectedSidecars'
  BY <1>2, <1>11 DEF Edit, Loaded
<1> QED BY <1>3, <1>4, <1>5, <1>6, <1>7, <1>8, <1>9, <1>10, <1>11
        DEF Next, Working, Opening, Journaling

LEMMA RejectAlways ==
    ASSUME Careful
    PROVE  Spec /\ []RoomForMarks => [](StagesInv /\ DataInv /\ JournalInv /\ Sourced /\ RejectInv)
<1>1. Init => StagesInv /\ DataInv /\ JournalInv /\ Sourced /\ RejectInv
  BY StagesBegin, DataBegin, JournalBegins, RejectBegins
<1>2. StagesInv /\ DataInv /\ JournalInv /\ Sourced /\ RejectInv /\ RoomForMarks /\ [Next]_vars
         => StagesInv' /\ DataInv' /\ JournalInv' /\ Sourced' /\ RejectInv'
  <2> SUFFICES ASSUME StagesInv, DataInv, JournalInv, Sourced, RejectInv, RoomForMarks, [Next]_vars
               PROVE  StagesInv' /\ DataInv' /\ JournalInv' /\ Sourced' /\ RejectInv'
    OBVIOUS
  <2>1. StagesInv' /\ DataInv' /\ JournalInv' /\ Sourced'
    BY JournalNext
  <2>2. RejectedOnDisk' /\ RejectedPending' /\ RejectedInMemory'
    BY RefusedOnDiskNext, RefusedInMemoryNext
  <2>3. SameCache'
    BY SameCacheNext DEF RejectInv
  <2>4. RejectedInCache' /\ RejectedLoaded' /\ RejectedMarked' /\ RejectedSidecars'
    BY <2>2, <2>3, RefusedInCacheNext, RefusedLoadedNext, RefusedMarkedNext, RefusedSidecarsNext
  <2> QED BY <2>1, <2>2, <2>3, <2>4 DEF RejectInv
<1> QED BY <1>1, <1>2, PTL DEF Spec

\* What publication or the layer resolution refused is asked again before its old
\* result is used, be it in the checkpoint, in inspect.json or in a pending write
\* (_prepare_resume_state, _purge_invalidated_cache_variants, reuse_source): for any number of
\* generations, failures and kills, while no mark is dropped for want of room and no
\* generation with --no-cache ends between its new manifest and the drop of inspect.json.
THEOREM RefusedAskedAgain ==
    ASSUME Careful
    PROVE  Spec /\ []RoomForMarks => RejectedNotReused
<1> DEFINE NotUsed == \A t \in Table : Answers(t) /\ source'[t] # "model" => <<t, ctx[t]>> \notin rejected
<1>1. StagesInv /\ DataInv /\ RejectInv /\ Sourced /\ [Next]_vars => NotUsed
  <2> SUFFICES ASSUME StagesInv, DataInv, RejectInv, Sourced, [Next]_vars,
                      NEW t \in Table, Answers(t), source'[t] # "model"
               PROVE  <<t, ctx[t]>> \notin rejected
    OBVIOUS
  <2>1. Restore(t) \/ Ask(t)
    BY AnswersAre
  <2>2. ~Ask(t)
    BY DEF Ask, Answered, Sourced
  <2> QED BY <2>1, <2>2, NotRestored
<1>2. RejectedNotReused <=> [][NotUsed]_vars
  BY DEF RejectedNotReused
<1> QED BY <1>1, <1>2, RejectAlways, PTL DEF Spec

-----------------------------------------------------------------------------
(* The journal is a store *)

\* What a resumed generation would find: s are the sidecars, E the variants of the entry.
Stored(s, E) == {x \in s : \E v \in E :
    v.ctx = x.ctx /\ v.result = x.result /\ v.eligible /\ v.result.kind \notin {"blocked", "failed"}}
NotAbout(E, c) == {v \in E : v.ctx # c}

\* The entry of a pending write is the entry on disk, but for the context written.
PendingAdds == manifest.pending # None =>
    LET w == manifest.pending IN
    NotAbout(ToSet(w.entry.variants), w.ctx) = NotAbout(ToSet(manifest.tables[w.table].variants), w.ctx)
\* Every sidecar is one of an entry in memory.
Shelved == Loaded => \A t \in Table : \A s \in sidecars[t] :
    Recording(s.ctx, s.result) \in ToSet(InMem(t).variants)
\* Whatever was killed now, a resumed generation would find what is in memory.
Mirrored == Loaded => \A t \in Table :
    Stored(sidecars[t], ToSet(Effective(t).variants)) = Stored(sidecars[t], ToSet(InMem(t).variants))
ShelfInv == PendingAdds /\ Shelved /\ Mirrored

KeptNow == [t \in Table |-> Resumes(t)]

LEMMA StoreCounts == ASSUME NEW S PROVE Store!Cardinality(S) = Cardinality(S)
BY DEF Store!Cardinality, Cardinality

LEMMA ResumesAre ==
    ASSUME OnDisk, OnDisk', NEW t \in Table
    PROVE  /\ Resumes(t) = Stored(sidecars[t], ToSet(Effective(t).variants))
           /\ Resumes(t)' = Stored(sidecars'[t], ToSet(Effective(t)'.variants))
<1>1. sidecars[t] \in SUBSET Saved /\ sidecars'[t] \in SUBSET Saved
  BY DEF OnDisk
<1>2. \A x \in Saved : x = [ctx |-> x.ctx, result |-> x.result]
  BY DEF Saved
<1>3. Resumes(t) = Stored(sidecars[t], ToSet(Effective(t).variants))
  BY <1>1, <1>2 DEF Resumes, Valid, Stored
<1>4. Resumes(t)' = Stored(sidecars'[t], ToSet(Effective(t)'.variants))
  BY <1>1, <1>2 DEF Resumes, Valid, Stored
<1> QED BY <1>3, <1>4

LEMMA StoreStays ==
    ASSUME \A t \in Table : Resumes(t)' = Resumes(t)
    PROVE  UNCHANGED KeptNow
BY DEF KeptNow

\* Recording a result is a step of the store: k is what table t had, k2 what it has.
LEMMA StoreRecords ==
    ASSUME NEW t \in Table, NEW c \in Ctx, NEW y,
           \A x \in Table \ {t} : Resumes(x)' = Resumes(x),
           NotAbout(Resumes(t)', c) = NotAbout(Resumes(t), c),
           \A x \in Resumes(t)' : x.ctx = c => x = y,
           \A a, b \in Resumes(t) : a.ctx = b.ctx => a = b
    PROVE  [Store!Next]_KeptNow
<1> DEFINE k == Resumes(t)
           k2 == Resumes(t)'
<1>1. PICK f : f = KeptNow
  OBVIOUS
<1>2. PICK g : g = KeptNow'
  OBVIOUS
<1>3. /\ f = [x \in Table |-> f[x]] /\ f[t] = k /\ g[t] = k2 /\ g = [f EXCEPT ![t] = g[t]]
  BY <1>1, <1>2 DEF KeptNow
<1>4. k = k2 => UNCHANGED KeptNow
  BY <1>1, <1>2, <1>3
<1>5. Store!Cardinality({}) = 0 /\ 0 <= 1
  BY FS_EmptySet, StoreCounts
<1>6. CASE \E r \in k2 : r.ctx = c /\ r \notin k
  <2>1. PICK r \in k2 : r.ctx = c /\ r \notin k
    BY <1>6
  <2>2. k2 \ {r} = NotAbout(k, c)
    BY <2>1 DEF NotAbout
  <2>3. {x \in k : x.ctx # r.ctx} \ (k2 \ {r}) = {}
    BY <2>1, <2>2 DEF NotAbout
  <2>4. Store!Keep
    <3>1. Store!AtMostOneLost(k2 \ {r}, t, r.ctx)
      BY <1>1, <1>3, <1>5, <2>1, <2>2, <2>3 DEF Store!AtMostOneLost, Store!Others, KeptNow, NotAbout
    <3> QED BY <1>1, <1>2, <1>3, <2>1, <3>1 DEF Store!Keep, KeptNow
  <2> QED BY <2>4 DEF Store!Next
<1>7. CASE ~ \E r \in k2 : r.ctx = c /\ r \notin k
  <2>1. k2 \subseteq k
    BY <1>7 DEF NotAbout
  <2>2. CASE k2 # k
    <3>1. PICK r \in k : r \notin k2
      BY <2>1, <2>2
    <3>2. r.ctx = c
      BY <3>1 DEF NotAbout
    <3>3. k2 = NotAbout(k, c)
      BY <2>1, <3>1, <3>2 DEF NotAbout
    <3>4. {x \in k : x.ctx # r.ctx} \ k2 = {} /\ k2 \subseteq {x \in k : x.ctx # r.ctx}
      BY <3>2, <3>3 DEF NotAbout
    <3>5. Store!AtMostOneLost(k2, t, r.ctx)
      BY <1>1, <1>3, <1>5, <3>4 DEF Store!AtMostOneLost, Store!Others, KeptNow
    <3>6. Store!Refuse
      BY <1>1, <1>2, <1>3, <3>1, <3>5 DEF Store!Refuse, KeptNow
    <3> QED BY <3>6 DEF Store!Next
  <2> QED BY <1>4, <2>2
<1> QED BY <1>6, <1>7

\* Without a write to the journal the store stays as it is.
LEMMA ShelfStays ==
    ASSUME ShelfInv, UNCHANGED <<manifest, sidecars>>,
           Loaded' => Loaded /\ \A t \in Table : InMem(t)' = InMem(t)
    PROVE  ShelfInv' /\ UNCHANGED KeptNow
<1>1. \A t \in Table : Effective(t)' = Effective(t)
  BY DEF Effective
<1>2. \A t \in Table : Resumes(t)' = Resumes(t)
  BY <1>1 DEF Resumes, Valid
<1>3. PendingAdds'
  BY DEF ShelfInv, PendingAdds
<1>4. Shelved' /\ Mirrored'
  BY <1>1 DEF ShelfInv, Shelved, Mirrored
<1> QED BY <1>2, <1>3, <1>4, StoreStays DEF ShelfInv

\* Neither does a step after which the manifest on disk is the one in memory.
LEMMA ShelfWritten ==
    ASSUME OnDisk, OnDisk', ShelfInv, Loaded, UNCHANGED sidecars, manifest'.pending = None,
           \A t \in Table : InMem(t)' = InMem(t) /\ manifest'.tables[t] = InMem(t)
    PROVE  ShelfInv' /\ UNCHANGED KeptNow
<1>1. \A t \in Table : Effective(t)' = InMem(t)
  BY DEF Effective
<1>2. ASSUME NEW t \in Table PROVE Resumes(t)' = Resumes(t)
  <2>1. Resumes(t) = Stored(sidecars[t], ToSet(Effective(t).variants))
    BY ResumesAre
  <2>2. Resumes(t)' = Stored(sidecars'[t], ToSet(Effective(t)'.variants))
    BY ResumesAre
  <2> QED BY <1>1, <2>1, <2>2 DEF ShelfInv, Mirrored
<1>3. PendingAdds'
  BY DEF PendingAdds
<1>4. Shelved' /\ Mirrored'
  BY <1>1 DEF ShelfInv, Shelved, Mirrored
<1> QED BY <1>2, <1>3, <1>4, StoreStays DEF ShelfInv

\* In an entry, the recorded context has one variant.
LEMMA OneRecording ==
    ASSUME NEW e \in Entry, NEW c \in Ctx, NEW r \in Result, Recording(c, r) \in ToSet(e.variants),
           NEW v \in ToSet(e.variants), v.ctx = c
    PROVE  v = Recording(c, r)
<1>1. PICK i \in DOMAIN e.variants : e.variants[i] = v
  BY DEF ToSet
<1>2. PICK j \in DOMAIN e.variants : e.variants[j] = Recording(c, r)
  BY DEF ToSet
<1>3. Recording(c, r).ctx = c
  BY DEF Recording
<1> QED BY <1>1, <1>2, <1>3 DEF Entry, Keyed

\* The step that makes the pending write the one on disk records a result, or none
\* if the very result was there before.
LEMMA SettlingStores ==
    ASSUME OnDisk, OnDisk', JournalInv, ShelfInv, NEW w \in Write, Settling(w),
           \A x \in Table : Effective(x)' = IF x = w.table THEN w.entry ELSE Effective(x)
    PROVE  [Store!Next]_KeptNow
<1> DEFINE t == w.table
           c == w.ctx
           y == [ctx |-> c, result |-> w.result]
           s == sidecars[t]
           s2 == sidecars'[t]
           E == ToSet(w.entry.variants)
           D == ToSet(Effective(t).variants)
<1>1. /\ t \in Table /\ c \in Ctx /\ w.result \in Result /\ w.entry \in Entry /\ w # None
      /\ y \in s2
      /\ \A x \in Table \ {t} : sidecars'[x] = sidecars[x]
      /\ \A d \in Ctx \ {c}, q \in Result :
            [ctx |-> d, result |-> q] \in s <=> [ctx |-> d, result |-> q] \in s2
      /\ Recording(c, w.result) \in E
  BY SettlingIs
<1>2. s \in SUBSET Saved /\ s2 \in SUBSET Saved
  BY <1>1 DEF OnDisk
<1>3. /\ \A a, b \in s : a.ctx = b.ctx => a = b
      /\ \A a, b \in s2 : a.ctx = b.ctx => a = b
  BY <1>1, SettlingIs DEF JournalInv, KeyedSidecars
<1>4. Resumes(t) = Stored(s, D) /\ Resumes(t)' = Stored(s2, E)
  <2>1. Resumes(t) = Stored(s, D)
    BY <1>1, ResumesAre
  <2>2. Resumes(t)' = Stored(sidecars'[t], ToSet(Effective(t)'.variants))
    BY <1>1, ResumesAre
  <2>3. Effective(t)' = w.entry
    BY <1>1
  <2> QED BY <2>1, <2>2, <2>3
<1>5. ASSUME NEW x \in Table \ {t} PROVE Resumes(x)' = Resumes(x)
  <2>1. Resumes(x) = Stored(sidecars[x], ToSet(Effective(x).variants))
    BY ResumesAre
  <2>2. Resumes(x)' = Stored(sidecars'[x], ToSet(Effective(x)'.variants))
    BY ResumesAre
  <2>3. Effective(x)' = Effective(x)
    BY <1>1
  <2> QED BY <1>1, <2>1, <2>2, <2>3
<1>6. NotAbout(E, c) = NotAbout(D, c)
  <2>1. manifest.pending = w /\ w # None
    BY <1>1 DEF Settling
  <2>2. Effective(t) \in {w.entry, manifest.tables[t]}
    BY <2>1 DEF Effective
  <2>3. NotAbout(E, c) = NotAbout(ToSet(manifest.tables[t].variants), c)
    BY <2>1 DEF ShelfInv, PendingAdds
  <2> QED BY <2>2, <2>3
<1>7. \A x \in Saved : x = [ctx |-> x.ctx, result |-> x.result] /\ x.ctx \in Ctx /\ x.result \in Result
  BY DEF Saved
<1>8. y.ctx = c
  OBVIOUS
<1> HIDE DEF t, c, y, s, s2, E, D
<1>9. ASSUME NEW x, x.ctx # c PROVE x \in Stored(s2, E) <=> x \in Stored(s, D)
  <2>1. x \in s2 <=> x \in s
    BY <1>1, <1>2, <1>7, <1>9
  <2>2. \A v : v.ctx = x.ctx => (v \in E <=> v \in D)
    BY <1>6, <1>9 DEF NotAbout
  <2> QED BY <2>1, <2>2 DEF Stored
<1>10. NotAbout(Stored(s2, E), c) = NotAbout(Stored(s, D), c)
  BY <1>9 DEF NotAbout
<1>11. \A x \in Stored(s2, E) : x.ctx = c => x = y
  BY <1>1, <1>3, <1>8 DEF Stored
<1>12. \A a, b \in Stored(s, D) : a.ctx = b.ctx => a = b
  BY <1>3 DEF Stored
<1> QED BY <1>1, <1>4, <1>5, <1>10, <1>11, <1>12, StoreRecords

LEMMA PlaceShelves ==
    ASSUME StagesInv, DataInv, JournalInv, ShelfInv, DataInv', NEW t \in Table, Place(t)
    PROVE  ShelfInv' /\ [Store!Next]_KeptNow
<1>1. PICK w \in Write :
         /\ Settling(w) /\ w.table = t /\ w.ctx = ctx[t] /\ mem.pending = w
         /\ InMem(t) = mem.tables[t]
         /\ \A x \in Table : InMem(x)' = IF x = t THEN w.entry ELSE InMem(x)
  BY PlaceInMem
<1>2. /\ manifest = mem /\ manifest' = manifest /\ phase' = phase /\ phase \in {"batch", "finalize"}
      /\ at[t] = "journaled" /\ manifest.pending = w
  BY <1>1, PlaceSettles DEF Settling
<1>3. /\ w.ctx \in Ctx /\ w.result \in Result /\ w.entry \in Entry /\ w # None
      /\ KeyedSidecars'
      /\ [ctx |-> w.ctx, result |-> w.result] \in sidecars'[t]
      /\ \A x \in Table \ {t} : sidecars'[x] = sidecars[x] /\ Effective(x) = manifest.tables[x]
      /\ \A d \in Ctx \ {w.ctx}, q \in Result :
            [ctx |-> d, result |-> q] \in sidecars[t] <=> [ctx |-> d, result |-> q] \in sidecars'[t]
      /\ Recording(w.ctx, w.result) \in ToSet(w.entry.variants)
  BY <1>1, SettlingIs DEF DataInv
<1>4. \A x \in Table : Effective(x)' = IF x = t THEN w.entry ELSE manifest.tables[x]
  <2>1. \A x \in Table : Effective(x)' =
          IF /\ manifest'.pending # None
             /\ manifest'.pending.table = x
             /\ [ctx |-> manifest'.pending.ctx, result |-> manifest'.pending.result] \in sidecars'[x]
          THEN manifest'.pending.entry ELSE manifest'.tables[x]
    BY DEF Effective
  <2> QED BY <1>1, <1>2, <1>3, <2>1
<1>5. \A x \in Table \ {t} : InMem(x) = manifest.tables[x]
  BY <1>2 DEF InMem, StagesInv, Alone
<1>6. [Store!Next]_KeptNow
  <2>1. \A x \in Table : Effective(x)' = IF x = t THEN w.entry ELSE Effective(x)
    BY <1>3, <1>4
  <2> QED BY <1>1, <2>1, SettlingStores DEF DataInv
<1>7. PendingAdds'
  BY <1>2 DEF ShelfInv, PendingAdds
<1>8. Mirrored'
  BY <1>1, <1>4, <1>5 DEF Mirrored
<1>9. Shelved'
  <2>1. ASSUME NEW x \in Table, NEW s \in sidecars'[x]
        PROVE  Recording(s.ctx, s.result) \in ToSet(InMem(x)'.variants)
    <3>1. CASE x # t
      BY <1>1, <1>2, <1>3, <2>1, <3>1 DEF ShelfInv, Shelved, Loaded
    <3>2. CASE x = t /\ s.ctx # w.ctx
      <4>1. s \in Saved /\ s = [ctx |-> s.ctx, result |-> s.result] /\ s.ctx \in Ctx /\ s.result \in Result
        BY <2>1 DEF DataInv, OnDisk, Saved
      <4>2. s \in sidecars[t]
        BY <1>3, <2>1, <3>2, <4>1
      <4>3. Recording(s.ctx, s.result) \in ToSet(manifest.tables[t].variants)
        BY <1>1, <1>2, <4>2 DEF ShelfInv, Shelved, Loaded
      <4>4. Recording(s.ctx, s.result).ctx = s.ctx
        BY DEF Recording
      <4>5. NotAbout(ToSet(w.entry.variants), w.ctx) = NotAbout(ToSet(manifest.tables[t].variants), w.ctx)
        BY <1>1, <1>2, <1>3 DEF ShelfInv, PendingAdds
      <4> QED BY <1>1, <3>2, <4>3, <4>4, <4>5 DEF NotAbout
    <3>3. CASE x = t /\ s.ctx = w.ctx
      <4> DEFINE y == [ctx |-> w.ctx, result |-> w.result]
      <4>1. s = y
        BY <1>3, <2>1, <3>3 DEF KeyedSidecars
      <4>2. s.result = w.result
        BY <4>1
      <4> QED BY <1>1, <1>3, <3>3, <4>2
    <3> QED BY <3>1, <3>2, <3>3
  <2> QED BY <2>1 DEF Shelved
<1> QED BY <1>6, <1>7, <1>8, <1>9 DEF ShelfInv

\* To journal a result is not to record it: the sidecar is still the old one, and if
\* that has the very result, the entry had it too.
LEMMA JournalShelves ==
    ASSUME StagesInv, DataInv, JournalInv, ShelfInv, RoomForVariants, DataInv', NEW t \in Table, Journal(t)
    PROVE  ShelfInv' /\ UNCHANGED KeptNow
<1> DEFINE w == Pending(t)
           r == w.result
           e == mem.tables[t]
           c == ctx[t]
<1>1. /\ Loaded /\ w \in Write /\ w # None /\ w.table = t /\ w.ctx = c
      /\ w.entry = Recorded(e, c, r) /\ c \in Ctx /\ r \in Result /\ e \in Entry
      /\ Writing = {} /\ at[t] = "told"
  BY JournaledIs DEF Journal
<1>2. mem \in Manifest
  BY DEF DataInv, InMemory
<1> HIDE DEF w
<1>3. manifest'.pending = w /\ manifest'.tables = mem.tables
  <2>1. mem' = [mem EXCEPT !.pending = w] /\ manifest' = mem'
    BY DEF Journal, w
  <2> QED BY <1>2, <2>1 DEF Manifest
<1>4. sidecars' = sidecars /\ \A x \in Table : InMem(x)' = InMem(x) /\ InMem(x) = mem.tables[x]
  BY <1>1, JournalSteps DEF InMem, Writing
<1> HIDE DEF r, c, e
<1>5. /\ Recording(c, r) \in ToSet(w.entry.variants)
      /\ w.entry \in Entry
      /\ ToSet(w.entry.variants) \subseteq NotAbout(ToSet(e.variants), c) \cup {Recording(c, r)}
      /\ NotAbout(ToSet(e.variants), c) \subseteq ToSet(w.entry.variants)
  <2>1. Has(e.variants, c) \/ Len(e.variants) < MaxVariants
    BY <1>1 DEF RoomForVariants, e, c
  <2> QED BY <1>1, <2>1, RecordedVariants, RecordedIs DEF NotAbout
<1>6. Recording(c, r).ctx = c
  BY DEF Recording
<1>7. NotAbout(ToSet(w.entry.variants), c) = NotAbout(ToSet(e.variants), c)
  BY <1>5, <1>6 DEF NotAbout
<1>8. PendingAdds'
  BY <1>1, <1>3, <1>7 DEF PendingAdds, e
<1>9. Shelved'
  BY <1>1, <1>4 DEF ShelfInv, Shelved
<1>10. [ctx |-> c, result |-> r] \in sidecars[t] => ToSet(w.entry.variants) = ToSet(e.variants)
  <2> SUFFICES ASSUME [ctx |-> c, result |-> r] \in sidecars[t] PROVE ToSet(w.entry.variants) = ToSet(e.variants)
    OBVIOUS
  <2>1. Recording(c, r) \in ToSet(e.variants)
    <3> DEFINE y == [ctx |-> c, result |-> r]
    <3>1. Recording(y.ctx, y.result) \in ToSet(InMem(t).variants)
      BY <1>1 DEF ShelfInv, Shelved
    <3> QED BY <1>4, <3>1 DEF e
  <2>2. \A v \in ToSet(e.variants) : v.ctx = c => v = Recording(c, r)
    BY <1>1, <2>1, OneRecording
  <2>3. ASSUME NEW v PROVE v \in ToSet(w.entry.variants) <=> v \in ToSet(e.variants)
    <3>1. CASE v = Recording(c, r)
      BY <1>5, <2>1, <3>1
    <3>2. CASE v # Recording(c, r)
      <4>1. v \in ToSet(w.entry.variants) => v \in NotAbout(ToSet(e.variants), c)
        BY <1>5, <3>2
      <4>2. v \in ToSet(e.variants) => v \in NotAbout(ToSet(e.variants), c)
        BY <2>2, <3>2 DEF NotAbout
      <4>3. v \in NotAbout(ToSet(e.variants), c) => v \in ToSet(e.variants) /\ v \in ToSet(w.entry.variants)
        BY <1>5 DEF NotAbout
      <4> QED BY <4>1, <4>2, <4>3
    <3> QED BY <3>1, <3>2
  <2> QED BY <2>3
<1>11. \A x \in Table : Effective(x)' =
         IF x = t /\ [ctx |-> c, result |-> r] \in sidecars[t] THEN w.entry ELSE mem.tables[x]
  <2>1. \A x \in Table : Effective(x)' =
          IF /\ manifest'.pending # None
             /\ manifest'.pending.table = x
             /\ [ctx |-> manifest'.pending.ctx, result |-> manifest'.pending.result] \in sidecars'[x]
          THEN manifest'.pending.entry ELSE manifest'.tables[x]
    BY DEF Effective
  <2> QED BY <1>1, <1>3, <1>4, <2>1 DEF r
<1>12. \A x \in Table : ToSet(Effective(x)'.variants) = ToSet(InMem(x).variants)
  BY <1>4, <1>10, <1>11 DEF e
<1>13. Mirrored'
  BY <1>4, <1>12 DEF Mirrored
<1>14. ASSUME NEW x \in Table PROVE Resumes(x)' = Resumes(x)
  <2>1. Resumes(x) = Stored(sidecars[x], ToSet(Effective(x).variants))
    BY ResumesAre DEF DataInv
  <2>2. Resumes(x)' = Stored(sidecars'[x], ToSet(Effective(x)'.variants))
    BY ResumesAre DEF DataInv
  <2> QED BY <1>1, <1>4, <1>12, <2>1, <2>2 DEF ShelfInv, Mirrored
<1> QED BY <1>8, <1>9, <1>13, <1>14, StoreStays DEF ShelfInv

LEMMA CommitShelves ==
    ASSUME StagesInv, DataInv, JournalInv, ShelfInv, DataInv', NEW t \in Table, Commit(t) \/ WriteFails(t)
    PROVE  ShelfInv' /\ UNCHANGED KeptNow
<1>1. sidecars' = sidecars /\ Loaded /\ \A x \in Table : InMem(x)' = InMem(x)
  BY JournalSteps
<1>2. CASE Commit(t)
  <2>1. /\ at[t] = "placed" /\ manifest' = mem' /\ mem'.pending = None
        /\ mem'.tables[t] = mem.pending.entry /\ \A x \in Table \ {t} : mem'.tables[x] = mem.tables[x]
    BY <1>2 DEF Commit, DataInv, InMemory, Manifest
  <2>2. \A x \in Table : manifest'.tables[x] = InMem(x)
    BY <2>1 DEF InMem, StagesInv, Alone
  <2> QED BY <1>1, <2>1, <2>2, ShelfWritten DEF DataInv
<1>3. CASE WriteFails(t)
  BY <1>1, <1>3, ShelfStays DEF WriteFails, disk
<1> QED BY <1>2, <1>3

LEMMA RecoverShelves ==
    ASSUME StagesInv, DataInv, JournalInv, ShelfInv, DataInv', Recover
    PROVE  ShelfInv' /\ [Store!Next]_KeptNow
<1>1. ~Loaded /\ ~Loaded'
  BY DEF Recover, Loaded
<1>2. CASE manifest.pending = None
  BY <1>1, <1>2, ShelfStays DEF Recover
<1>3. CASE manifest.pending # None
  <2>1. PICK w \in Write :
           /\ Settling(w)
           /\ manifest'.pending = None
           /\ manifest'.tables[w.table] = w.entry
           /\ \A x \in Table \ {w.table} : manifest'.tables[x] = manifest.tables[x]
    BY <1>3, RecoverSettles
  <2>2. \A x \in Table \ {w.table} : Effective(x) = manifest.tables[x]
    BY <2>1, SettlingIs DEF DataInv
  <2>3. \A x \in Table : Effective(x)' = manifest'.tables[x]
    BY <2>1 DEF Effective
  <2>4. [Store!Next]_KeptNow
    BY <2>1, <2>2, <2>3, SettlingStores DEF DataInv
  <2> QED BY <1>1, <2>1, <2>4 DEF ShelfInv, PendingAdds, Shelved, Mirrored
<1> QED BY <1>2, <1>3

\* Pruning removes what could not be resumed; with --no-cache, everything.
LEMMA PruneShelves ==
    ASSUME StagesInv, DataInv, JournalInv, MatchInv, ShelfInv, DataInv', Prune
    PROVE  ShelfInv' /\ [Store!Next]_KeptNow
<1>1. /\ manifest' = manifest /\ manifest.pending = None /\ manifest \in Manifest
      /\ sidecars \in [Table -> SUBSET Saved] /\ phase = "prune" /\ at' = at
  BY DEF Prune, JournalInv, Quiet, DataInv, OnDisk, pipeline
<1>2. \A x \in Table : Effective(x) = manifest.tables[x] /\ Effective(x)' = manifest.tables[x]
  BY <1>1 DEF Effective
<1>3. \A x \in Table : InMem(x)' = mem'.tables[x]
  BY <1>1, AtWork DEF InMem
<1>4. PendingAdds'
  BY <1>1 DEF PendingAdds
<1>5. ASSUME NEW x \in Table
      PROVE  /\ Resumes(x) = Stored(sidecars[x], ToSet(manifest.tables[x].variants))
             /\ Resumes(x)' = Stored(sidecars'[x], ToSet(manifest.tables[x].variants))
  <2>1. Resumes(x) = Stored(sidecars[x], ToSet(Effective(x).variants))
    BY ResumesAre DEF DataInv
  <2>2. Resumes(x)' = Stored(sidecars'[x], ToSet(Effective(x)'.variants))
    BY ResumesAre DEF DataInv
  <2> QED BY <1>2, <2>1, <2>2
<1>6. CASE fresh
  <2>1. \A x \in Table : sidecars'[x] = {s \in sidecars[x] : Has(NoEntry.variants, s.ctx)}
    BY <1>6 DEF Prune, NoManifest
  <2>2. \A c : ~Has(NoEntry.variants, c)
    BY DEF Has, NoEntry
  <2>3. \A x \in Table : sidecars'[x] = {}
    BY <2>1, <2>2
  <2>4. Shelved' /\ Mirrored'
    BY <2>3 DEF Shelved, Mirrored, Stored
  <2>5. \A x \in Table : Resumes(x)' = {}
    BY <1>5, <2>3 DEF Stored
  <2>6. Store!Forget
    BY <2>5 DEF Store!Forget, KeptNow
  <2> QED BY <1>4, <2>4, <2>6 DEF ShelfInv, Store!Next
<1>7. CASE ~fresh
  <2>1. \A x \in Table :
           /\ mem'.tables[x] = Prepared(x, manifest.tables[x])
           /\ sidecars'[x] = {s \in sidecars[x] : Has(mem'.tables[x].variants, s.ctx)}
    BY <1>7 DEF Prune
  <2>2. ASSUME NEW x \in Table
        PROVE  /\ manifest.tables[x] \in Entry
               /\ Listed(ToSet(manifest.tables[x].variants))
               /\ ToSet(mem'.tables[x].variants) = {v \in ToSet(manifest.tables[x].variants) : Valid(x, v)}
    <3>1. manifest.tables[x] \in Entry
      BY <1>1 DEF Manifest
    <3> QED BY <2>1, <3>1, PreparedIs DEF MatchInv, GoodManifests, GoodManifest
  <2>3. ASSUME NEW x \in Table, NEW s \in sidecars[x], NEW v \in ToSet(manifest.tables[x].variants),
               v.ctx = s.ctx, v.result = s.result, v.eligible, v.result.kind \notin {"blocked", "failed"}
        PROVE  v \in ToSet(mem'.tables[x].variants) /\ s \in sidecars'[x]
    <3>1. s = [ctx |-> s.ctx, result |-> s.result]
      BY <1>1 DEF Saved
    <3>2. v \in ToSet(mem'.tables[x].variants)
      BY <2>2, <2>3, <3>1 DEF Valid
    <3>3. Has(mem'.tables[x].variants, s.ctx)
      BY <2>3, <3>2, HasIs
    <3> QED BY <2>1, <3>2, <3>3
  <2>4. \A x \in Table : sidecars'[x] \subseteq sidecars[x]
                         /\ ToSet(mem'.tables[x].variants) \subseteq ToSet(manifest.tables[x].variants)
    BY <2>1, <2>2
  <2>5. ASSUME NEW x \in Table
        PROVE  /\ Stored(sidecars'[x], ToSet(manifest.tables[x].variants))
                     = Stored(sidecars[x], ToSet(manifest.tables[x].variants))
               /\ Stored(sidecars'[x], ToSet(manifest.tables[x].variants))
                     = Stored(sidecars'[x], ToSet(mem'.tables[x].variants))
    BY <2>3, <2>4 DEF Stored
  <2>6. Mirrored'
    BY <1>2, <1>3, <2>5 DEF Mirrored
  <2>7. UNCHANGED KeptNow
    <3>1. \A x \in Table : Resumes(x)' = Resumes(x)
      BY <1>5, <2>5
    <3> QED BY <3>1, StoreStays
  <2>8. Shelved'
    <3>1. ASSUME NEW x \in Table, NEW s \in sidecars'[x]
          PROVE  Recording(s.ctx, s.result) \in ToSet(mem'.tables[x].variants)
      <4>1. s \in sidecars[x] /\ Has(mem'.tables[x].variants, s.ctx)
        BY <2>1
      <4>2. PICK v \in ToSet(mem'.tables[x].variants) : v.ctx = s.ctx
        BY <4>1, HasIs
      <4>3. v \in ToSet(manifest.tables[x].variants) /\ Valid(x, v)
        BY <2>2
      <4> DEFINE y == [ctx |-> v.ctx, result |-> v.result]
      <4>4. y = s
        BY <4>1, <4>2, <4>3 DEF Valid, JournalInv, KeyedSidecars
      <4>5. v.result = s.result
        BY <4>4
      <4>6. v.eligible = TRUE /\ v.result.kind # "transient" /\ v \in Variant
        BY <2>2, <4>3, VariantsAre DEF Valid, Listed
      <4>7. v = [ctx |-> s.ctx, result |-> s.result, eligible |-> TRUE]
        BY <4>2, <4>5, <4>6 DEF Variant
      <4>8. v = Recording(s.ctx, s.result)
        BY <4>5, <4>6, <4>7 DEF Recording
      <4> QED BY <4>8
    <3> QED BY <1>3, <3>1 DEF Shelved
  <2> QED BY <1>4, <2>6, <2>7, <2>8 DEF ShelfInv
<1> QED BY <1>6, <1>7

\* What publication refused may not be resumed any more: of each table, one result.
LEMMA FinishShelves ==
    ASSUME StagesInv, DataInv, JournalInv, ShelfInv, DataInv', Finish
    PROVE  ShelfInv' /\ [Store!Next]_KeptNow
<1>1. /\ sidecars' = sidecars /\ Loaded /\ Writing = {} /\ ~broken
  BY AtWork DEF Finish, Loaded, Writing, JournalInv, Quiet
<1>2. /\ manifest'.pending = None
      /\ \A x \in Table : manifest'.tables[x] = IF x \in bad THEN RejectedEntry(mem.tables[x])
                                                ELSE mem.tables[x]
  BY <1>1 DEF Finish, JournalInv, Quiet
<1>3. \A x \in Table : InMem(x) = mem.tables[x] /\ mem.tables[x] \in Entry
  BY <1>1 DEF InMem, Writing, DataInv, InMemory, Manifest
<1>4. ShelfInv'
  BY <1>2 DEF Finish, Gone, ShelfInv, PendingAdds, Shelved, Mirrored, Loaded
<1>5. ASSUME NEW x \in Table
      PROVE  /\ Resumes(x) = Stored(sidecars[x], ToSet(mem.tables[x].variants))
             /\ Resumes(x)' = Stored(sidecars[x], ToSet(manifest'.tables[x].variants))
  <2>1. Resumes(x) = Stored(sidecars[x], ToSet(Effective(x).variants))
    BY ResumesAre DEF DataInv
  <2>2. Resumes(x)' = Stored(sidecars'[x], ToSet(Effective(x)'.variants))
    BY ResumesAre DEF DataInv
  <2>3. Effective(x)' = manifest'.tables[x]
    BY <1>2 DEF Effective
  <2> QED BY <1>1, <1>3, <2>1, <2>2, <2>3 DEF ShelfInv, Mirrored
<1>6. ASSUME NEW x \in Table
      PROVE  Resumes(x)' \subseteq Resumes(x) /\ Store!Cardinality(Resumes(x) \ Resumes(x)') <= 1
  <2> DEFINE e == mem.tables[x]
             D == ToSet(e.variants)
             E == ToSet(manifest'.tables[x].variants)
             k == Stored(sidecars[x], D)
             k2 == Stored(sidecars[x], E)
  <2>1. CASE x \notin bad
    <3>1. k2 = k
      BY <1>2, <2>1
    <3>2. k \ k2 = {}
      BY <3>1
    <3> HIDE DEF k, k2
    <3>3. Store!Cardinality(k \ k2) <= 1
      BY <3>2, FS_EmptySet, StoreCounts
    <3> QED BY <1>5, <3>1, <3>3 DEF k, k2, D, E, e
  <2>2. CASE x \in bad
    <3>1. /\ \A v \in E : \E w \in D :
                /\ v.ctx = w.ctx /\ v.result = w.result
                /\ IF w.ctx = RejectedContext(e) THEN ~v.eligible ELSE v = w
          /\ \A w \in D : w.ctx # RejectedContext(e) => w \in E
      BY <1>2, <1>3, <2>2, RejectedIs
    <3>2. \A a, b \in sidecars[x] : a.ctx = b.ctx => a = b
      BY DEF JournalInv, KeyedSidecars
    <3> HIDE DEF D, E, e
    <3>3. k2 \subseteq k
      <4> SUFFICES ASSUME NEW a \in k2 PROVE a \in k
        OBVIOUS
      <4>1. PICK v \in E : v.ctx = a.ctx /\ v.result = a.result /\ v.eligible
                           /\ v.result.kind \notin {"blocked", "failed"}
        BY DEF Stored
      <4>2. v \in D
        BY <3>1, <4>1
      <4> QED BY <4>1, <4>2 DEF Stored
    <3>4. \A a \in k \ k2 : a.ctx = RejectedContext(e) /\ a \in sidecars[x]
      <4> SUFFICES ASSUME NEW a \in k, a.ctx # RejectedContext(e) PROVE a \in k2
        BY DEF Stored
      <4>1. PICK v \in D : v.ctx = a.ctx /\ v.result = a.result /\ v.eligible
                           /\ v.result.kind \notin {"blocked", "failed"}
        BY DEF Stored
      <4>2. v \in E
        BY <3>1, <4>1
      <4> QED BY <4>1, <4>2 DEF Stored
    <3> HIDE DEF k, k2
    <3>5. \A a, b \in k \ k2 : a = b
      BY <3>2, <3>4
    <3>6. Cardinality(k \ k2) <= 1
      <4>1. CASE k \ k2 = {}
        BY <4>1, FS_EmptySet
      <4>2. CASE k \ k2 # {}
        <5>1. PICK a : k \ k2 = {a}
          BY <3>5, <4>2
        <5>2. Cardinality({a}) = 1
          BY FS_Singleton
        <5> QED BY <5>1, <5>2
      <4> QED BY <4>1, <4>2
    <3>7. Store!Cardinality(k \ k2) <= 1
      BY <3>6, StoreCounts
    <3> QED BY <1>5, <3>3, <3>7 DEF k, k2, D, E, e
  <2> QED BY <2>1, <2>2
<1>7. Store!Reject
  BY <1>6 DEF Store!Reject, KeptNow
<1> QED BY <1>4, <1>7 DEF Store!Next

LEMMA ShelfNext ==
    ASSUME StagesInv, DataInv, JournalInv, MatchInv, ShelfInv, RoomForVariants, DataInv', [Next]_vars
    PROVE  ShelfInv' /\ [Store!Next]_KeptNow
<1>1. CASE Recover \/ Prune \/ Finish
  BY <1>1, RecoverShelves, PruneShelves, FinishShelves
<1>2. ASSUME NEW t \in Table, Journaling(t) PROVE ShelfInv' /\ [Store!Next]_KeptNow
  BY <1>2, JournalShelves, PlaceShelves, CommitShelves DEF Journaling
<1>3. CASE Announce \/ Report
  <2>1. Loaded /\ Writing = {} /\ ~broken /\ UNCHANGED sidecars /\ manifest' = mem
    <3>1. CASE Announce
      BY <3>1, AtWork DEF Announce, Loaded, Writing, JournalInv, Quiet
    <3>2. CASE Report
      BY <3>2 DEF Report, Loaded, Writing
    <3> QED BY <1>3, <3>1, <3>2
  <2>2. mem.pending = None /\ \A x \in Table : InMem(x) = mem.tables[x]
    BY <2>1 DEF JournalInv, Quiet, InMem, Writing
  <2>3. \A x \in Table : InMem(x)' = InMem(x)
    BY <1>3, InMemStays
  <2> QED BY <2>1, <2>2, <2>3, ShelfWritten DEF DataInv
<1>4. CASE EndBatch \/ Validate \/ PublishFails \/ Interrupt \/ OpenInspector \/ UNCHANGED vars
  <2>1. UNCHANGED <<manifest, sidecars>> /\ Loaded' = Loaded
    BY <1>4 DEF EndBatch, Validate, PublishFails, Interrupt, OpenInspector, vars, disk, Loaded,
                BatchOver, Propagate, Settle
  <2>2. \A x \in Table : InMem(x)' = InMem(x)
    BY <1>4, InMemStays
  <2> QED BY <2>1, <2>2, ShelfStays
<1>5. ASSUME NEW t \in Table, Inspecting(t) \/ Finalize(t) PROVE ShelfInv' /\ UNCHANGED KeptNow
  <2>1. UNCHANGED <<manifest, sidecars>> /\ Loaded' = Loaded
    BY <1>5 DEF Inspecting, Restore, Ask, Skip, Finalize, disk, Loaded
  <2>2. \A x \in Table : InMem(x)' = InMem(x)
    BY <1>5, InMemStays
  <2> QED BY <2>1, <2>2, ShelfStays
<1>6. ASSUME NEW f \in File, MoveAway(f) \/ MoveIn(f) \/ PutBack(f) PROVE ShelfInv' /\ UNCHANGED KeptNow
  <2>1. UNCHANGED <<manifest, sidecars>> /\ Loaded
    BY <1>6 DEF MoveAway, MoveIn, PutBack, Loaded
  <2>2. \A x \in Table : InMem(x)' = InMem(x)
    BY <1>6, InMemStays
  <2> QED BY <2>1, <2>2, ShelfStays
<1>7. CASE Leave \/ Die \/ (\E noCache \in BOOLEAN : Start(noCache)) \/ (\E t \in Table : Edit(t))
  <2>1. UNCHANGED <<manifest, sidecars>> /\ ~Loaded'
    BY <1>7 DEF Leave, Die, Start, Edit, Gone, disk, Loaded
  <2> QED BY <2>1, ShelfStays
<1> QED BY <1>1, <1>2, <1>3, <1>4, <1>5, <1>6, <1>7 DEF Next, Working, Opening

\* The journal of results keeps, per table and context, what a store would that knows
\* no crashes: killed, restarted and recovering generations change nothing in it, and
\* recording, refusing, rejecting and forgetting are steps of the store
\* (write_inspection_result, _recover_pending_write, _prepare_resume_state, finish).
THEOREM ImplementsTheStore == Spec /\ []RoomForVariants => ImplementsStore
<1> DEFINE Inv == StagesInv /\ DataInv /\ JournalInv /\ Sourced /\ MatchInv /\ ShelfInv
<1>1. Init => Inv
  <2>1. Init => ShelfInv
    <3> SUFFICES ASSUME Init PROVE ShelfInv
      OBVIOUS
    <3>1. phase = "off" /\ manifest.pending = None
      BY DEF Init, NoManifest
    <3> QED BY <3>1 DEF ShelfInv, PendingAdds, Shelved, Mirrored, Loaded
  <2> QED BY <2>1, StagesBegin, DataBegin, JournalBegins, MatchBegins
<1>2. Inv /\ RoomForVariants /\ [Next]_vars => Inv' /\ [Store!Next]_KeptNow
  <2> SUFFICES ASSUME Inv, RoomForVariants, [Next]_vars PROVE Inv' /\ [Store!Next]_KeptNow
    OBVIOUS
  <2>1. StagesInv' /\ DataInv' /\ JournalInv' /\ Sourced'
    BY JournalNext
  <2>2. MatchInv'
    BY ManifestsMatch, CachesMatch, AnswersNext DEF MatchInv
  <2>3. ShelfInv' /\ [Store!Next]_KeptNow
    BY <2>1, ShelfNext
  <2> QED BY <2>1, <2>2, <2>3
<1>3. Init => Store!Init
  <2> SUFFICES ASSUME Init PROVE Store!Init
    OBVIOUS
  <2>1. sidecars = [t \in Table |-> {}]
    BY DEF Init
  <2>2. \A t \in Table : Resumes(t) = {}
    BY <2>1 DEF Resumes, Valid
  <2> QED BY <2>2 DEF Store!Init
<1> HIDE DEF Inv
<1> QED BY <1>1, <1>2, <1>3, PTL DEF Spec, ImplementsStore, Store!Spec, KeptNow

=================================================================================
