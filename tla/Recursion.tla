----------------------------- MODULE Recursion -----------------------------
(***************************************************************************)
(* What the proofs share: induction and recursion over a set with a rank,  *)
(* stated with sets and functions, which the functions of objmap.c that    *)
(* follow one path down a tree need, and division of integers.             *)
(***************************************************************************)
EXTENDS Integers, NaturalsInduction, WellFoundedInduction, TLAPS

LEMMA NatMin ==
  ASSUME NEW T \in SUBSET Nat, T # {}
  PROVE  \E n \in T : \A k \in T : n <= k
<1>1. IsWellFoundedOn(OpToRel(<, Nat), Nat)
  BY NatLessThanWellFounded
<1>2. PICK n \in T : \A k \in T : <<k, n>> \notin OpToRel(<, Nat)
  BY <1>1, WFMin
<1>3. \A k \in Nat : k < n => <<k, n>> \in OpToRel(<, Nat)
  BY DEF OpToRel
<1>4. ASSUME NEW k \in T PROVE n <= k
  <2>1. k \in Nat /\ n \in Nat /\ ~(k < n)
    BY <1>2, <1>3
  <2>. QED  BY <2>1
<1>. QED  BY <1>4

\* What holds of t whenever it holds of all below it, holds of all of S.
LEMMA RankInduction ==
  ASSUME NEW S, NEW rank \in [S -> Nat], NEW P,
         \A t \in S : (\A u \in S : rank[u] < rank[t] => u \in P) => t \in P
  PROVE  S \subseteq P
<1>. SUFFICES ASSUME S \ P # {} PROVE FALSE
  OBVIOUS
<1>. DEFINE R == {rank[t] : t \in S \ P}
<1>1. R \in SUBSET Nat /\ R # {}
  OBVIOUS
<1>2. PICK n \in R : \A k \in R : n <= k
  BY <1>1, NatMin
<1>3. PICK t \in S \ P : n = rank[t]
  OBVIOUS
<1>4. ASSUME NEW u \in S, rank[u] < rank[t] PROVE u \in P
  <2>1. u \notin P => rank[t] <= rank[u]
    BY <1>2, <1>3
  <2>. QED  BY <1>4, <2>1
<1>. QED  BY <1>3, <1>4

\* f is given by b on B, and elsewhere by h from its value at the next point.
Given(f, D, B, b, h, nxt) ==
  \A t \in D : f[t] = IF t \in B THEN b[t] ELSE h[<<t, f[nxt[t]]>>]

\* A function that is given so at each point exists.
LEMMA Recursion ==
  ASSUME NEW S, NEW V, NEW rank \in [S -> Nat], NEW B,
         NEW b \in [S -> V], NEW h \in [S \X V -> V], NEW nxt \in [S -> S],
         \A t \in S \ B : rank[nxt[t]] < rank[t]
  PROVE  \E f \in [S -> V] : Given(f, S, B, b, h, nxt)
<1>. DEFINE Under(n) == {t \in S : rank[t] < n}
            Has == {n \in Nat : \E f \in [S -> V] :
                                  Given(f, Under(n), B, b, h, nxt)}
<1>1. ASSUME NEW n \in Nat, NEW m \in Nat, NEW f, NEW g,
             Given(f, Under(n), B, b, h, nxt),
             Given(g, Under(m), B, b, h, nxt)
      PROVE  \A t \in Under(n) \cap Under(m) : f[t] = g[t]
  <2>. DEFINE P == {t \in S : t \in Under(n) \cap Under(m) => f[t] = g[t]}
  <2>1. ASSUME NEW t \in S, \A u \in S : rank[u] < rank[t] => u \in P,
               t \in Under(n) \cap Under(m)
        PROVE  f[t] = g[t]
    <3>1. CASE t \in B
      BY <1>1, <2>1, <3>1 DEF Given
    <3>2. CASE t \notin B
      <4>. DEFINE u == nxt[t]
      <4>1. u \in S /\ rank[u] < rank[t] /\ rank[u] \in Nat /\ rank[t] \in Nat
        BY <3>2
      <4>2. u \in Under(n) \cap Under(m)
        BY <2>1, <4>1
      <4>3. f[u] = g[u]
        BY <2>1, <4>1, <4>2
      <4>4. f[t] = h[<<t, f[u]>>] /\ g[t] = h[<<t, g[u]>>]
        BY <1>1, <2>1, <3>2 DEF Given
      <4>. QED  BY <4>3, <4>4
    <3>. QED  BY <3>1, <3>2
  <2>2. \A t \in S : (\A u \in S : rank[u] < rank[t] => u \in P) => t \in P
    BY <2>1
  <2>. HIDE DEF P
  <2>3. S \subseteq P
    BY <2>2, RankInduction
  <2>. QED  BY <2>3 DEF P
<1>2. ASSUME NEW n \in Nat, n \in Has PROVE n + 1 \in Has
  <2>1. PICK f \in [S -> V] : Given(f, Under(n), B, b, h, nxt)
    BY <1>2
  <2>. DEFINE g == [t \in S |-> IF t \in Under(n) THEN f[t]
                                ELSE IF t \in B THEN b[t]
                                ELSE h[<<t, f[nxt[t]]>>]]
  <2>2. g \in [S -> V]
    OBVIOUS
  <2>3. ASSUME NEW t \in Under(n + 1)
        PROVE  g[t] = IF t \in B THEN b[t] ELSE h[<<t, g[nxt[t]]>>]
    <3>1. CASE t \in B
      BY <2>1, <3>1 DEF Given
    <3>2. CASE t \notin B
      <4>1. nxt[t] \in S /\ rank[nxt[t]] < n
        <5>1. rank[nxt[t]] < rank[t] /\ rank[t] < n + 1
              /\ rank[t] \in Nat /\ rank[nxt[t]] \in Nat
          BY <3>2
        <5>. QED  BY <5>1
      <4>2. g[nxt[t]] = f[nxt[t]]
        BY <4>1
      <4>3. g[t] = h[<<t, f[nxt[t]]>>]
        BY <2>1, <3>2 DEF Given
      <4>. QED  BY <3>2, <4>2, <4>3
    <3>. QED  BY <3>1, <3>2
  <2>. HIDE DEF g
  <2>4. Given(g, Under(n + 1), B, b, h, nxt)
    BY <2>3 DEF Given
  <2>5. n + 1 \in Nat
    OBVIOUS
  <2>. HIDE DEF Under
  <2>. QED  BY <2>2, <2>4, <2>5
<1>3. 0 \in Has
  <2>1. Under(0) = {}
    OBVIOUS
  <2>2. Given(b, Under(0), B, b, h, nxt)
    BY <2>1 DEF Given
  <2>. QED  BY <2>2
<1>4. Nat \subseteq Has
  <2>. DEFINE id == [n \in Nat |-> n]
  <2>1. ASSUME NEW n \in Nat, \A k \in Nat : id[k] < id[n] => k \in Has
        PROVE  n \in Has
    <3>. HIDE DEF Has
    <3>1. CASE n = 0
      BY <1>3, <3>1
    <3>2. CASE n # 0
      <4>1. n - 1 \in Nat /\ (n - 1) + 1 = n /\ n - 1 < n
        BY <3>2
      <4>2. n - 1 \in Has
        BY <2>1, <4>1
      <4>3. (n - 1) + 1 \in Has
        BY <1>2, <4>1, <4>2
      <4>. QED  BY <4>1, <4>3
    <3>. QED  BY <3>1, <3>2
  <2>2. id \in [Nat -> Nat]
    OBVIOUS
  <2>. HIDE DEF Has, id
  <2>. QED  BY <2>1, <2>2, RankInduction
<1>. DEFINE At(n) == CHOOSE f \in [S -> V] : Given(f, Under(n), B, b, h, nxt)
            F == [t \in S |-> At(rank[t] + 1)[t]]
<1>5. ASSUME NEW n \in Nat
      PROVE  At(n) \in [S -> V] /\ Given(At(n), Under(n), B, b, h, nxt)
  BY <1>4
<1>. HIDE DEF Has, At
<1>6. F \in [S -> V]
  <2>1. ASSUME NEW t \in S PROVE At(rank[t] + 1)[t] \in V
    <3>1. rank[t] + 1 \in Nat
      OBVIOUS
    <3>. QED  BY <1>5, <3>1
  <2>. QED  BY <2>1
<1>7. ASSUME NEW t \in S
      PROVE  F[t] = IF t \in B THEN b[t] ELSE h[<<t, F[nxt[t]]>>]
  <2>. DEFINE n == rank[t] + 1
  <2>1. n \in Nat /\ t \in Under(n)
    OBVIOUS
  <2>2. F[t] = At(n)[t]
    OBVIOUS
  <2>3. Given(At(n), Under(n), B, b, h, nxt)
    BY <1>5, <2>1
  <2>4. At(n)[t] = IF t \in B THEN b[t] ELSE h[<<t, At(n)[nxt[t]]>>]
    BY <2>1, <2>3 DEF Given
  <2>5. CASE t \in B
    BY <2>2, <2>4, <2>5
  <2>6. CASE t \notin B
    <3>. DEFINE u == nxt[t]
                k == rank[u] + 1
    <3>1. u \in S /\ k \in Nat /\ rank[u] < rank[t]
          /\ rank[u] \in Nat /\ rank[t] \in Nat
      BY <2>6
    <3>2. u \in Under(n) \cap Under(k)
      BY <3>1
    <3>3. Given(At(k), Under(k), B, b, h, nxt)
      BY <1>5, <3>1
    <3>4. At(n)[u] = At(k)[u]
      BY <1>1, <2>1, <2>3, <3>1, <3>2, <3>3
    <3>5. F[u] = At(k)[u]
      BY <3>1
    <3>. QED  BY <2>2, <2>4, <2>6, <3>4, <3>5
  <2>. QED  BY <2>5, <2>6
<1>. HIDE DEF F
<1>8. Given(F, S, B, b, h, nxt)
  BY <1>7 DEF Given
<1>. QED  BY <1>6, <1>8

-----------------------------------------------------------------------------
(* Division. *)

\* a = k q + r with r in 0..k - 1, in one way.
LEMMA Div ==
  ASSUME NEW k \in Nat \ {0}, NEW a \in Int
  PROVE  /\ a % k \in 0..(k - 1) /\ a \div k \in Int
         /\ a = k * (a \div k) + (a % k)
  OBVIOUS

LEMMA DivOnce ==
  ASSUME NEW k \in Nat \ {0}, NEW q \in Int, NEW r \in 0..(k - 1),
         NEW a, a = k * q + r
  PROVE  a % k = r /\ a \div k = q
<1>. DEFINE e == a \div k
            s == a % k
<1>1. a \in Int
  OBVIOUS
<1>2. s \in 0..(k - 1) /\ e \in Int /\ a = k * e + s
  BY <1>1, Div
<1>. HIDE DEF e, s
<1>3. k * (q - e) = s - r
  <2>1. k * (q - e) = k * q - k * e
    BY <1>2
  <2>. QED  BY <1>2, <2>1
<1>4. ~(q - e >= 1)
  <2>1. q - e >= 1 => k * (q - e) >= k
    BY <1>2
  <2>. QED  BY <1>2, <1>3, <2>1
<1>5. ~(q - e <= -1)
  <2>1. q - e <= -1 => k * (q - e) <= -k
    BY <1>2
  <2>. QED  BY <1>2, <1>3, <2>1
<1>6. q = e
  BY <1>2, <1>4, <1>5
<1>7. s = r
  BY <1>2, <1>3, <1>6
<1>. QED  BY <1>6, <1>7 DEF e, s

LEMMA AlignedSum ==
  ASSUME NEW k \in Nat \ {0}, NEW a \in Int, NEW b \in Int,
         a % k = 0, b % k = 0
  PROVE  (a + b) % k = 0
<1>1. a = k * (a \div k) /\ b = k * (b \div k)
      /\ a \div k \in Int /\ b \div k \in Int
  BY Div
<1>2. PICK q \in Int, e \in Int : a = k * q /\ b = k * e
  BY <1>1
<1>3. a + b = k * (q + e) + 0
  BY <1>2
<1>. QED  BY <1>2, <1>3, DivOnce
=============================================================================
