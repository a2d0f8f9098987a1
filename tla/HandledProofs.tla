--------------------------- MODULE HandledProofs ---------------------------
(***************************************************************************)
(* What limba_module_handled answers, for every module and every front     *)
(* end: the rounds of compute() reach the least set that the roots and the *)
(* calls allow, the summary of a body that was freed says what the body    *)
(* did, and each call of module.c that does not say that the IR has        *)
(* changed leaves the set as it was (HandledRight).                        *)
(***************************************************************************)
EXTENDS TablesProofs

-----------------------------------------------------------------------------
(* What the rounds of compute() reach                                      *)

\* What is grown from the roots a round at a time.
Rounds(set, n, roots, calls) ==
    /\ set \in [0 .. n -> SUBSET (1 .. n)]
    /\ \A k \in 0 .. n : set[k] = IF k = 0 THEN roots ELSE Grown(set[k - 1], calls)

LEMMA RoundsExist ==
  ASSUME NEW n \in Nat, NEW calls \in [1 .. n -> SUBSET (1 .. n)], NEW roots \in SUBSET (1 .. n)
  PROVE  \E set : Rounds(set, n, roots, calls)
<1>. DEFINE D == 0 .. n
            V == SUBSET (1 .. n)
            rank == [k \in D |-> k]
            nxt == [k \in D |-> IF k = 0 THEN 0 ELSE k - 1]
            base == [k \in D |-> roots]
            Step(y) == Grown(y[2], calls)
            step == [y \in D \X V |-> Step(y)]
<1>1. rank \in [D -> Nat] /\ base \in [D -> V] /\ nxt \in [D -> D]
  OBVIOUS
<1>2. step \in [D \X V -> V]
  <2>1. ASSUME NEW k \in D, NEW S \in V PROVE Step(<<k, S>>) \in V
    <3>1. \A f \in S : calls[f] \in SUBSET (1 .. n)
      OBVIOUS
    <3>2. Grown(S, calls) \in SUBSET (1 .. n)
      BY <3>1 DEF Grown
    <3>. QED  BY <3>2
  <2>. HIDE DEF Step
  <2>2. \A y \in D \X V : y = <<y[1], y[2]>> /\ y[1] \in D /\ y[2] \in V
    OBVIOUS
  <2>. QED  BY <2>1, <2>2
<1>3. ASSUME NEW k \in D \ {0} PROVE rank[nxt[k]] < rank[k]
  OBVIOUS
<1>4. PICK set \in [D -> V] : Given(set, D, {0}, base, step, nxt)
  <2>. HIDE DEF D, V, rank, base, step, nxt
  <2>. QED  BY <1>1, <1>2, <1>3, Recursion
<1>5. ASSUME NEW k \in D PROVE set[k] = IF k = 0 THEN roots ELSE Grown(set[k - 1], calls)
  <2>1. set[k] = IF k \in {0} THEN base[k] ELSE step[<<k, set[nxt[k]]>>]
    BY <1>4 DEF Given
  <2>2. k # 0 => nxt[k] = k - 1 /\ k - 1 \in D /\ set[k - 1] \in V
    OBVIOUS
  <2>. QED  BY <2>1, <2>2
<1>. QED  BY <1>4, <1>5 DEF Rounds

\* A set closed under the calls that has the roots has every round.
LEMMA RoundsWithin ==
  ASSUME NEW n \in Nat, NEW calls, NEW roots, NEW set, Rounds(set, n, roots, calls),
         NEW S, roots \subseteq S, \A f \in S : calls[f] \subseteq S
  PROVE  set[n] \subseteq S
<1>. DEFINE P == {k \in 0 .. n : set[k] \subseteq S}
<1>1. 0 \in P
  BY DEF Rounds
<1>2. ASSUME NEW k \in 1 .. n, k - 1 \in P PROVE k \in P
  <2>1. set[k] = Grown(set[k - 1], calls)
    BY DEF Rounds
  <2>. QED  BY <1>2, <2>1 DEF Grown
<1>. HIDE DEF P
<1>3. 0 .. n \subseteq P
  BY <1>1, <1>2, UpTo
<1>. QED  BY <1>3 DEF P

\* After n rounds nothing more is reached: a round that reaches something
\* has one function more, and there are n.
LEMMA RoundsEnd ==
  ASSUME NEW n \in Nat, NEW calls \in [1 .. n -> SUBSET (1 .. n)], NEW roots,
         NEW set, Rounds(set, n, roots, calls)
  PROVE  /\ roots \subseteq set[n] /\ set[n] \subseteq 1 .. n
         /\ \A f \in set[n] : calls[f] \subseteq set[n]
<1>. DEFINE All == 1 .. n
            Closed(S) == Grown(S, calls) = S
            Good(k) == /\ roots \subseteq set[k]
                       /\ Closed(set[k]) \/ k <= Cardinality(set[k])
            P == {k \in 0 .. n : Good(k)}
<1>1. IsFiniteSet(All) /\ Cardinality(All) = n
  BY FS_Interval
<1>2. \A S \in SUBSET All : IsFiniteSet(S) /\ Cardinality(S) \in Nat /\ Cardinality(S) <= n
  <2>1. ASSUME NEW S \in SUBSET All
        PROVE  IsFiniteSet(S) /\ Cardinality(S) \in Nat /\ Cardinality(S) <= n
    <3>. HIDE DEF All
    <3>1. IsFiniteSet(S) /\ Cardinality(S) <= Cardinality(All)
      BY <1>1, FS_Subset
    <3>. QED  BY <1>1, <3>1, FS_CardinalityType
  <2>. QED  BY <2>1
<1>3. \A k \in 0 .. n : set[k] \in SUBSET All
  BY DEF Rounds
<1>4. 0 \in P
  <2>1. set[0] = roots /\ set[0] \in SUBSET All
    BY <1>3 DEF Rounds
  <2>2. 0 <= Cardinality(set[0])
    BY <1>2, <2>1
  <2>. QED  BY <2>1, <2>2
<1>5. ASSUME NEW k \in 1 .. n, k - 1 \in P PROVE k \in P
  <2>1. PICK S, R : S = set[k - 1] /\ R = set[k]
    OBVIOUS
  <2>2. R = Grown(S, calls) /\ S \subseteq R /\ S \in SUBSET All /\ R \in SUBSET All
    BY <1>3, <2>1 DEF Rounds, Grown
  <2>3. CASE Closed(S)
    <3>1. R = S
      BY <2>2, <2>3
    <3>2. Good(k - 1) /\ set[k] = set[k - 1]
      BY <1>5, <2>1, <3>1
    <3>3. Closed(set[k])
      BY <2>1, <2>3, <3>1
    <3>4. Good(k)
      BY <3>2, <3>3
    <3>. QED  BY <3>4
  <2>4. CASE ~Closed(S)
    <3>1. R # S
      BY <2>2, <2>4
    <3>2. Cardinality(S) < Cardinality(R)
      <4>1. IsFiniteSet(R) /\ Cardinality(R) \in Nat /\ Cardinality(S) \in Nat
        BY <1>2, <2>2
      <4>2. S \in SUBSET R
        BY <2>2
      <4>3. Cardinality(S) <= Cardinality(R) /\ Cardinality(S) # Cardinality(R)
        BY <3>1, <4>1, <4>2, FS_Subset
      <4>. QED  BY <4>1, <4>3
    <3>3. k - 1 <= Cardinality(S)
      BY <1>5, <2>1, <2>4
    <3>4. k <= Cardinality(R)
      BY <1>2, <2>2, <3>2, <3>3
    <3>5. roots \subseteq R
      BY <1>5, <2>1, <2>2
    <3>. QED  BY <2>1, <3>4, <3>5
  <2>. QED  BY <2>3, <2>4
<1>6. n \in P
  <2>. HIDE DEF P
  <2>1. 0 .. n \subseteq P
    BY <1>4, <1>5, UpTo
  <2>. QED  BY <2>1
<1>7. Closed(set[n])
  <2>1. SUFFICES ASSUME n <= Cardinality(set[n]) PROVE Closed(set[n])
    BY <1>6
  <2>2. set[n] \in SUBSET All
    BY <1>3
  <2>3. Cardinality(set[n]) = Cardinality(All)
    BY <1>1, <1>2, <2>1, <2>2
  <2>4. set[n] = All
    BY <1>1, <2>2, <2>3, FS_Subset
  <2>. QED  BY <2>4 DEF Grown
<1>8. \A f \in set[n] : calls[f] \subseteq set[n]
  BY <1>7 DEF Grown
<1>. QED  BY <1>3, <1>6, <1>8

\* compute() of handled.c: for any calls, in a cycle or not, the functions reached
\* from the roots in n rounds are the least set that holds the roots and whatever
\* one of it calls.
THEOREM ClosureIsLeast ==
  ASSUME NEW n \in Nat, NEW calls \in [1 .. n -> SUBSET (1 .. n)], NEW roots \in SUBSET (1 .. n)
  PROVE  Closure(roots, calls) = Least(roots, calls)
<1>. DEFINE set[k \in 0 .. Len(calls)] == IF k = 0 THEN roots ELSE Grown(set[k - 1], calls)
            Body(s, k) == IF k = 0 THEN roots ELSE Grown(s[k - 1], calls)
            Fixed(s) == s = [k \in 0 .. Len(calls) |-> Body(s, k)]
<1>1. Closure(roots, calls) = set[Len(calls)]
  BY DEF Closure
<1>2. set = CHOOSE s : Fixed(s)
  OBVIOUS
<1>. HIDE DEF set
<1>3. Len(calls) = n /\ DOMAIN calls = 1 .. n
  OBVIOUS
<1>4. PICK s : Rounds(s, n, roots, calls)
  BY RoundsExist
<1>5. Fixed(s)
  BY <1>3, <1>4 DEF Rounds
<1>6. Fixed(set)
  <2>. HIDE DEF Fixed
  <2>. QED  BY <1>2, <1>5
<1>7. Rounds(set, n, roots, calls)
  <2>. DEFINE P == {k \in 0 .. n : set[k] = s[k]}
  <2>1. \A k \in 0 .. n : set[k] = Body(set, k)
    <3>. HIDE DEF Body
    <3>. QED  BY <1>3, <1>6
  <2>2. \A k \in 0 .. n : s[k] = Body(s, k)
    BY <1>4 DEF Rounds
  <2>3. 0 \in P
    BY <2>1, <2>2
  <2>4. ASSUME NEW k \in 1 .. n, k - 1 \in P PROVE k \in P
    BY <2>1, <2>2, <2>4
  <2>5. \A k \in 0 .. n : set[k] = s[k]
    <3>. HIDE DEF P
    <3>1. 0 .. n \subseteq P
      BY <2>3, <2>4, UpTo
    <3>. QED  BY <3>1 DEF P
  <2>6. set \in [0 .. n -> SUBSET (1 .. n)]
    <3>1. s \in [0 .. n -> SUBSET (1 .. n)]
      BY <1>4 DEF Rounds
    <3>2. DOMAIN set = 0 .. n /\ set = [k \in 0 .. n |-> set[k]]
      BY <1>3, <1>6
    <3>. QED  BY <2>5, <3>1, <3>2
  <2>. QED  BY <2>1, <2>6 DEF Rounds
<1>8. Closure(roots, calls) = set[n]
  BY <1>1, <1>3
<1>9. set[n] \subseteq Least(roots, calls)
  <2>1. ASSUME NEW S \in SUBSET DOMAIN calls, roots \subseteq S, \A f \in S : calls[f] \subseteq S
        PROVE  set[n] \subseteq S
    BY <1>7, <2>1, RoundsWithin
  <2>2. set[n] \subseteq DOMAIN calls
    BY <1>3, <1>7, RoundsEnd
  <2>. QED  BY <2>1, <2>2 DEF Least
<1>10. Least(roots, calls) \subseteq set[n]
  <2>1. /\ roots \subseteq set[n] /\ set[n] \in SUBSET DOMAIN calls
        /\ \A f \in set[n] : calls[f] \subseteq set[n]
    BY <1>3, <1>7, RoundsEnd
  <2>. QED  BY <2>1 DEF Least
<1>. QED  BY <1>8, <1>9, <1>10

-----------------------------------------------------------------------------
(* The set that the summaries of the bodies give                           *)

\* The functions under a handler when s are the summaries of the bodies.
UnderBy(mo, s) ==
    Least(RootsOf(mo, s, Taken(mo, s)), [f \in DOMAIN s |-> CallsOf(mo, s, Taken(mo, s), f)])

\* The functions whose address the data of the globals hold.
RelocsOf(mo) == UNION {FuncRelocs(mo.globals[g]) : g \in DOMAIN mo.globals}

\* The functions whose address is taken.
LEMMA TakenIs ==
  ASSUME NEW mo, NEW s, NEW g
  PROVE  g \in Taken(mo, s) <=>
           /\ g \in DOMAIN mo.funcs
           /\ (\E f \in DOMAIN s : g \in s[f].taken) \/ g \in RelocsOf(mo)
<1>. DEFINE X == {s[i].taken : i \in DOMAIN s}
            Y == {FuncRelocs(mo.globals[d]) : d \in DOMAIN mo.globals}
            D == DOMAIN mo.funcs
<1>1. Taken(mo, s) = (UNION (X \cup Y)) \cap D
  BY DEF Taken
<1>2. g \in UNION X <=> \E f \in DOMAIN s : g \in s[f].taken
  OBVIOUS
<1>3. g \in UNION Y <=> g \in RelocsOf(mo)
  BY DEF RelocsOf
<1>. HIDE DEF X, Y, D
<1>4. g \in UNION (X \cup Y) <=> (g \in UNION X \/ g \in UNION Y)
  OBVIOUS
<1>. QED  BY <1>1, <1>2, <1>3, <1>4 DEF D

\* The roots.
LEMMA RootsAre ==
  ASSUME NEW mo, NEW s, NEW T, NEW g, T \subseteq DOMAIN s
  PROVE  g \in RootsOf(mo, s, T) <=>
           /\ g \in DOMAIN s
           /\ \/ s[g].has_handler
              \/ \E f \in DOMAIN s : g \in s[f].bodies
              \/ /\ g \in T /\ BodyType(mo, mo.funcs[g].type)
                 /\ \E f \in DOMAIN s : 0 \in s[f].bodies
<1>. DEFINE X == {i \in DOMAIN s : s[i].has_handler}
            Y == (UNION {s[i].bodies : i \in DOMAIN s}) \cap DOMAIN s
            Z == {h \in T : BodyType(mo, mo.funcs[h].type) /\ \E i \in DOMAIN s : 0 \in s[i].bodies}
<1>1. RootsOf(mo, s, T) = X \cup Y \cup Z
  BY DEF RootsOf
<1>2. g \in X <=> g \in DOMAIN s /\ s[g].has_handler
  OBVIOUS
<1>3. g \in Y <=> g \in DOMAIN s /\ \E f \in DOMAIN s : g \in s[f].bodies
  OBVIOUS
<1>4. g \in Z <=> /\ g \in T /\ BodyType(mo, mo.funcs[g].type)
                  /\ \E f \in DOMAIN s : 0 \in s[f].bodies
  OBVIOUS
<1>. HIDE DEF X, Y, Z
<1>. QED  BY <1>1, <1>2, <1>3, <1>4

\* A sequence computed once is the sequence.
LEMMA OnceIsSame ==
  ASSUME NEW n \in Nat, NEW s, DOMAIN s = 1 .. n, s = [i \in 1 .. n |-> s[i]]
  PROVE  Once(s) = s /\ Len(s) = n
<1>. DEFINE R == {s[i] : i \in 1 .. n}
<1>1. s \in [1 .. n -> R]
  OBVIOUS
<1>2. s \in Seq(R) /\ Len(s) = n
  BY <1>1
<1>. HIDE DEF R
<1>3. SubSeq(s, 1, Len(s)) = s
  BY <1>2
<1>. QED  BY <1>2, <1>3 DEF Once

\* What limba_module_handled computes is the least set.
LEMMA ComputeIsLeast ==
  ASSUME NEW n \in Nat, NEW mo, DOMAIN mo.funcs = 1 .. n,
         NEW s, DOMAIN s = 1 .. n
  PROVE  ComputeFrom(mo, s) = UnderBy(mo, s)
<1>. DEFINE T == Taken(mo, s)
            roots == RootsOf(mo, s, T)
            calls == [f \in DOMAIN s |-> CallsOf(mo, s, T, f)]
<1>1. T \subseteq 1 .. n
  BY TakenIs
<1>2. roots \in SUBSET (1 .. n)
  <2>. HIDE DEF T
  <2>. QED  BY <1>1, RootsAre
<1>3. calls \in [1 .. n -> SUBSET (1 .. n)]
  <2>. HIDE DEF T
  <2>1. ASSUME NEW f \in 1 .. n PROVE CallsOf(mo, s, T, f) \in SUBSET (1 .. n)
    BY <1>1 DEF CallsOf
  <2>. QED  BY <2>1
<1>4. Once(calls) = calls
  <2>. HIDE DEF T
  <2>. QED  BY OnceIsSame
<1>. HIDE DEF roots, calls
<1>5. Closure(roots, calls) = Least(roots, calls)
  BY <1>2, <1>3, ClosureIsLeast
<1>. QED  BY <1>4, <1>5 DEF roots, calls, ComputeFrom, ComputeWith, UnderBy

\* What a summary says of a body.
LEMMA SummarySays ==
  ASSUME NEW f
  PROVE  /\ Summarise(f).has_handler <=> Protects(f)
         /\ Summarise(f).callees = Imm(f, "call") /\ Summarise(f).taken = Imm(f, "faddr")
         /\ Summarise(f).sigs = Imm(f, "call.ind") /\ Summarise(f).bodies = Bodies(f)
  BY DEF Summarise, Protects

\* The set defined from the instructions is the one that their summaries give.
LEMMA UnderIsBy ==
  ASSUME NEW n \in Nat, NEW w, DOMAIN w.funcs = 1 .. n
  PROVE  UnderHandler(w) = UnderBy(w, [f \in 1 .. n |-> Summarise(w.funcs[f])])
<1>. DEFINE s == [f \in 1 .. n |-> Summarise(w.funcs[f])]
            ins == [f \in 1 .. n |-> Insts(w.funcs[f])]
            A == {g \in 1 .. n : AddressTaken(w, ins, g)}
            roots == {g \in 1 .. n : Protects(w.funcs[g]) \/ BodyGiven(w, ins, A, g)}
            calls == [f \in 1 .. n |-> {g \in 1 .. n : MayCall(w, ins, A, f, g)}]
<1>1. Once(ins) = ins /\ Once(calls) = calls
  <2>. HIDE DEF A
  <2>. QED  BY OnceIsSame
<1>2. DOMAIN ins = 1 .. n /\ DOMAIN s = 1 .. n
  OBVIOUS
<1>3. UnderHandler(w) = UnderIn(w, ins)
  BY <1>1 DEF UnderHandler
<1>4. UnderIn(w, ins) = UnderOf(w, ins, A)
  BY <1>2 DEF UnderIn
<1>5. UnderOf(w, ins, A) = Least(roots, calls)
  <2>. HIDE DEF A, ins
  <2>1. UnderOf(w, ins, A) = Least(roots, Once(calls))
    BY <1>2 DEF UnderOf
  <2>. QED  BY <1>1, <2>1
<1>6. ASSUME NEW f \in 1 .. n, NEW op, NEW g
      PROVE  g \in Imm(w.funcs[f], op) <=> Does(ins, f, op, g)
  BY <1>6 DEF Imm, Does
<1>7. ASSUME NEW f \in 1 .. n
      PROVE  /\ s[f].has_handler <=> Protects(w.funcs[f])
             /\ s[f].callees = Imm(w.funcs[f], "call") /\ s[f].taken = Imm(w.funcs[f], "faddr")
             /\ s[f].sigs = Imm(w.funcs[f], "call.ind") /\ s[f].bodies = Bodies(w.funcs[f])
  BY SummarySays
<1>8. ASSUME NEW f \in 1 .. n, NEW x
      PROVE  x \in s[f].bodies <=> \E in \in ins[f] : IsParFor(in) /\ BodyOf(w.funcs[f], in) = x
  <2>1. s[f].bodies = Bodies(w.funcs[f])
    BY <1>7
  <2>. QED  BY <2>1 DEF Bodies
<1>. HIDE DEF s, ins
<1>9. Taken(w, s) = A
  <2>1. ASSUME NEW g \in 1 .. n
        PROVE  (\E f \in 1 .. n : g \in s[f].taken) <=> \E f \in 1 .. n : Does(ins, f, "faddr", g)
    BY <1>6, <1>7
  <2>2. ASSUME NEW g \in 1 .. n
        PROVE  g \in Taken(w, s) <=> AddressTaken(w, ins, g)
    BY <1>2, <2>1, TakenIs DEF AddressTaken, RelocsOf
  <2>3. \A g : g \in Taken(w, s) => g \in 1 .. n
    BY TakenIs
  <2>. QED  BY <2>2, <2>3
<1>. HIDE DEF A
<1>10. RootsOf(w, s, A) = roots
  <2>1. A \subseteq 1 .. n
    BY DEF A
  <2>2. ASSUME NEW g \in 1 .. n
        PROVE  BodyGiven(w, ins, A, g) <=>
                 \/ \E f \in 1 .. n : g \in s[f].bodies
                 \/ /\ g \in A /\ BodyType(w, w.funcs[g].type)
                    /\ \E f \in 1 .. n : 0 \in s[f].bodies
    BY <1>2, <1>8 DEF BodyGiven
  <2>3. ASSUME NEW g
        PROVE  g \in RootsOf(w, s, A) <=>
                 /\ g \in 1 .. n
                 /\ \/ Protects(w.funcs[g])
                    \/ \E f \in 1 .. n : g \in s[f].bodies
                    \/ /\ g \in A /\ BodyType(w, w.funcs[g].type)
                       /\ \E f \in 1 .. n : 0 \in s[f].bodies
    BY <1>2, <1>7, <2>1, RootsAre
  <2>. QED  BY <2>2, <2>3
<1>11. [f \in DOMAIN s |-> CallsOf(w, s, A, f)] = calls
  <2>1. A \subseteq 1 .. n
    BY DEF A
  <2>2. ASSUME NEW f \in 1 .. n
        PROVE  CallsOf(w, s, A, f) = {g \in 1 .. n : MayCall(w, ins, A, f, g)}
    <3>1. ASSUME NEW g \in 1 .. n
          PROVE  MayCall(w, ins, A, f, g) <=>
                   g \in s[f].callees \/ (w.funcs[g].type \in s[f].sigs /\ g \in A)
      BY <1>6, <1>7 DEF MayCall
    <3>. QED  BY <1>2, <2>1, <3>1 DEF CallsOf
  <2>. QED  BY <1>2, <2>2
<1>12. Least(roots, calls) = UnderBy(w, s)
  BY <1>9, <1>10, <1>11 DEF UnderBy
<1>. QED  BY <1>3, <1>4, <1>5, <1>12 DEF s

\* A summary and a module that show no more than another.
Less(s, z) ==
    /\ s.has_handler => z.has_handler
    /\ s.callees \subseteq z.callees /\ s.taken \subseteq z.taken
    /\ s.sigs \subseteq z.sigs /\ s.bodies \subseteq z.bodies
\* The functions of mo keep their types, and a type of a body stays one.
SameTypes(mo, ne) ==
    \A f \in DOMAIN mo.funcs :
        /\ mo.funcs[f].type = ne.funcs[f].type
        /\ BodyType(mo, mo.funcs[f].type) => BodyType(ne, ne.funcs[f].type)

\* The least set grows with the roots and the calls.
LEMMA LeastGrows ==
  ASSUME NEW n, NEW r, NEW c, NEW q, NEW d, DOMAIN c = n, DOMAIN d = n,
         r \subseteq q, \A f \in n : c[f] \subseteq d[f]
  PROVE  Least(r, c) \subseteq Least(q, d)
<1>1. ASSUME NEW g \in Least(r, c), NEW S \in SUBSET n,
             q \subseteq S, \A f \in S : d[f] \subseteq S
      PROVE  g \in S
  <2>1. r \subseteq S /\ \A f \in S : c[f] \subseteq S
    BY <1>1
  <2>. QED  BY <2>1 DEF Least
<1>. QED  BY <1>1 DEF Least

\* The set grows with what the summaries, the types and the data show.
LEMMA UnderGrows ==
  ASSUME NEW n, NEW mo, NEW s, NEW ne, NEW z,
         DOMAIN mo.funcs = n, DOMAIN ne.funcs = n, DOMAIN s = n, DOMAIN z = n,
         SameTypes(mo, ne), RelocsOf(mo) \subseteq RelocsOf(ne),
         \A f \in n : Less(s[f], z[f])
  PROVE  UnderBy(mo, s) \subseteq UnderBy(ne, z)
<1>. DEFINE T == Taken(mo, s)
            V == Taken(ne, z)
<1>1. T \subseteq V /\ T \subseteq n
  <2>1. \A g : g \in T => g \in n /\ ((\E f \in n : g \in s[f].taken) \/ g \in RelocsOf(mo))
    BY TakenIs
  <2>2. \A g : g \in n /\ ((\E f \in n : g \in z[f].taken) \/ g \in RelocsOf(ne)) => g \in V
    BY TakenIs
  <2>3. \A f \in n : s[f].taken \subseteq z[f].taken
    BY DEF Less
  <2>. HIDE DEF T, V
  <2>. QED  BY <2>1, <2>2, <2>3
<1>. HIDE DEF T, V
<1>2. \A g \in n : mo.funcs[g].type = ne.funcs[g].type
                   /\ (BodyType(mo, mo.funcs[g].type) => BodyType(ne, ne.funcs[g].type))
  BY DEF SameTypes
<1>3. RootsOf(mo, s, T) \subseteq RootsOf(ne, z, V)
  <2>1. \A f \in n : (s[f].has_handler => z[f].has_handler) /\ s[f].bodies \subseteq z[f].bodies
    BY DEF Less
  <2>2. T \subseteq DOMAIN s /\ V \subseteq DOMAIN z
    BY <1>1, TakenIs DEF V
  <2>3. ASSUME NEW g \in RootsOf(mo, s, T) PROVE g \in RootsOf(ne, z, V)
    <3>1. /\ g \in n
          /\ \/ s[g].has_handler
             \/ \E f \in n : g \in s[f].bodies
             \/ /\ g \in T /\ BodyType(mo, mo.funcs[g].type)
                /\ \E f \in n : 0 \in s[f].bodies
      BY <2>2, RootsAre
    <3>2. /\ g \in n
          /\ \/ z[g].has_handler
             \/ \E f \in n : g \in z[f].bodies
             \/ /\ g \in V /\ BodyType(ne, ne.funcs[g].type)
                /\ \E f \in n : 0 \in z[f].bodies
      BY <1>1, <1>2, <2>1, <3>1
    <3>. QED  BY <2>2, <3>2, RootsAre
  <2>. QED  BY <2>3
<1>4. ASSUME NEW f \in n PROVE CallsOf(mo, s, T, f) \subseteq CallsOf(ne, z, V, f)
  <2>1. s[f].callees \subseteq z[f].callees /\ s[f].sigs \subseteq z[f].sigs
    BY DEF Less
  <2>. QED  BY <1>1, <1>2, <2>1 DEF CallsOf
<1>5. \A f \in n : [g \in DOMAIN s |-> CallsOf(mo, s, T, g)][f]
                   \subseteq [g \in DOMAIN z |-> CallsOf(ne, z, V, g)][f]
  BY <1>4
<1>6. Least(RootsOf(mo, s, T), [g \in DOMAIN s |-> CallsOf(mo, s, T, g)])
      \subseteq Least(RootsOf(ne, z, V), [g \in DOMAIN z |-> CallsOf(ne, z, V, g)])
  <2>. DEFINE c == [g \in DOMAIN s |-> CallsOf(mo, s, T, g)]
              d == [g \in DOMAIN z |-> CallsOf(ne, z, V, g)]
  <2>1. DOMAIN c = n /\ DOMAIN d = n /\ \A f \in n : c[f] \subseteq d[f]
    BY <1>5
  <2>. HIDE DEF c, d
  <2>2. Least(RootsOf(mo, s, T), c) \subseteq Least(RootsOf(ne, z, V), d)
    BY <1>3, <2>1, LeastGrows
  <2>. QED  BY <2>2 DEF c, d
<1>. QED  BY <1>6 DEF UnderBy, T, V

-----------------------------------------------------------------------------
(* The set that is right now, and the one that is kept                     *)

\* What would be computed now.
Now(mo) == UnderBy(mo, [f \in DOMAIN mo.funcs |-> Sum(mo.funcs[f])])

\* The functions of mo, its types and its data show no more than those of ne.
ShowsNoMore(mo, ne) ==
    /\ DOMAIN mo.funcs = DOMAIN ne.funcs
    /\ SameTypes(mo, ne)
    /\ RelocsOf(mo) \subseteq RelocsOf(ne)
    /\ \A f \in DOMAIN mo.funcs : Less(Sum(mo.funcs[f]), Sum(ne.funcs[f]))

\* kp: the bodies freed.  A summary is kept of each, and no other.
KeptRight(mo, kp) ==
    /\ DOMAIN kp \subseteq DOMAIN mo.funcs
    /\ \A f \in DOMAIN mo.funcs : f \notin DOMAIN kp => ~mo.funcs[f].sum.noted
    /\ \A f \in DOMAIN kp :
           /\ {"type", "blocks", "insts"} \subseteq DOMAIN kp[f]
           /\ kp[f].type = mo.funcs[f].type
           /\ mo.funcs[f].sum.noted
           /\ mo.funcs[f].blocks = <<>> => mo.funcs[f].sum = Summarise(kp[f])

\* A set that is not old has what it must, and no more unless d.
CacheRight(mo, d) ==
    mo.fresh /\ mo.nhandled = Len(mo.funcs) =>
        /\ Now(mo) \subseteq mo.handled
        /\ ~d => mo.handled \subseteq Now(mo)

\* The inductive invariant: the summaries tell of the bodies, and so does the
\* set that is kept when it is answered again.
Right(mo, kp, d) == Usable(mo) /\ KeptRight(mo, kp) /\ CacheRight(mo, d)

\* What shows no more has no more under a handler.
LEMMA NowGrows ==
  ASSUME NEW mo, NEW ne, ShowsNoMore(mo, ne)
  PROVE  Now(mo) \subseteq Now(ne)
<1>. DEFINE s == [f \in DOMAIN mo.funcs |-> Sum(mo.funcs[f])]
            z == [f \in DOMAIN ne.funcs |-> Sum(ne.funcs[f])]
<1>1. PICK n : n = DOMAIN mo.funcs
  OBVIOUS
<1>2. /\ DOMAIN mo.funcs = n /\ DOMAIN ne.funcs = n /\ DOMAIN s = n /\ DOMAIN z = n
      /\ \A f \in n : Less(s[f], z[f])
  BY <1>1 DEF ShowsNoMore
<1>3. SameTypes(mo, ne) /\ RelocsOf(mo) \subseteq RelocsOf(ne)
  BY DEF ShowsNoMore
<1>. HIDE DEF s, z
<1>4. UnderBy(mo, s) \subseteq UnderBy(ne, z)
  BY <1>2, <1>3, UnderGrows
<1>. QED  BY <1>4 DEF Now, s, z

\* A sequence of nothing is empty.
LEMMA NoneIsEmpty ==
  ASSUME NEW s, Sequence(s), DOMAIN s = {}
  PROVE  s = <<>>
<1>1. s \in Seq(ToSet(s)) /\ Len(s) \in Nat /\ DOMAIN s = 1 .. Len(s)
  BY SequenceIs DEF Sequence
<1>2. Len(s) = 0
  BY <1>1
<1>3. s # <<>> => Len(s) \in Nat \ {0}
  BY <1>1, EmptySeq
<1>. QED  BY <1>2, <1>3

\* Where the functions of a module are.
LEMMA FuncsAre ==
  ASSUME NEW mo, Usable(mo)
  PROVE  Len(mo.funcs) \in Nat /\ DOMAIN mo.funcs = 1 .. Len(mo.funcs)
  BY SequenceIs DEF Usable, Sequence

\* compute() gives the set that is right.
LEMMA ComputedNow ==
  ASSUME NEW mo, Usable(mo)
  PROVE  Compute(mo) = Now(mo)
<1>. DEFINE s == [f \in DOMAIN mo.funcs |-> Sum(mo.funcs[f])]
<1>1. PICK n \in Nat : DOMAIN mo.funcs = 1 .. n
  BY FuncsAre
<1>2. DOMAIN s = 1 .. n /\ s = [i \in 1 .. n |-> s[i]]
  BY <1>1
<1>. HIDE DEF s
<1>3. Once(s) = s
  BY <1>2, OnceIsSame
<1>4. Sums(mo) = s
  BY <1>3 DEF Sums, s
<1>5. ComputeFrom(mo, s) = UnderBy(mo, s)
  BY <1>1, <1>2, ComputeIsLeast
<1>. QED  BY <1>4, <1>5 DEF Compute, Now, s

\* The set defined from the bodies, those freed too, is the one that the
\* summaries give.
LEMMA WholeIsNow ==
  ASSUME Usable(m), KeptRight(m, kept)
  PROVE  UnderHandler(Whole) = Now(m)
<1>1. PICK n \in Nat : DOMAIN m.funcs = 1 .. n
  BY FuncsAre
<1>2. PICK w : w = Whole
  OBVIOUS
<1>3. /\ DOMAIN w.funcs = 1 .. n /\ w.types = m.types /\ w.globals = m.globals
      /\ \A f \in 1 .. n : w.funcs[f] = WholeFunc(f)
  BY <1>1, <1>2 DEF Whole, Usable
<1>4. ASSUME NEW f \in 1 .. n
      PROVE  w.funcs[f].type = m.funcs[f].type /\ Summarise(w.funcs[f]) = Sum(m.funcs[f])
  <2>1. PICK x : x = m.funcs[f]
    OBVIOUS
  <2>2. {"type", "blocks", "insts", "sum"} \subseteq DOMAIN x
    BY <1>1, <2>1 DEF Usable, WellMade
  <2>3. ASSUME NEW y, {"type", "blocks", "insts"} \subseteq DOMAIN y
        PROVE  /\ [y EXCEPT !.pos_cur = 0, !.sum = NoSum].type = y.type
               /\ Summarise([y EXCEPT !.pos_cur = 0, !.sum = NoSum]) = Summarise(y)
    <3>1. PICK v : v = [y EXCEPT !.pos_cur = 0, !.sum = NoSum]
      OBVIOUS
    <3>2. v.type = y.type /\ v.blocks = y.blocks /\ v.insts = y.insts
      BY <2>3, <3>1
    <3>3. Insts(v) = Insts(y)
      BY <3>2 DEF Insts
    <3>4. \A op : Imm(v, op) = Imm(y, op)
      BY <3>3 DEF Imm
    <3>5. Bodies(v) = Bodies(y)
      <4>1. \A in : BodyOf(v, in) = BodyOf(y, in)
        BY <3>2 DEF BodyOf
      <4>. QED  BY <3>3, <4>1 DEF Bodies
    <3>6. Summarise(v) = Summarise(y)
      BY <3>2, <3>4, <3>5 DEF Summarise
    <3>. QED  BY <3>1, <3>2, <3>6
  <2>4. CASE x.blocks = <<>> /\ f \in DOMAIN kept
    <3>1. w.funcs[f] = [kept[f] EXCEPT !.pos_cur = 0, !.sum = NoSum]
      <4>1. Blocks(f) = {}
        BY <2>1, <2>4 DEF Blocks
      <4>. QED  BY <1>3, <2>4, <4>1 DEF WholeFunc
    <3>2. /\ {"type", "blocks", "insts"} \subseteq DOMAIN kept[f] /\ kept[f].type = x.type
          /\ x.sum = Summarise(kept[f]) /\ x.sum.noted
      BY <2>1, <2>4 DEF KeptRight
    <3>3. Sum(x) = Summarise(kept[f])
      BY <2>4, <3>2 DEF Sum
    <3>. QED  BY <2>1, <2>3, <3>1, <3>2, <3>3
  <2>5. CASE ~(x.blocks = <<>> /\ f \in DOMAIN kept)
    <3>1. Sequence(x.blocks)
      BY <1>1, <2>1 DEF Usable, WellMade
    <3>2. DOMAIN x.blocks = {} => x.blocks = <<>>
      BY <3>1, NoneIsEmpty
    <3>3. w.funcs[f] = [x EXCEPT !.pos_cur = 0, !.sum = NoSum]
      BY <1>3, <2>1, <2>5, <3>2 DEF WholeFunc, Blocks
    <3>4. f \notin DOMAIN kept => ~x.sum.noted
      BY <1>1, <2>1 DEF KeptRight
    <3>5. Sum(x) = Summarise(x)
      BY <2>5, <3>4 DEF Sum
    <3>6. {"type", "blocks", "insts"} \subseteq DOMAIN x
      BY <2>2
    <3>7. /\ [x EXCEPT !.pos_cur = 0, !.sum = NoSum].type = x.type
          /\ Summarise([x EXCEPT !.pos_cur = 0, !.sum = NoSum]) = Summarise(x)
      BY <2>3, <3>6
    <3>. QED  BY <2>1, <3>3, <3>5, <3>7
  <2>. QED  BY <2>4, <2>5
<1>. DEFINE s == [f \in 1 .. n |-> Summarise(w.funcs[f])]
<1>5. UnderHandler(w) = UnderBy(w, s)
  BY <1>3, UnderIsBy
<1>6. s = [f \in DOMAIN m.funcs |-> Sum(m.funcs[f])]
  BY <1>1, <1>4
<1>7. UnderBy(w, s) \subseteq UnderBy(m, s) /\ UnderBy(m, s) \subseteq UnderBy(w, s)
  <2>1. \A t : BodyType(w, t) <=> BodyType(m, t)
    BY <1>3 DEF BodyType, NTypes
  <2>2. SameTypes(w, m) /\ SameTypes(m, w)
    BY <1>1, <1>3, <1>4, <2>1 DEF SameTypes
  <2>3. RelocsOf(w) = RelocsOf(m)
    BY <1>3 DEF RelocsOf
  <2>4. DOMAIN s = 1 .. n /\ \A f \in 1 .. n : Less(s[f], s[f])
    BY DEF Less
  <2>. HIDE DEF s
  <2>. QED  BY <1>1, <1>3, <2>2, <2>3, <2>4, UnderGrows
<1>. HIDE DEF s
<1>. QED  BY <1>2, <1>5, <1>6, <1>7 DEF Now

\* The answer is right.
LEMMA AnswerRight ==
  ASSUME Right(m, kept, dropped)
  PROVE  HandledRight
<1>1. UnderHandler(Whole) = Now(m)
  BY WholeIsNow DEF Right
<1>2. CASE m.fresh /\ m.nhandled = Len(m.funcs)
  <2>1. Asked(m) = m
    BY <1>2 DEF Asked
  <2>. QED  BY <1>1, <1>2, <2>1 DEF HandledRight, Right, CacheRight
<1>3. CASE ~(m.fresh /\ m.nhandled = Len(m.funcs))
  <2>1. Asked(m).handled = Compute(m)
    BY <1>3 DEF Asked, Right, Usable
  <2>2. Compute(m) = Now(m)
    BY ComputedNow DEF Right
  <2>. QED  BY <1>1, <2>1, <2>2 DEF HandledRight
<1>. QED  BY <1>2, <1>3

-----------------------------------------------------------------------------
(* What a call leaves as it was                                            *)

\* The set that is kept, and the functions that there are, stay.
SameCache(mo, n) ==
    /\ n.fresh = mo.fresh /\ n.nhandled = mo.nhandled /\ n.handled = mo.handled
    /\ Len(n.funcs) = Len(mo.funcs)
\* A call adds one type or none.
TypesStay(mo, n) == n.types = mo.types \/ \E t : n.types = Append(mo.types, t)
\* n: the module after a call that changes the data or the types alone
Followed(mo, n, d, e) ==
    \/ ~n.fresh
    \/ /\ n.fresh = mo.fresh /\ n.nhandled = mo.nhandled /\ n.handled = mo.handled
       /\ RelocsOf(n) \subseteq RelocsOf(mo)
       /\ e \/ RelocsOf(mo) \subseteq RelocsOf(n)
       /\ d => e
\* What the proofs ask of the globals, and the fields that they read.
GlobalsMade(n) == Sequence(n.globals) /\ \A g \in DOMAIN n.globals : GlobalMade(n.globals[g])
UsableFields == {"types", "funcs", "globals", "handled", "nhandled", "fresh"}

\* A set that is told of a change, or that has not changed but for what was
\* dropped, stays right.
LEMMA StillRight ==
  ASSUME NEW mo, NEW kp, NEW d, Right(mo, kp, d), NEW n, NEW kq, NEW e,
         Usable(n), KeptRight(n, kq),
         \/ ~n.fresh
         \/ /\ SameCache(mo, n) /\ ShowsNoMore(n, mo)
            /\ e \/ ShowsNoMore(mo, n)
            /\ d => e
  PROVE  Right(n, kq, e)
<1>1. CASE ~n.fresh
  BY <1>1 DEF Right, CacheRight
<1>2. CASE /\ SameCache(mo, n) /\ ShowsNoMore(n, mo)
           /\ e \/ ShowsNoMore(mo, n)
           /\ d => e
  <2>1. Now(n) \subseteq Now(mo)
    BY <1>2, NowGrows
  <2>2. ~e => Now(mo) \subseteq Now(n)
    BY <1>2, NowGrows
  <2>3. SUFFICES ASSUME n.fresh, n.nhandled = Len(n.funcs)
                 PROVE  Now(n) \subseteq n.handled /\ (~e => n.handled \subseteq Now(n))
    BY DEF Right, CacheRight
  <2>4. /\ Now(mo) \subseteq mo.handled /\ (~d => mo.handled \subseteq Now(mo))
        /\ n.handled = mo.handled
    BY <1>2, <2>3 DEF Right, CacheRight, SameCache
  <2>. QED  BY <1>2, <2>1, <2>2, <2>4
<1>. QED  BY <1>1, <1>2

\* A type of a function says the same whatever types are added.
LEMMA TypeStays ==
  ASSUME NEW mo, Usable(mo), NEW n, TypesStay(mo, n),
         NEW x \in FirstUser .. NTypes(mo)
  PROVE  (BodyType(n, x) <=> BodyType(mo, x)) /\ x \in FirstUser .. NTypes(n)
<1>1. CASE n.types = mo.types
  BY <1>1 DEF BodyType, NTypes
<1>2. CASE n.types # mo.types
  <2>1. PICK s, t : s = mo.types /\ n.types = Append(s, t)
    BY <1>2 DEF TypesStay
  <2>2. /\ Sequence(s) /\ Len(s) \in Nat /\ DOMAIN s = 1 .. Len(s)
        /\ Sequence(Append(s, t)) /\ DOMAIN Append(s, t) = 1 .. (Len(s) + 1)
        /\ \A i \in DOMAIN s : Append(s, t)[i] = s[i]
    BY <2>1, SequenceAdded DEF Usable
  <2>3. Len(Append(s, t)) = Len(s) + 1
    BY <2>2
  <2>4. PICK k \in Nat : k = Len(s)
    BY <2>2
  <2>5. x \in 12 .. 11 + k /\ x - 12 + 1 \in 1 .. k
    BY <2>1, <2>4 DEF FirstUser, NTypes
  <2>6. Append(s, t)[x - 12 + 1] = s[x - 12 + 1]
    BY <2>2, <2>4, <2>5
  <2>7. x \in FirstUser .. NTypes(n)
    BY <2>1, <2>3, <2>4, <2>5 DEF FirstUser, NTypes
  <2>8. n.types[x - FirstUser + 1] = mo.types[x - FirstUser + 1]
    BY <2>1, <2>6 DEF FirstUser
  <2>. QED  BY <2>7, <2>8 DEF BodyType
<1>. QED  BY <1>1, <1>2

\* The functions are the same: the types, the globals or neither changed.
LEMMA FuncsStay ==
  ASSUME NEW mo, NEW kp, NEW d, Right(mo, kp, d), NEW n, NEW e,
         UsableFields \subseteq DOMAIN n, n.funcs = mo.funcs,
         TypesStay(mo, n), GlobalsMade(n), Followed(mo, n, d, e)
  PROVE  Right(n, kp, e)
<1>1. /\ \A f \in DOMAIN mo.funcs :
             /\ WellMade(mo.funcs[f]) /\ mo.funcs[f].type \in FirstUser .. NTypes(mo)
      /\ Sequence(mo.types) /\ Sequence(mo.funcs)
  BY DEF Right, Usable
<1>2. \A f \in DOMAIN mo.funcs :
          /\ BodyType(n, mo.funcs[f].type) <=> BodyType(mo, mo.funcs[f].type)
          /\ mo.funcs[f].type \in FirstUser .. NTypes(n)
  BY <1>1, TypeStays DEF Right
<1>3. Sequence(n.types)
  <2>1. ASSUME NEW t, n.types = Append(mo.types, t) PROVE Sequence(n.types)
    <3>1. Sequence(Append(mo.types, t))
      BY <1>1, SequenceAdded
    <3>. QED  BY <2>1, <3>1
  <2>. QED  BY <1>1, <2>1 DEF TypesStay
<1>4. Usable(n)
  BY <1>1, <1>2, <1>3 DEF Usable, UsableFields, GlobalsMade
<1>5. KeptRight(n, kp)
  BY DEF Right, KeptRight
<1>6. SameTypes(n, mo) /\ SameTypes(mo, n)
  BY <1>2 DEF SameTypes
<1>7. \A f \in DOMAIN mo.funcs : Less(Sum(mo.funcs[f]), Sum(mo.funcs[f]))
  BY DEF Less
<1>8. CASE ~n.fresh
  BY <1>4, <1>5, <1>8, StillRight
<1>9. CASE n.fresh
  <2>1. SameCache(mo, n) /\ (d => e)
    BY <1>9 DEF SameCache, Followed
  <2>2. ShowsNoMore(n, mo)
    BY <1>6, <1>7, <1>9 DEF ShowsNoMore, Followed
  <2>3. e \/ ShowsNoMore(mo, n)
    BY <1>6, <1>7, <1>9 DEF ShowsNoMore, Followed
  <2>. QED  BY <1>4, <1>5, <2>1, <2>2, <2>3, StillRight
<1>. QED  BY <1>8, <1>9

\* What a module that can be used has.
LEMMA UsableHas ==
  ASSUME NEW mo, NEW kp, NEW d, Right(mo, kp, d)
  PROVE  /\ UsableFields \subseteq DOMAIN mo
         /\ Sequence(mo.types) /\ Sequence(mo.funcs) /\ Sequence(mo.globals)
         /\ \A g \in DOMAIN mo.globals : GlobalMade(mo.globals[g])
         /\ \A f \in DOMAIN mo.funcs : WellMade(mo.funcs[f])
  BY DEF Right, Usable, UsableFields

\* limba_str_intern.
LEMMA InternRight ==
  ASSUME NEW mo, NEW kp, NEW d, Right(mo, kp, d), NEW s
  PROVE  Right(Intern(mo, s), kp, d)
<1>1. PICK n : n = Intern(mo, s)
  OBVIOUS
<1>2. /\ UsableFields \subseteq DOMAIN n /\ n.funcs = mo.funcs /\ n.types = mo.types
      /\ n.globals = mo.globals /\ n.fresh = mo.fresh /\ n.nhandled = mo.nhandled
      /\ n.handled = mo.handled
  BY <1>1, UsableHas DEF Intern, UsableFields
<1>3. RelocsOf(n) = RelocsOf(mo)
  BY <1>2 DEF RelocsOf
<1>4. Right(n, kp, d)
  BY <1>2, <1>3, UsableHas, FuncsStay DEF TypesStay, Followed, GlobalsMade
<1>. QED  BY <1>1, <1>4

\* limba_type_array, limba_type_func and limba_type_struct.
LEMMA TypeRight ==
  ASSUME NEW mo, NEW kp, NEW d, Right(mo, kp, d), NEW t
  PROVE  Right(TypeMade(mo, t), kp, d)
<1>1. CASE TypeFind(mo, t) # 0
  BY <1>1 DEF TypeMade
<1>2. CASE TypeFind(mo, t) = 0
  <2>1. PICK n : n = TypeMade(mo, t)
    OBVIOUS
  <2>2. /\ UsableFields \subseteq DOMAIN n /\ n.funcs = mo.funcs
        /\ n.types = Append(mo.types, t)
        /\ n.globals = mo.globals /\ n.fresh = mo.fresh /\ n.nhandled = mo.nhandled
        /\ n.handled = mo.handled
    BY <1>2, <2>1, UsableHas DEF TypeMade, TypeAdded, UsableFields
  <2>3. RelocsOf(n) = RelocsOf(mo)
    BY <2>2 DEF RelocsOf
  <2>4. TypesStay(mo, n)
    BY <2>2 DEF TypesStay
  <2>5. GlobalsMade(n) /\ Followed(mo, n, d, d)
    BY <2>2, <2>3, UsableHas DEF GlobalsMade, Followed
  <2>6. Right(n, kp, d)
    BY <2>2, <2>4, <2>5, FuncsStay
  <2>. QED  BY <2>1, <2>6
<1>. QED  BY <1>1, <1>2

\* limba_extern_add.
LEMMA ExternAddRight ==
  ASSUME NEW mo, NEW kp, NEW d, Right(mo, kp, d), NEW name, NEW type, NEW symbol, NEW library
  PROVE  Right(ExternAdd(mo, name, type, symbol, library), kp, d)
<1>1. CASE NameTaken(mo, name)
  BY <1>1 DEF ExternAdd
<1>2. CASE ~NameTaken(mo, name)
  <2>1. PICK n : n = ExternAdd(mo, name, type, symbol, library)
    OBVIOUS
  <2>2. /\ UsableFields \subseteq DOMAIN n /\ n.funcs = mo.funcs /\ n.types = mo.types
        /\ n.globals = mo.globals /\ n.fresh = mo.fresh /\ n.nhandled = mo.nhandled
        /\ n.handled = mo.handled
    BY <1>2, <2>1, UsableHas DEF ExternAdd, Named, UsableFields
  <2>3. RelocsOf(n) = RelocsOf(mo)
    BY <2>2 DEF RelocsOf
  <2>4. Right(n, kp, d)
    BY <2>2, <2>3, UsableHas, FuncsStay DEF TypesStay, Followed, GlobalsMade
  <2>. QED  BY <2>1, <2>4
<1>. QED  BY <1>1, <1>2

\* limba_global_add: a new global has no data.
LEMMA GlobalAddRight ==
  ASSUME NEW mo, NEW kp, NEW d, Right(mo, kp, d), NEW name, NEW type, NEW flags
  PROVE  Right(GlobalAdd(mo, name, type, flags), kp, d)
<1>1. CASE NameTaken(mo, name)
  BY <1>1 DEF GlobalAdd
<1>2. CASE ~NameTaken(mo, name)
  <2>1. PICK n, x : n = GlobalAdd(mo, name, type, flags) /\ x = Global(name, type, flags)
    OBVIOUS
  <2>2. /\ UsableFields \subseteq DOMAIN n /\ n.funcs = mo.funcs /\ n.types = mo.types
        /\ n.globals = Append(mo.globals, x) /\ n.fresh = mo.fresh
        /\ n.nhandled = mo.nhandled /\ n.handled = mo.handled
    BY <1>2, <2>1, UsableHas DEF GlobalAdd, Named, UsableFields
  <2>3. FuncRelocs(x) = {}
    BY <2>1 DEF Global, NoData, FuncRelocs, ToSet
  <2>4. GlobalMade(x)
    <3>1. Sequence(<<>>)
      BY DEF Sequence
    <3>. QED  BY <2>1, <2>3, <3>1 DEF Global, NoData, GlobalMade
  <2>5. PICK k \in Nat :
          /\ DOMAIN mo.globals = 1 .. k /\ Sequence(n.globals)
          /\ DOMAIN n.globals = 1 .. (k + 1) /\ n.globals[k + 1] = x
          /\ \A i \in 1 .. k : n.globals[i] = mo.globals[i]
    <3>1. PICK s : s = mo.globals
      OBVIOUS
    <3>2. /\ Len(s) \in Nat /\ DOMAIN s = 1 .. Len(s)
          /\ Sequence(Append(s, x)) /\ DOMAIN Append(s, x) = 1 .. (Len(s) + 1)
          /\ \A i \in DOMAIN s : Append(s, x)[i] = s[i]
          /\ Append(s, x)[Len(s) + 1] = x
      BY <3>1, UsableHas, SequenceAdded
    <3>. QED  BY <2>2, <3>1, <3>2
  <2>6. \A g \in DOMAIN n.globals : GlobalMade(n.globals[g])
    BY <2>4, <2>5, UsableHas
  <2>7. \A g : g \in DOMAIN n.globals <=> g \in DOMAIN mo.globals \/ g = k + 1
    BY <2>5
  <2>8. RelocsOf(n) = RelocsOf(mo)
    BY <2>3, <2>5, <2>7 DEF RelocsOf
  <2>9. TypesStay(mo, n)
    BY <2>2 DEF TypesStay
  <2>10. GlobalsMade(n) /\ Followed(mo, n, d, d)
    BY <2>2, <2>5, <2>6, <2>8 DEF GlobalsMade, Followed
  <2>11. Right(n, kp, d)
    BY <2>2, <2>9, <2>10, FuncsStay
  <2>. QED  BY <2>1, <2>11
<1>. QED  BY <1>1, <1>2

\* A global changed: what its data has of functions.
LEMMA GlobalRight ==
  ASSUME NEW mo, NEW kp, NEW d, Right(mo, kp, d), NEW g \in DOMAIN mo.globals,
         NEW x, GlobalMade(x), NEW n, n = [mo EXCEPT !.globals[g] = x], NEW e,
         FuncRelocs(x) \subseteq FuncRelocs(mo.globals[g]),
         e \/ FuncRelocs(mo.globals[g]) \subseteq FuncRelocs(x), d => e
  PROVE  Right(n, kp, e)
<1>1. PICK s, r : s = mo.globals /\ r = [s EXCEPT ![g] = x]
  OBVIOUS
<1>2. /\ UsableFields \subseteq DOMAIN n /\ n.funcs = mo.funcs /\ n.types = mo.types
      /\ n.globals = r /\ n.fresh = mo.fresh /\ n.nhandled = mo.nhandled
      /\ n.handled = mo.handled
  BY <1>1, UsableHas DEF UsableFields
<1>3. PICK k \in Nat : DOMAIN s = 1 .. k
  BY <1>1, UsableHas, SequenceIs DEF Sequence
<1>4. DOMAIN r = 1 .. k /\ g \in 1 .. k /\ r[g] = x /\ \A i \in 1 .. k : i # g => r[i] = s[i]
  BY <1>1, <1>3
<1>5. Sequence(r)
  <2>1. r \in [1 .. k -> ToSet(r)]
    BY <1>1, <1>3, <1>4 DEF ToSet
  <2>. QED  BY <2>1 DEF Sequence
<1>6. \A i \in 1 .. k : GlobalMade(r[i])
  BY <1>1, <1>3, <1>4, UsableHas
<1>7. RelocsOf(n) \subseteq RelocsOf(mo)
  BY <1>1, <1>2, <1>3, <1>4 DEF RelocsOf
<1>8. e \/ RelocsOf(mo) \subseteq RelocsOf(n)
  BY <1>1, <1>2, <1>3, <1>4 DEF RelocsOf
<1>9. TypesStay(mo, n)
  BY <1>2 DEF TypesStay
<1>10. GlobalsMade(n) /\ Followed(mo, n, d, e)
  BY <1>2, <1>4, <1>5, <1>6, <1>7, <1>8 DEF GlobalsMade, Followed
<1>. QED  BY <1>2, <1>9, <1>10, FuncsStay

\* data_of: what data a global has, and the functions in it.
LEMMA DataOf ==
  ASSUME NEW g, GlobalMade(g)
  PROVE  LET x == WithData(g)
         IN  /\ GlobalMade(x) /\ x.init = InitData
             /\ {"bytes", "fills", "relocs"} \subseteq DOMAIN NoData
             /\ FuncRelocs(x) = FuncRelocs(g)
<1>1. PICK x : x = WithData(g)
  OBVIOUS
<1>2. CASE g.init = InitData
  BY <1>1, <1>2 DEF WithData, NoData
<1>3. CASE g.init # InitData
  <2>1. "init" \in DOMAIN x /\ "data" \in DOMAIN x /\ x.init = InitData /\ x.data = NoData
    BY <1>1, <1>3 DEF WithData, GlobalMade
  <2>2. FuncRelocs(x) = {} /\ FuncRelocs(g) = {}
    BY <1>3, <2>1 DEF FuncRelocs, NoData, ToSet, GlobalMade
  <2>3. Sequence(<<>>)
    BY DEF Sequence
  <2>. QED  BY <1>1, <2>1, <2>2, <2>3 DEF GlobalMade, NoData
<1>. QED  BY <1>2, <1>3

\* limba_global_set_data: the relocations go.
LEMMA SetDataRight ==
  ASSUME NEW mo, NEW kp, NEW d, Right(mo, kp, d), NEW g \in DOMAIN mo.globals, NEW bytes,
         NEW e, d => e, FuncRelocs(mo.globals[g]) # {} => e
  PROVE  Right(GlobalSetData(mo, g, bytes), kp, e)
<1>1. PICK y : y = WithData(mo.globals[g])
  OBVIOUS
<1>2. "init" \in DOMAIN y /\ "data" \in DOMAIN y /\ y.init = InitData
  BY <1>1, UsableHas, DataOf DEF GlobalMade
<1>3. PICK z, x : z = [NoData EXCEPT !.bytes = Trimmed(bytes)] /\ x = [y EXCEPT !.data = z]
  OBVIOUS
<1>4. "relocs" \in DOMAIN z /\ z.relocs = <<>> /\ x.init = InitData /\ x.data = z
      /\ "init" \in DOMAIN x /\ "data" \in DOMAIN x
  BY <1>2, <1>3 DEF NoData
<1>5. FuncRelocs(x) = {}
  BY <1>4 DEF FuncRelocs, ToSet
<1>6. GlobalMade(x)
  <2>1. Sequence(<<>>)
    BY DEF Sequence
  <2>. QED  BY <1>4, <1>5, <2>1 DEF GlobalMade
<1>7. PICK n : n = [mo EXCEPT !.globals[g] = x]
  OBVIOUS
<1>8. Right(n, kp, e)
  BY <1>5, <1>6, <1>7, GlobalRight
<1>9. GlobalSetData(mo, g, bytes) = n
  BY <1>1, <1>3, <1>7, UsableHas DEF GlobalSetData, UsableFields
<1>. QED  BY <1>8, <1>9

\* limba_global_add_fill.
LEMMA AddFillRight ==
  ASSUME NEW mo, NEW kp, NEW d, Right(mo, kp, d), NEW g \in DOMAIN mo.globals, NEW fill
  PROVE  Right(GlobalAddFill(mo, g, fill), kp, d)
<1>1. PICK y, x : y = WithData(mo.globals[g]) /\ x = Filled(mo.globals[g], fill)
  OBVIOUS
<1>2. GlobalMade(y) /\ y.init = InitData /\ FuncRelocs(y) = FuncRelocs(mo.globals[g])
  BY <1>1, UsableHas, DataOf
<1>3. /\ "init" \in DOMAIN x /\ "data" \in DOMAIN x /\ x.init = InitData
      /\ "relocs" \in DOMAIN x.data /\ x.data.relocs = y.data.relocs
  BY <1>1, <1>2 DEF Filled, GlobalMade
<1>4. FuncRelocs(x) = FuncRelocs(y)
  BY <1>3 DEF FuncRelocs
<1>5. GlobalMade(x)
  BY <1>2, <1>3 DEF GlobalMade
<1>6. PICK n : n = [mo EXCEPT !.globals[g] = x]
  OBVIOUS
<1>7. /\ FuncRelocs(x) \subseteq FuncRelocs(mo.globals[g])
      /\ FuncRelocs(mo.globals[g]) \subseteq FuncRelocs(x)
  BY <1>2, <1>4
<1>8. Right(n, kp, d)
  BY <1>5, <1>6, <1>7, GlobalRight
<1>9. GlobalAddFill(mo, g, fill) = n
  BY <1>1, <1>6, UsableHas DEF GlobalAddFill, UsableFields
<1>. QED  BY <1>8, <1>9

\* limba_handled_touch.
LEMMA TouchRight ==
  ASSUME NEW mo, NEW kp, Usable(mo), KeptRight(mo, kp), NEW e
  PROVE  Right(Touch(mo), kp, e)
<1>1. PICK n : n = Touch(mo)
  OBVIOUS
<1>2. /\ UsableFields \subseteq DOMAIN n /\ n.funcs = mo.funcs /\ n.types = mo.types
      /\ n.globals = mo.globals /\ ~n.fresh
  BY <1>1 DEF Touch, UsableFields, Usable
<1>3. Usable(n)
  BY <1>2 DEF Usable, UsableFields, NTypes
<1>4. KeptRight(n, kp)
  BY <1>2 DEF KeptRight
<1>5. Right(n, kp, e)
  BY <1>2, <1>3, <1>4 DEF Right, CacheRight
<1>. QED  BY <1>1, <1>5

\* limba_global_add_reloc: the set is told of a function.
LEMMA AddRelocRight ==
  ASSUME NEW mo, NEW kp, NEW d, Right(mo, kp, d), NEW g \in DOMAIN mo.globals, NEW reloc
  PROVE  Right(GlobalAddReloc(mo, g, reloc), kp, d)
<1>1. PICK y, x : y = WithData(mo.globals[g]) /\ x = Relocated(mo.globals[g], reloc)
  OBVIOUS
<1>2. GlobalMade(y) /\ y.init = InitData /\ FuncRelocs(y) = FuncRelocs(mo.globals[g])
  BY <1>1, UsableHas, DataOf
<1>3. PICK s, r : s = y.data.relocs /\ r = Append(s, reloc)
  OBVIOUS
<1>4. /\ "init" \in DOMAIN x /\ "data" \in DOMAIN x /\ x.init = InitData
      /\ "relocs" \in DOMAIN x.data /\ x.data.relocs = r
  BY <1>1, <1>2, <1>3 DEF Relocated, GlobalMade
<1>5. /\ Len(s) \in Nat /\ DOMAIN s = 1 .. Len(s) /\ Sequence(r) /\ DOMAIN r = 1 .. (Len(s) + 1)
      /\ \A i \in DOMAIN s : r[i] = s[i]
      /\ r[Len(s) + 1] = reloc
  BY <1>2, <1>3, SequenceAdded DEF GlobalMade
<1>6. GlobalMade(x)
  BY <1>4, <1>5 DEF GlobalMade
<1>7. PICK n : n = [mo EXCEPT !.globals[g] = x]
  OBVIOUS
<1>8. WithReloc(mo, g, reloc) = n
  BY <1>1, <1>7, UsableHas DEF WithReloc, UsableFields
<1>9. CASE reloc.kind = RelocFunc
  <2>1. Usable(n) /\ KeptRight(n, kp)
    <3>1. PICK u, v : u = mo.globals /\ v = [u EXCEPT ![g] = x]
      OBVIOUS
    <3>2. /\ UsableFields \subseteq DOMAIN n /\ n.funcs = mo.funcs /\ n.types = mo.types
          /\ n.globals = v
      BY <1>7, <3>1, UsableHas DEF UsableFields
    <3>3. PICK k \in Nat : DOMAIN u = 1 .. k
      BY <3>1, UsableHas, SequenceIs DEF Sequence
    <3>4. DOMAIN v = 1 .. k /\ g \in 1 .. k /\ v[g] = x /\ \A i \in 1 .. k : i # g => v[i] = u[i]
      BY <3>1, <3>3
    <3>5. Sequence(v)
      <4>1. v \in [1 .. k -> ToSet(v)]
        BY <3>1, <3>3, <3>4 DEF ToSet
      <4>. QED  BY <4>1 DEF Sequence
    <3>6. \A i \in 1 .. k : GlobalMade(v[i])
      BY <1>6, <3>1, <3>3, <3>4, UsableHas
    <3>7. Usable(n)
      BY <3>2, <3>4, <3>5, <3>6 DEF Usable, UsableFields, NTypes, Right
    <3>8. KeptRight(n, kp)
      BY <3>2 DEF KeptRight, Right
    <3>. QED  BY <3>7, <3>8
  <2>2. Right(Touch(n), kp, d)
    BY <2>1, TouchRight
  <2>. QED  BY <1>8, <1>9, <2>2 DEF GlobalAddReloc
<1>10. CASE reloc.kind # RelocFunc
  <2>1. \A q : q \in ToSet(r) <=> q \in ToSet(s) \/ q = reloc
    <3>1. PICK k \in Nat : k = Len(s)
      BY <1>5
    <3>2. \A i : i \in DOMAIN r <=> i \in DOMAIN s \/ i = k + 1
      BY <1>5, <3>1
    <3>. QED  BY <1>5, <3>1, <3>2 DEF ToSet
  <2>2. FuncRelocs(x) = FuncRelocs(y)
    BY <1>3, <1>4, <1>10, <2>1 DEF FuncRelocs
  <2>3. /\ FuncRelocs(x) \subseteq FuncRelocs(mo.globals[g])
        /\ FuncRelocs(mo.globals[g]) \subseteq FuncRelocs(x)
    BY <1>2, <2>2
  <2>4. Right(n, kp, d)
    BY <1>6, <1>7, <2>3, GlobalRight
  <2>. QED  BY <1>8, <1>10, <2>4 DEF GlobalAddReloc
<1>. QED  BY <1>9, <1>10

\* x: what function f is in n; the rest is as in mo.
FuncIs(mo, n, f, x) ==
    /\ UsableFields \subseteq DOMAIN n /\ Usable(n)
    /\ DOMAIN n.funcs = DOMAIN mo.funcs /\ Len(n.funcs) = Len(mo.funcs)
    /\ n.funcs[f] = x /\ \A i \in DOMAIN mo.funcs : i # f => n.funcs[i] = mo.funcs[i]
    /\ n.types = mo.types /\ n.globals = mo.globals
    /\ n.fresh = mo.fresh /\ n.nhandled = mo.nhandled /\ n.handled = mo.handled

\* A function changed that keeps its type.
LEMMA OneFunc ==
  ASSUME NEW mo, Usable(mo), NEW f \in DOMAIN mo.funcs, NEW x, NEW n,
         n = [mo EXCEPT !.funcs[f] = x], WellMade(x), x.type = mo.funcs[f].type
  PROVE  FuncIs(mo, n, f, x)
<1>1. PICK s, r : s = mo.funcs /\ r = [s EXCEPT ![f] = x]
  OBVIOUS
<1>2. /\ UsableFields \subseteq DOMAIN n /\ n.funcs = r /\ n.types = mo.types
      /\ n.globals = mo.globals /\ n.fresh = mo.fresh /\ n.nhandled = mo.nhandled
      /\ n.handled = mo.handled
  BY <1>1 DEF UsableFields, Usable
<1>3. PICK k \in Nat : DOMAIN s = 1 .. k /\ Len(s) = k
  BY <1>1, FuncsAre
<1>4. DOMAIN r = 1 .. k /\ f \in 1 .. k /\ r[f] = x /\ \A i \in 1 .. k : i # f => r[i] = s[i]
  BY <1>1, <1>3
<1>5. r \in [1 .. k -> ToSet(r)]
  BY <1>1, <1>3, <1>4 DEF ToSet
<1>6. Sequence(r) /\ Len(r) = k
  BY <1>5 DEF Sequence
<1>7. \A i \in 1 .. k : WellMade(r[i]) /\ r[i].type \in FirstUser .. NTypes(mo)
  BY <1>1, <1>3, <1>4 DEF Usable
<1>8. Usable(n)
  BY <1>2, <1>4, <1>6, <1>7 DEF Usable, UsableFields, NTypes
<1>. QED  BY <1>1, <1>2, <1>3, <1>4, <1>6, <1>8 DEF FuncIs

\* Its summary the same, and blocks left if there were some.
LEMMA OneFuncKept ==
  ASSUME NEW mo, NEW kp, KeptRight(mo, kp), NEW f \in DOMAIN mo.funcs, NEW x, NEW n,
         FuncIs(mo, n, f, x), x.sum = mo.funcs[f].sum, x.type = mo.funcs[f].type,
         x.blocks = <<>> => mo.funcs[f].blocks = <<>>
  PROVE  KeptRight(n, kp)
<1>1. \A i \in DOMAIN mo.funcs :
          /\ n.funcs[i].sum = mo.funcs[i].sum /\ n.funcs[i].type = mo.funcs[i].type
          /\ n.funcs[i].blocks = <<>> => mo.funcs[i].blocks = <<>>
  BY DEF FuncIs
<1>2. DOMAIN n.funcs = DOMAIN mo.funcs
  BY DEF FuncIs
<1>. QED  BY <1>1, <1>2 DEF KeptRight

\* What it shows.
LEMMA OneFuncShows ==
  ASSUME NEW mo, NEW f \in DOMAIN mo.funcs, NEW x, NEW n,
         FuncIs(mo, n, f, x), x.type = mo.funcs[f].type
  PROVE  /\ Less(Sum(x), Sum(mo.funcs[f])) => ShowsNoMore(n, mo)
         /\ Less(Sum(mo.funcs[f]), Sum(x)) => ShowsNoMore(mo, n)
<1>1. \A t : BodyType(n, t) <=> BodyType(mo, t)
  BY DEF BodyType, NTypes, FuncIs
<1>2. /\ DOMAIN n.funcs = DOMAIN mo.funcs
      /\ \A i \in DOMAIN mo.funcs : n.funcs[i].type = mo.funcs[i].type
  BY DEF FuncIs
<1>3. SameTypes(n, mo) /\ SameTypes(mo, n)
  BY <1>1, <1>2 DEF SameTypes
<1>4. RelocsOf(n) = RelocsOf(mo)
  BY DEF RelocsOf, FuncIs
<1>5. \A i \in DOMAIN mo.funcs : i # f => n.funcs[i] = mo.funcs[i] /\ n.funcs[f] = x
  BY DEF FuncIs
<1>6. \A s : Less(s, s)
  BY DEF Less
<1>7. Less(Sum(x), Sum(mo.funcs[f])) =>
          \A i \in DOMAIN mo.funcs : Less(Sum(n.funcs[i]), Sum(mo.funcs[i]))
  BY <1>5, <1>6 DEF FuncIs
<1>8. Less(Sum(mo.funcs[f]), Sum(x)) =>
          \A i \in DOMAIN mo.funcs : Less(Sum(mo.funcs[i]), Sum(n.funcs[i]))
  BY <1>5, <1>6 DEF FuncIs
<1>. QED  BY <1>2, <1>3, <1>4, <1>7, <1>8 DEF ShowsNoMore

\* x: what was fn; what it keeps, and what it shows
BodyKept(fn, x) ==
    /\ WellMade(x) /\ x.type = fn.type /\ x.sum = fn.sum
    /\ x.blocks = <<>> => fn.blocks = <<>>
\* x shows no more than fn did, and as much unless something was dropped.
ShownSo(fn, x, d, e) ==
    Less(Sum(x), Sum(fn)) /\ (e \/ Less(Sum(fn), Sum(x))) /\ (d => e)

\* A function changed that shows no more, and no less unless that is told.
LEMMA OneFuncRight ==
  ASSUME NEW mo, NEW kp, NEW d, Right(mo, kp, d), NEW f \in DOMAIN mo.funcs,
         NEW x, BodyKept(mo.funcs[f], x), NEW n, n = [mo EXCEPT !.funcs[f] = x],
         NEW e, ShownSo(mo.funcs[f], x, d, e)
  PROVE  Right(n, kp, e)
<1>1. FuncIs(mo, n, f, x)
  BY OneFunc DEF Right, BodyKept
<1>2. Usable(n) /\ KeptRight(n, kp) /\ SameCache(mo, n)
  BY <1>1, OneFuncKept DEF FuncIs, SameCache, Right, BodyKept
<1>3. ShowsNoMore(n, mo) /\ (e \/ ShowsNoMore(mo, n))
  BY <1>1, OneFuncShows DEF BodyKept, ShownSo
<1>. QED  BY <1>2, <1>3, StillRight DEF ShownSo

\* A function changed in a way that is told.
LEMMA OneFuncTold ==
  ASSUME NEW mo, NEW kp, NEW d, Right(mo, kp, d), NEW f \in DOMAIN mo.funcs,
         NEW x, BodyKept(mo.funcs[f], x), NEW n, n = [mo EXCEPT !.funcs[f] = x], NEW e
  PROVE  Right(Touch(n), kp, e)
<1>1. FuncIs(mo, n, f, x)
  BY OneFunc DEF Right, BodyKept
<1>2. Usable(n) /\ KeptRight(n, kp)
  BY <1>1, OneFuncKept DEF FuncIs, Right, BodyKept
<1>. QED  BY <1>2, TouchRight

-----------------------------------------------------------------------------
(* What a body shows after a call                                          *)

\* The instructions of a body.
LEMMA InstsAre ==
  ASSUME NEW f, NEW v
  PROVE  v \in Insts(f) <=>
           \E c \in DOMAIN f.blocks : \E j \in DOMAIN f.blocks[c].insts :
               v = f.insts[f.blocks[c].insts[j]]
<1>. DEFINE X == UNION {ToSet(f.blocks[c].insts) : c \in DOMAIN f.blocks}
<1>1. \A i : i \in X <=> \E c \in DOMAIN f.blocks : \E j \in DOMAIN f.blocks[c].insts :
                           i = f.blocks[c].insts[j]
  BY DEF ToSet
<1>. HIDE DEF X
<1>2. v \in {f.insts[i] : i \in X} <=> \E i \in X : v = f.insts[i]
  OBVIOUS
<1>3. Insts(f) = {f.insts[i] : i \in X}
  BY DEF Insts, X
<1>. QED  BY <1>1, <1>2, <1>3

\* A body whose handlers, calls and bodies of par_for are another's.
LEMMA ShownLess ==
  ASSUME NEW x, NEW y, Protects(x) => Protects(y),
         \A op \in Watched : Imm(x, op) \subseteq Imm(y, op), Bodies(x) \subseteq Bodies(y)
  PROVE  Less(Summarise(x), Summarise(y))
<1>1. /\ Imm(x, "call") \subseteq Imm(y, "call") /\ Imm(x, "faddr") \subseteq Imm(y, "faddr")
      /\ Imm(x, "call.ind") \subseteq Imm(y, "call.ind")
  BY DEF Watched
<1>. QED  BY <1>1, SummarySays DEF Less

\* Instructions and handlers the same.
LEMMA ShownSame ==
  ASSUME NEW x, NEW y, x.insts = y.insts, Insts(x) = Insts(y), Protects(x) <=> Protects(y)
  PROVE  Less(Summarise(x), Summarise(y)) /\ Less(Summarise(y), Summarise(x))
<1>1. \A op : Imm(x, op) = Imm(y, op)
  BY DEF Imm
<1>2. \A in : BodyOf(x, in) = BodyOf(y, in)
  BY DEF BodyOf
<1>3. Bodies(x) = Bodies(y)
  BY <1>2 DEF Bodies
<1>. QED  BY <1>1, <1>3, ShownLess

\* The blocks, the instructions and the summary the same.
LEMMA SumSame ==
  ASSUME NEW x, NEW y, x.insts = y.insts, x.blocks = y.blocks, x.sum = y.sum
  PROVE  Less(Sum(x), Sum(y)) /\ Less(Sum(y), Sum(x))
<1>1. CASE x.blocks = <<>> /\ x.sum.noted
  BY <1>1 DEF Sum, Less
<1>2. CASE ~(x.blocks = <<>> /\ x.sum.noted)
  <2>1. Insts(x) = Insts(y) /\ (Protects(x) <=> Protects(y))
    BY DEF Insts, Protects
  <2>2. Less(Summarise(x), Summarise(y)) /\ Less(Summarise(y), Summarise(x))
    BY <2>1, ShownSame
  <2>. QED  BY <1>2, <2>2 DEF Sum
<1>. QED  BY <1>1, <1>2

\* limba_slot_add.
LEMMA SlotAddRight ==
  ASSUME NEW mo, NEW kp, NEW d, Right(mo, kp, d), NEW f \in DOMAIN mo.funcs, NEW slot
  PROVE  Right(SlotAdd(mo, f, slot), kp, d)
<1>1. PICK fn, x : fn = mo.funcs[f] /\ x = [fn EXCEPT !.slots = Append(@, slot)]
  OBVIOUS
<1>2. WellMade(fn)
  BY <1>1, UsableHas
<1>3. /\ {"type", "blocks", "insts", "sum"} \subseteq DOMAIN x /\ x.type = fn.type
      /\ x.blocks = fn.blocks /\ x.insts = fn.insts /\ x.sum = fn.sum
  BY <1>1, <1>2 DEF WellMade
<1>4. WellMade(x)
  BY <1>2, <1>3 DEF WellMade
<1>5. Less(Sum(x), Sum(fn)) /\ Less(Sum(fn), Sum(x))
  BY <1>3, SumSame
<1>6. PICK n : n = [mo EXCEPT !.funcs[f] = x]
  OBVIOUS
<1>7. Right(n, kp, d)
  <2>1. BodyKept(fn, x) /\ ShownSo(fn, x, d, d)
    BY <1>3, <1>4, <1>5 DEF BodyKept, ShownSo
  <2>. QED  BY <1>1, <1>6, <2>1, OneFuncRight
<1>8. SlotAdd(mo, f, slot) = n
  BY <1>1, <1>6, UsableHas DEF SlotAdd, UsableFields
<1>. QED  BY <1>7, <1>8

\* limba_pos_add.
LEMMA PosRight ==
  ASSUME NEW mo, NEW kp, NEW d, Right(mo, kp, d), NEW p
  PROVE  Right(PosAdd(mo, p), kp, d)
<1>1. PICK n : n = PosAdd(mo, p)
  OBVIOUS
<1>2. /\ UsableFields \subseteq DOMAIN n /\ n.funcs = mo.funcs /\ n.types = mo.types
      /\ n.globals = mo.globals /\ n.fresh = mo.fresh /\ n.nhandled = mo.nhandled
      /\ n.handled = mo.handled
  BY <1>1, UsableHas DEF PosAdd, UsableFields
<1>3. TypesStay(mo, n) /\ RelocsOf(n) = RelocsOf(mo)
  BY <1>2 DEF TypesStay, RelocsOf
<1>4. GlobalsMade(n) /\ Followed(mo, n, d, d)
  BY <1>2, <1>3, UsableHas DEF GlobalsMade, Followed
<1>. QED  BY <1>1, <1>2, <1>3, <1>4, FuncsStay

\* A position given to the instructions that follow.
LEMMA SetPosRight ==
  ASSUME NEW mo, NEW kp, NEW d, Right(mo, kp, d), NEW f \in DOMAIN mo.funcs, NEW p
  PROVE  Right([PosAdd(mo, p) EXCEPT !.funcs[f].pos_cur = Len(PosAdd(mo, p).pos)], kp, d)
<1>1. PICK q : q = PosAdd(mo, p)
  OBVIOUS
<1>2. Right(q, kp, d) /\ q.funcs = mo.funcs
  BY <1>1, PosRight, UsableHas DEF PosAdd, UsableFields
<1>3. PICK fn, x : fn = q.funcs[f] /\ x = [fn EXCEPT !.pos_cur = Len(q.pos)]
  OBVIOUS
<1>4. WellMade(fn) /\ f \in DOMAIN q.funcs
  BY <1>2, <1>3, UsableHas
<1>5. /\ {"type", "blocks", "insts", "sum"} \subseteq DOMAIN x /\ x.type = fn.type
      /\ x.blocks = fn.blocks /\ x.insts = fn.insts /\ x.sum = fn.sum
  BY <1>3, <1>4 DEF WellMade
<1>6. WellMade(x)
  BY <1>4, <1>5 DEF WellMade
<1>7. Less(Sum(x), Sum(fn)) /\ Less(Sum(fn), Sum(x))
  BY <1>5, SumSame
<1>8. PICK n : n = [q EXCEPT !.funcs[f] = x]
  OBVIOUS
<1>9. Right(n, kp, d)
  <2>1. BodyKept(fn, x) /\ ShownSo(fn, x, d, d)
    BY <1>5, <1>6, <1>7 DEF BodyKept, ShownSo
  <2>. QED  BY <1>2, <1>3, <1>4, <1>8, <2>1, OneFuncRight
<1>10. [q EXCEPT !.funcs[f].pos_cur = Len(q.pos)] = n
  BY <1>2, <1>3, <1>8, UsableHas DEF UsableFields
<1>. QED  BY <1>1, <1>9, <1>10

\* limba_block_add: the set is not told, and in a body that was freed the
\* summary no longer counts.
LEMMA BlockAddRight ==
  ASSUME NEW mo, NEW kp, NEW d, Right(mo, kp, d), NEW f \in DOMAIN mo.funcs,
         NEW e, d => e, DOMAIN mo.funcs[f].blocks = {} /\ f \in DOMAIN kp => e
  PROVE  Right(BlockAdd(mo, f), kp, e)
<1>1. PICK fn, s, x : /\ fn = mo.funcs[f] /\ s = fn.blocks
                      /\ x = [fn EXCEPT !.blocks = Append(@, NoBlock)]
  OBVIOUS
<1>2. WellMade(fn) /\ Sequence(s)
  BY <1>1, UsableHas DEF WellMade
<1>3. PICK k \in Nat :
        /\ k = Len(s) /\ DOMAIN s = 1 .. k
        /\ Sequence(Append(s, NoBlock)) /\ DOMAIN Append(s, NoBlock) = 1 .. (k + 1)
        /\ \A i \in 1 .. k : Append(s, NoBlock)[i] = s[i]
        /\ Append(s, NoBlock)[k + 1] = NoBlock
  BY <1>2, SequenceAdded
<1>4. /\ {"type", "blocks", "insts", "sum"} \subseteq DOMAIN x /\ x.type = fn.type
      /\ x.blocks = Append(s, NoBlock) /\ x.insts = fn.insts /\ x.sum = fn.sum
  BY <1>1, <1>2 DEF WellMade
<1>5. /\ {"insts", "handler"} \subseteq DOMAIN NoBlock
      /\ NoBlock.insts = <<>> /\ NoBlock.handler = 0
      /\ Sequence(<<>>) /\ DOMAIN <<>> = {} /\ ToSet(<<>>) = {}
  BY DEF NoBlock, Sequence, ToSet
<1>6. \A b : b \in DOMAIN x.blocks <=> b \in DOMAIN s \/ b = k + 1
  BY <1>3, <1>4
<1>7. WellMade(x)
  <2>1. ASSUME NEW b \in DOMAIN x.blocks
        PROVE  /\ {"insts", "handler"} \subseteq DOMAIN x.blocks[b]
               /\ Sequence(x.blocks[b].insts)
               /\ ToSet(x.blocks[b].insts) \subseteq DOMAIN x.insts
    <3>1. CASE b \in DOMAIN s
      BY <1>1, <1>2, <1>3, <1>4, <3>1 DEF WellMade
    <3>2. CASE b = k + 1
      BY <1>3, <1>4, <1>5, <3>2
    <3>. QED  BY <1>6, <3>1, <3>2
  <2>2. Sequence(x.blocks)
    BY <1>3, <1>4
  <2>. QED  BY <1>2, <1>4, <2>1, <2>2 DEF WellMade
<1>8. Insts(x) = Insts(fn)
  <2>1. ASSUME NEW v PROVE v \in Insts(x) <=> v \in Insts(fn)
    <3>1. (\E c \in DOMAIN x.blocks : \E j \in DOMAIN x.blocks[c].insts :
               v = x.insts[x.blocks[c].insts[j]])
          <=> \E c \in DOMAIN s : \E j \in DOMAIN s[c].insts : v = fn.insts[s[c].insts[j]]
      BY <1>3, <1>4, <1>5, <1>6
    <3>2. v \in Insts(x) <=> \E c \in DOMAIN x.blocks : \E j \in DOMAIN x.blocks[c].insts :
                               v = x.insts[x.blocks[c].insts[j]]
      BY InstsAre
    <3>3. v \in Insts(fn) <=> \E c \in DOMAIN fn.blocks : \E j \in DOMAIN fn.blocks[c].insts :
                                v = fn.insts[fn.blocks[c].insts[j]]
      BY InstsAre
    <3>. QED  BY <1>1, <3>1, <3>2, <3>3
  <2>. QED  BY <2>1
<1>9. Protects(x) <=> Protects(fn)
  BY <1>1, <1>3, <1>4, <1>5, <1>6 DEF Protects
<1>10. Less(Summarise(x), Summarise(fn)) /\ Less(Summarise(fn), Summarise(x))
  BY <1>4, <1>8, <1>9, ShownSame
<1>11. x.blocks # <<>> /\ Sum(x) = Summarise(x)
  <2>1. k + 1 \in DOMAIN x.blocks
    BY <1>6
  <2>2. x.blocks # <<>>
    BY <1>5, <2>1
  <2>. QED  BY <2>2 DEF Sum
<1>12. Less(Sum(x), Sum(fn)) /\ (e \/ Less(Sum(fn), Sum(x)))
  <2>1. CASE s = <<>> /\ fn.sum.noted
    <3>1. e
      BY <1>1, <1>5, <2>1 DEF Right, KeptRight
    <3>2. \A v : v \notin Insts(x)
      BY <1>1, <1>5, <1>8, <2>1, InstsAre
    <3>3. ~Protects(x)
      BY <1>1, <1>5, <1>9, <2>1 DEF Protects
    <3>4. /\ \A op : Imm(x, op) = {}
          /\ Bodies(x) = {}
      BY <3>2 DEF Imm, Bodies
    <3>5. Less(Sum(x), Sum(fn))
      BY <1>11, <3>3, <3>4, SummarySays DEF Less
    <3>. QED  BY <3>1, <3>5
  <2>2. CASE ~(s = <<>> /\ fn.sum.noted)
    <3>1. Sum(fn) = Summarise(fn)
      BY <1>1, <2>2 DEF Sum
    <3>. QED  BY <1>10, <1>11, <3>1
  <2>. QED  BY <2>1, <2>2
<1>13. PICK n : n = [mo EXCEPT !.funcs[f] = x]
  OBVIOUS
<1>14. Right(n, kp, e)
  <2>1. BodyKept(fn, x) /\ ShownSo(fn, x, d, e)
    BY <1>4, <1>7, <1>11, <1>12 DEF BodyKept, ShownSo
  <2>. QED  BY <1>1, <1>13, <2>1, OneFuncRight
<1>15. BlockAdd(mo, f) = n
  BY <1>1, <1>13, UsableHas DEF BlockAdd, UsableFields
<1>. QED  BY <1>14, <1>15

\* limba_block_set_handler.
LEMMA SetHandlerRight ==
  ASSUME NEW mo, NEW kp, NEW d, Right(mo, kp, d), NEW f \in DOMAIN mo.funcs,
         NEW b \in DOMAIN mo.funcs[f].blocks, NEW h
  PROVE  Right(SetHandler(mo, f, b, h), kp, d)
<1>1. PICK fn, s, r, x : /\ fn = mo.funcs[f] /\ s = fn.blocks
                         /\ r = [s EXCEPT ![b].handler = h]
                         /\ x = [fn EXCEPT !.blocks = r]
  OBVIOUS
<1>2. WellMade(fn) /\ Sequence(s)
  BY <1>1, UsableHas DEF WellMade
<1>3. PICK k \in Nat : DOMAIN s = 1 .. k
  BY <1>2, SequenceIs DEF Sequence
<1>4. DOMAIN r = 1 .. k /\ b \in 1 .. k /\ r \in [1 .. k -> ToSet(r)]
  BY <1>1, <1>3 DEF ToSet
<1>5. Sequence(r)
  BY <1>4 DEF Sequence
<1>6. /\ {"type", "blocks", "insts", "sum"} \subseteq DOMAIN x /\ x.type = fn.type
      /\ x.blocks = r /\ x.insts = fn.insts /\ x.sum = fn.sum
  BY <1>1, <1>2 DEF WellMade
<1>7. \A c \in 1 .. k : {"insts", "handler"} \subseteq DOMAIN r[c] /\ r[c].insts = s[c].insts
  <2>1. \A c \in 1 .. k : {"insts", "handler"} \subseteq DOMAIN s[c]
    BY <1>1, <1>2, <1>3 DEF WellMade
  <2>. QED  BY <1>1, <1>3, <2>1
<1>8. WellMade(x)
  BY <1>1, <1>2, <1>3, <1>4, <1>5, <1>6, <1>7 DEF WellMade
<1>9. x.blocks # <<>>
  BY <1>4, <1>6
<1>10. PICK n : n = [mo EXCEPT !.funcs[f] = x]
  OBVIOUS
<1>11. Right(Touch(n), kp, d)
  <2>1. BodyKept(fn, x)
    BY <1>6, <1>8, <1>9 DEF BodyKept
  <2>. QED  BY <1>1, <1>10, <2>1, OneFuncTold
<1>12. SetHandler(mo, f, b, h) = Touch(n)
  <2>1. "funcs" \in DOMAIN mo /\ "blocks" \in DOMAIN fn
    BY <1>2, UsableHas DEF UsableFields, WellMade
  <2>2. x = [fn EXCEPT !.blocks[b].handler = h]
    BY <1>1, <2>1
  <2>. QED  BY <1>1, <1>10, <2>1, <2>2 DEF SetHandler
<1>. QED  BY <1>11, <1>12

\* An instruction put at the end of a block.
LEMMA InstMade ==
  ASSUME NEW fn, WellMade(fn), NEW b \in DOMAIN fn.blocks,
         NEW in, IsParFor(in) => in.ops[1] \in Nat
  PROVE  LET x == WithInst(WithLoc(fn), b, in)
         IN  /\ WellMade(x) /\ x.type = fn.type /\ x.sum = fn.sum /\ x.blocks # <<>>
             /\ in.op \notin Watched =>
                  Less(Summarise(x), Summarise(fn)) /\ Less(Summarise(fn), Summarise(x))
<1>1. PICK y : y = WithLoc(fn)
  OBVIOUS
<1>2. /\ {"type", "blocks", "insts", "sum"} \subseteq DOMAIN y /\ y.type = fn.type
      /\ y.blocks = fn.blocks /\ y.insts = fn.insts /\ y.sum = fn.sum
  BY <1>1 DEF WithLoc, WellMade
<1>3. PICK s, k, bl, r, t : /\ s = fn.insts /\ k = Len(s) /\ t = Append(s, in)
                            /\ bl = InBlock(fn.blocks[b], in, k + 1)
                            /\ r = [fn.blocks EXCEPT ![b] = bl]
  OBVIOUS
<1>4. PICK x : x = WithInst(y, b, in)
  OBVIOUS
<1>5. /\ {"type", "blocks", "insts", "sum"} \subseteq DOMAIN x /\ x.type = fn.type
      /\ x.blocks = r /\ x.insts = t /\ x.sum = fn.sum
  BY <1>2, <1>3, <1>4 DEF WithInst
<1>6. /\ k \in Nat /\ DOMAIN s = 1 .. k /\ Sequence(t) /\ DOMAIN t = 1 .. (k + 1)
      /\ \A i \in 1 .. k : t[i] = s[i]
      /\ t[k + 1] = in /\ Len(t) = k + 1
  <2>1. Sequence(s)
    BY <1>3 DEF WellMade
  <2>2. /\ Len(s) \in Nat /\ DOMAIN s = 1 .. Len(s)
        /\ Sequence(Append(s, in)) /\ DOMAIN Append(s, in) = 1 .. (Len(s) + 1)
        /\ \A i \in DOMAIN s : Append(s, in)[i] = s[i]
        /\ Append(s, in)[Len(s) + 1] = in
    BY <2>1, SequenceAdded
  <2>3. Len(t) = Len(s) + 1
    BY <1>3, <2>2
  <2>. QED  BY <1>3, <2>2, <2>3
<1>7. PICK u, v : u = fn.blocks[b].insts /\ v = Append(u, k + 1)
  OBVIOUS
<1>8. {"insts", "handler"} \subseteq DOMAIN fn.blocks[b] /\ Sequence(u) /\ ToSet(u) \subseteq 1 .. k
  BY <1>3, <1>6, <1>7 DEF WellMade
<1>9. /\ {"insts", "handler"} \subseteq DOMAIN bl
      /\ bl.insts = v /\ bl.handler = fn.blocks[b].handler
  BY <1>3, <1>7, <1>8 DEF InBlock
<1>10. PICK l \in Nat :
         /\ DOMAIN u = 1 .. l /\ Sequence(v) /\ DOMAIN v = 1 .. (l + 1)
         /\ \A i \in 1 .. l : v[i] = u[i]
         /\ v[l + 1] = k + 1
  BY <1>7, <1>8, SequenceAdded
<1>11. /\ DOMAIN r = DOMAIN fn.blocks /\ r[b] = bl
       /\ \A c \in DOMAIN fn.blocks : c # b => r[c] = fn.blocks[c]
  BY <1>3
<1>12. Sequence(r)
  <2>1. PICK a \in Nat : DOMAIN fn.blocks = 1 .. a
    BY SequenceIs DEF WellMade, Sequence
  <2>2. r \in [1 .. a -> ToSet(r)]
    BY <1>3, <1>11, <2>1 DEF ToSet
  <2>. QED  BY <2>2 DEF Sequence
<1>13. ToSet(v) \subseteq 1 .. (k + 1)
  <2>1. ASSUME NEW i \in 1 .. (l + 1) PROVE v[i] \in 1 .. (k + 1)
    <3>1. i \in 1 .. l => v[i] = u[i] /\ u[i] \in 1 .. k
      BY <1>8, <1>10 DEF ToSet
    <3>2. k + 1 \in 1 .. (k + 1) /\ 1 .. k \subseteq 1 .. (k + 1)
      BY <1>6
    <3>. QED  BY <1>10, <3>1, <3>2
  <2>. QED  BY <1>10, <2>1 DEF ToSet
<1>14. WellMade(x)
  <2>1. ASSUME NEW c \in DOMAIN r
        PROVE  /\ {"insts", "handler"} \subseteq DOMAIN r[c] /\ Sequence(r[c].insts)
               /\ ToSet(r[c].insts) \subseteq 1 .. (k + 1)
    <3>1. c # b => /\ {"insts", "handler"} \subseteq DOMAIN r[c] /\ Sequence(r[c].insts)
                   /\ ToSet(r[c].insts) \subseteq 1 .. k
      BY <1>3, <1>6, <1>11 DEF WellMade
    <3>2. 1 .. k \subseteq 1 .. (k + 1)
      BY <1>6
    <3>. QED  BY <1>9, <1>10, <1>11, <1>13, <3>1, <3>2
  <2>2. ASSUME NEW i \in 1 .. (k + 1), IsParFor(t[i]) PROVE t[i].ops[1] \in Nat
    <3>1. i \in 1 .. k => t[i] = fn.insts[i] /\ i \in DOMAIN fn.insts
      BY <1>3, <1>6
    <3>2. i = k + 1 \/ i \in 1 .. k
      BY <1>6
    <3>. QED  BY <1>6, <2>2, <3>1, <3>2 DEF WellMade
  <2>. QED  BY <1>5, <1>6, <1>12, <2>1, <2>2 DEF WellMade
<1>15. x.blocks # <<>>
  BY <1>5, <1>11
<1>16. ASSUME NEW w PROVE w \in Insts(x) <=> w \in Insts(fn) \/ w = in
  <2>1. w \in Insts(x) <=> \E c \in DOMAIN r : \E j \in DOMAIN r[c].insts : w = t[r[c].insts[j]]
    BY <1>5, InstsAre
  <2>2. w \in Insts(fn) <=> \E c \in DOMAIN r : \E j \in DOMAIN fn.blocks[c].insts :
                              w = s[fn.blocks[c].insts[j]]
    BY <1>3, <1>11, InstsAre
  <2>3. ASSUME NEW c \in DOMAIN r, NEW j \in DOMAIN fn.blocks[c].insts
        PROVE  /\ j \in DOMAIN r[c].insts
               /\ t[r[c].insts[j]] = s[fn.blocks[c].insts[j]]
    <3>1. fn.blocks[c].insts[j] \in 1 .. k
      BY <1>3, <1>6, <1>11 DEF WellMade, ToSet
    <3>2. r[c].insts[j] = fn.blocks[c].insts[j] /\ j \in DOMAIN r[c].insts
      <4>1. CASE c # b
        BY <1>11, <4>1
      <4>2. CASE c = b
        <5>1. j \in 1 .. l /\ j \in 1 .. (l + 1)
          BY <1>7, <1>10, <4>2
        <5>. QED  BY <1>7, <1>9, <1>10, <1>11, <4>2, <5>1
      <4>. QED  BY <4>1, <4>2
    <3>. QED  BY <1>6, <3>1, <3>2
  <2>4. ASSUME NEW c \in DOMAIN r, NEW j \in DOMAIN r[c].insts
        PROVE  j \in DOMAIN fn.blocks[c].insts \/ t[r[c].insts[j]] = in
    <3>1. CASE c # b
      BY <1>11, <3>1
    <3>2. CASE c = b
      <4>1. j \in 1 .. l \/ j = l + 1
        BY <1>9, <1>10, <1>11, <3>2
      <4>. QED  BY <1>6, <1>7, <1>9, <1>10, <1>11, <3>2, <4>1
    <3>. QED  BY <3>1, <3>2
  <2>5. in \in Insts(x)
    <3>1. b \in DOMAIN r /\ l + 1 \in DOMAIN r[b].insts /\ t[r[b].insts[l + 1]] = in
      BY <1>6, <1>9, <1>10, <1>11
    <3>2. \E c \in DOMAIN r : \E j \in DOMAIN r[c].insts : in = t[r[c].insts[j]]
      BY <3>1
    <3>. QED  BY <1>5, <3>2, InstsAre
  <2>6. w \in Insts(x) => w \in Insts(fn) \/ w = in
    BY <2>1, <2>2, <2>3, <2>4
  <2>7. w \in Insts(fn) => w \in Insts(x)
    BY <2>1, <2>2, <2>3
  <2>. QED  BY <2>5, <2>6, <2>7
<1>17. ASSUME in.op \notin Watched
       PROVE  Less(Summarise(x), Summarise(fn)) /\ Less(Summarise(fn), Summarise(x))
  <2>1. Protects(x) <=> Protects(fn)
    BY <1>5, <1>9, <1>11 DEF Protects
  <2>2. ASSUME NEW op \in Watched PROVE Imm(x, op) = Imm(fn, op)
    BY <1>16, <1>17 DEF Imm
  <2>3. ~IsParFor(in)
    BY <1>17 DEF IsParFor, Watched
  <2>4. ASSUME NEW w \in Insts(fn), IsParFor(w) PROVE BodyOf(x, w) = BodyOf(fn, w)
    <3>1. w.ops[1] \in Nat
      <4>1. \E c \in DOMAIN fn.blocks : \E j \in DOMAIN fn.blocks[c].insts :
              w = fn.insts[fn.blocks[c].insts[j]]
        BY InstsAre
      <4>2. PICK c \in DOMAIN fn.blocks : \E j \in DOMAIN fn.blocks[c].insts :
              w = fn.insts[fn.blocks[c].insts[j]]
        BY <4>1
      <4>3. PICK j \in DOMAIN fn.blocks[c].insts : w = fn.insts[fn.blocks[c].insts[j]]
        BY <4>2
      <4>4. fn.blocks[c].insts[j] \in DOMAIN fn.insts
        BY DEF WellMade, ToSet
      <4>. QED  BY <2>4, <4>3, <4>4 DEF WellMade
    <3>2. PICK a \in Nat : a = w.ops[1]
      BY <3>1
    <3>3. BodyOf(x, w) = IF a < k + 1 /\ t[a + 1].op = "faddr" THEN t[a + 1].imm ELSE 0
      BY <1>5, <1>6, <3>2 DEF BodyOf
    <3>4. BodyOf(fn, w) = IF a < k /\ s[a + 1].op = "faddr" THEN s[a + 1].imm ELSE 0
      BY <1>3, <3>2 DEF BodyOf
    <3>5. a < k => a + 1 \in 1 .. k /\ t[a + 1] = s[a + 1] /\ a < k + 1
      BY <1>6
    <3>6. a >= k => (a < k + 1 => a + 1 = k + 1 /\ t[a + 1].op # "faddr")
      BY <1>6, <1>17 DEF Watched
    <3>. QED  BY <1>6, <3>3, <3>4, <3>5, <3>6
  <2>5. Bodies(x) = Bodies(fn)
    BY <1>16, <2>3, <2>4 DEF Bodies
  <2>. QED  BY <2>1, <2>2, <2>5, ShownLess
<1>. QED  BY <1>1, <1>4, <1>5, <1>14, <1>15, <1>17

\* limba_inst_add: the set is told of a call and of an address taken.
LEMMA InstAddRight ==
  ASSUME NEW mo, NEW kp, NEW d, Right(mo, kp, d), NEW f \in DOMAIN mo.funcs,
         NEW b \in DOMAIN mo.funcs[f].blocks, NEW in, IsParFor(in) => in.ops[1] \in Nat
  PROVE  Right(InstAdd(mo, f, b, in), kp, d)
<1>1. PICK fn, x : fn = mo.funcs[f] /\ x = WithInst(WithLoc(fn), b, in)
  OBVIOUS
<1>2. WellMade(fn)
  BY <1>1, UsableHas
<1>3. /\ WellMade(x) /\ x.type = fn.type /\ x.sum = fn.sum /\ x.blocks # <<>>
      /\ in.op \notin Watched =>
           Less(Summarise(x), Summarise(fn)) /\ Less(Summarise(fn), Summarise(x))
  BY <1>1, <1>2, InstMade
<1>4. PICK n : n = [mo EXCEPT !.funcs[f] = x]
  OBVIOUS
<1>5. BodyKept(fn, x)
  BY <1>3 DEF BodyKept
<1>6. InstAdd(mo, f, b, in) = IF in.op \in Watched THEN Touch(n) ELSE n
  BY <1>1, <1>4, UsableHas DEF InstAdd, UsableFields
<1>7. CASE in.op \in Watched
  <2>1. Right(Touch(n), kp, d)
    BY <1>1, <1>4, <1>5, OneFuncTold
  <2>. QED  BY <1>6, <1>7, <2>1
<1>8. CASE in.op \notin Watched
  <2>1. fn.blocks # <<>>
    BY <1>1
  <2>2. Sum(x) = Summarise(x) /\ Sum(fn) = Summarise(fn)
    BY <1>3, <2>1 DEF Sum
  <2>3. ShownSo(fn, x, d, d)
    BY <1>3, <1>8, <2>2 DEF ShownSo
  <2>4. Right(n, kp, d)
    BY <1>1, <1>4, <1>5, <2>3, OneFuncRight
  <2>. QED  BY <1>6, <1>8, <2>4
<1>. QED  BY <1>7, <1>8

\* limba_func_clear: a summary is kept of a body that is freed.
LEMMA ClearRight ==
  ASSUME NEW mo, NEW kp, NEW d, Right(mo, kp, d), NEW f \in DOMAIN mo.funcs
  PROVE  Right(FuncClear(mo, f),
               IF DOMAIN mo.funcs[f].blocks = {} THEN kp
               ELSE [g \in DOMAIN kp \cup {f} |-> IF g = f THEN mo.funcs[f] ELSE kp[g]], d)
<1>1. PICK fn, y, x : fn = mo.funcs[f] /\ y = Summary(fn) /\ x = Cleared(y)
  OBVIOUS
<1>2. WellMade(fn)
  BY <1>1, UsableHas
<1>3. /\ {"type", "blocks", "insts", "sum"} \subseteq DOMAIN y /\ y.type = fn.type
      /\ y.sum = IF fn.blocks = <<>> THEN fn.sum ELSE Summarise(fn)
  BY <1>1, <1>2 DEF Summary, WellMade
<1>4. /\ {"type", "blocks", "insts", "sum"} \subseteq DOMAIN x /\ x.type = fn.type
      /\ x.blocks = <<>> /\ x.insts = <<>> /\ x.sum = y.sum
  BY <1>1, <1>3 DEF Cleared
<1>5. WellMade(x)
  <2>1. Sequence(<<>>) /\ DOMAIN <<>> = {}
    BY DEF Sequence
  <2>. QED  BY <1>4, <2>1 DEF WellMade
<1>6. PICK n : n = [mo EXCEPT !.funcs[f] = x]
  OBVIOUS
<1>7. FuncClear(mo, f) = Touch(n)
  BY <1>1, <1>6, UsableHas DEF FuncClear, UsableFields
<1>8. CASE DOMAIN fn.blocks = {}
  <2>1. fn.blocks = <<>>
    BY <1>2, <1>8, NoneIsEmpty DEF WellMade
  <2>2. BodyKept(fn, x)
    BY <1>3, <1>4, <1>5, <2>1 DEF BodyKept
  <2>3. Right(Touch(n), kp, d)
    BY <1>1, <1>6, <2>2, OneFuncTold
  <2>. QED  BY <1>1, <1>7, <1>8, <2>3
<1>9. CASE DOMAIN fn.blocks # {}
  <2>1. fn.blocks # <<>>
    BY <1>9
  <2>2. PICK kq : kq = [g \in DOMAIN kp \cup {f} |-> IF g = f THEN fn ELSE kp[g]]
    OBVIOUS
  <2>3. /\ DOMAIN kq = {f} \cup DOMAIN kp /\ kq[f] = fn
        /\ \A i \in DOMAIN kp : i # f => kq[i] = kp[i]
    BY <2>2
  <2>4. FuncIs(mo, n, f, x)
    BY <1>1, <1>4, <1>5, <1>6, OneFunc DEF Right
  <2>5. x.sum = Summarise(fn) /\ x.sum.noted
    BY <1>3, <1>4, <2>1 DEF Summarise
  <2>6. /\ DOMAIN n.funcs = DOMAIN mo.funcs /\ n.funcs[f] = x
        /\ \A i \in DOMAIN mo.funcs : i # f => n.funcs[i] = mo.funcs[i]
    BY <2>4 DEF FuncIs
  <2>7. KeptRight(n, kq)
    <3>1. KeptRight(mo, kp)
      BY DEF Right
    <3>2. DOMAIN kq \subseteq DOMAIN n.funcs
      BY <2>3, <2>6, <3>1 DEF KeptRight
    <3>3. ASSUME NEW i \in DOMAIN n.funcs, i \notin DOMAIN kq PROVE ~n.funcs[i].sum.noted
      BY <2>3, <2>6, <3>1, <3>3 DEF KeptRight
    <3>4. ASSUME NEW i \in DOMAIN kq
          PROVE  /\ {"type", "blocks", "insts"} \subseteq DOMAIN kq[i]
                 /\ kq[i].type = n.funcs[i].type
                 /\ n.funcs[i].sum.noted
                 /\ n.funcs[i].blocks = <<>> => n.funcs[i].sum = Summarise(kq[i])
      <4>1. CASE i = f
        BY <1>2, <1>4, <2>3, <2>5, <2>6, <4>1 DEF WellMade
      <4>2. CASE i # f
        BY <2>3, <2>6, <3>1, <4>2 DEF KeptRight
      <4>. QED  BY <4>1, <4>2
    <3>. QED  BY <3>2, <3>3, <3>4 DEF KeptRight
  <2>8. Right(Touch(n), kq, d)
    BY <2>4, <2>7, TouchRight DEF FuncIs
  <2>. QED  BY <1>1, <1>7, <1>9, <2>2, <2>8
<1>. QED  BY <1>8, <1>9

\* limba_func_add: a function that has no body and was never cleared.
LEMMA FuncAddRight ==
  ASSUME NEW mo, NEW kp, NEW d, Right(mo, kp, d), NEW name,
         NEW type \in FirstUser .. NTypes(mo), NEW flags
  PROVE  Right(FuncAdd(mo, name, type, flags), kp, d)
<1>1. CASE NameTaken(mo, name)
  BY <1>1 DEF FuncAdd
<1>2. CASE ~NameTaken(mo, name)
  <2>1. PICK x, s, n : /\ x = Func(name, type, flags) /\ s = mo.funcs
                       /\ n = Named([mo EXCEPT !.funcs = Append(@, x)], name, 1, Len(mo.funcs) + 1)
    OBVIOUS
  <2>2. FuncAdd(mo, name, type, flags) = Touch(n)
    BY <1>2, <2>1 DEF FuncAdd
  <2>3. /\ UsableFields \subseteq DOMAIN n /\ n.funcs = Append(s, x) /\ n.types = mo.types
        /\ n.globals = mo.globals
    BY <2>1, UsableHas DEF Named, UsableFields
  <2>4. PICK k \in Nat :
          /\ DOMAIN s = 1 .. k /\ Sequence(n.funcs)
          /\ DOMAIN n.funcs = 1 .. (k + 1) /\ n.funcs[k + 1] = x
          /\ \A i \in 1 .. k : n.funcs[i] = s[i]
    <3>1. /\ Len(s) \in Nat /\ DOMAIN s = 1 .. Len(s)
          /\ Sequence(Append(s, x)) /\ DOMAIN Append(s, x) = 1 .. (Len(s) + 1)
          /\ \A i \in DOMAIN s : Append(s, x)[i] = s[i]
          /\ Append(s, x)[Len(s) + 1] = x
      BY <2>1, UsableHas, SequenceAdded
    <3>. QED  BY <2>3, <3>1
  <2>5. /\ {"type", "blocks", "insts", "sum"} \subseteq DOMAIN x /\ x.type = type
        /\ x.blocks = <<>> /\ x.insts = <<>> /\ ~x.sum.noted
    BY <2>1 DEF Func, NoSum
  <2>6. WellMade(x)
    <3>1. Sequence(<<>>) /\ DOMAIN <<>> = {}
      BY DEF Sequence
    <3>. QED  BY <2>5, <3>1 DEF WellMade
  <2>7. \A i : i \in DOMAIN n.funcs <=> i \in DOMAIN s \/ i = k + 1
    BY <2>4
  <2>8. \A i \in DOMAIN n.funcs :
            WellMade(n.funcs[i]) /\ n.funcs[i].type \in FirstUser .. NTypes(mo)
    <3>1. \A i \in DOMAIN s : WellMade(s[i]) /\ s[i].type \in FirstUser .. NTypes(mo)
      BY <2>1 DEF Right, Usable
    <3>. QED  BY <2>4, <2>5, <2>6, <2>7, <3>1
  <2>9. Usable(n)
    BY <2>3, <2>4, <2>8 DEF Right, Usable, UsableFields, NTypes
  <2>10. KeptRight(n, kp)
    <3>1. KeptRight(mo, kp) /\ DOMAIN kp \subseteq 1 .. k
      BY <2>1, <2>4 DEF Right, KeptRight
    <3>2. \A i \in DOMAIN s : n.funcs[i] = s[i]
      BY <2>4
    <3>3. DOMAIN kp \subseteq DOMAIN n.funcs
      BY <2>4, <2>7, <3>1
    <3>4. ASSUME NEW i \in DOMAIN n.funcs, i \notin DOMAIN kp PROVE ~n.funcs[i].sum.noted
      BY <2>1, <2>4, <2>5, <2>7, <3>1, <3>2, <3>4 DEF KeptRight
    <3>5. \A i \in DOMAIN kp : n.funcs[i] = mo.funcs[i]
      BY <2>1, <2>4, <3>1
    <3>. QED  BY <3>1, <3>3, <3>4, <3>5 DEF KeptRight
  <2>11. Right(Touch(n), kp, d)
    BY <2>9, <2>10, TouchRight
  <2>. QED  BY <2>2, <2>11
<1>. QED  BY <1>1, <1>2

\* limba_module_truncate: the functions left, and the bodies freed of them.
LEMMA TruncateRight ==
  ASSUME NEW mo, NEW kp, NEW d, Right(mo, kp, d), NEW nf \in 0 .. Len(mo.funcs),
         NEW ne, ~(ne > Len(mo.externs))
  PROVE  Right(Truncate(mo, nf, ne), Restrict(kp, DOMAIN kp \cap 1 .. nf), d)
<1>1. PICK s, n, kq : /\ s = mo.funcs /\ n = WithNames(Kept(mo, nf, ne))
                      /\ kq = Restrict(kp, DOMAIN kp \cap 1 .. nf)
  OBVIOUS
<1>2. Truncate(mo, nf, ne) = Touch(n)
  <2>1. Len(mo.funcs) \in Nat
    BY FuncsAre DEF Right
  <2>2. ~(nf > Len(mo.funcs))
    BY <2>1
  <2>. QED  BY <1>1, <2>2 DEF Truncate
<1>3. /\ UsableFields \subseteq DOMAIN n /\ n.funcs = SubSeq(s, 1, nf) /\ n.types = mo.types
      /\ n.globals = mo.globals
  BY <1>1, UsableHas DEF WithNames, Kept, UsableFields
<1>4. /\ Sequence(n.funcs) /\ DOMAIN n.funcs = 1 .. nf /\ 1 .. nf \subseteq DOMAIN s
      /\ \A i \in 1 .. nf : n.funcs[i] = s[i]
  <2>1. Sequence(s) /\ nf \in 0 .. Len(s)
    BY <1>1, UsableHas
  <2>. QED  BY <1>3, <2>1, SequenceCut
<1>5. Usable(n)
  <2>1. \A i \in 1 .. nf : WellMade(n.funcs[i]) /\ n.funcs[i].type \in FirstUser .. NTypes(mo)
    BY <1>1, <1>4 DEF Right, Usable
  <2>. QED  BY <1>3, <1>4, <2>1 DEF Right, Usable, UsableFields, NTypes
<1>6. DOMAIN kq = DOMAIN kp \cap 1 .. nf /\ \A i \in DOMAIN kq : kq[i] = kp[i]
  BY <1>1 DEF Restrict
<1>7. KeptRight(n, kq)
  <2>1. KeptRight(mo, kp) /\ DOMAIN n.funcs \subseteq DOMAIN mo.funcs
    BY <1>1, <1>4 DEF Right
  <2>2. \A i \in DOMAIN n.funcs : n.funcs[i] = mo.funcs[i]
    BY <1>1, <1>4
  <2>3. /\ DOMAIN kq \subseteq DOMAIN n.funcs /\ DOMAIN kq \subseteq DOMAIN kp
        /\ \A i \in DOMAIN n.funcs : i \notin DOMAIN kq => i \notin DOMAIN kp
    BY <1>4, <1>6
  <2>4. ASSUME NEW i \in DOMAIN kq
        PROVE  i \in DOMAIN kp /\ kq[i] = kp[i] /\ n.funcs[i] = mo.funcs[i]
    BY <1>6, <2>2, <2>3
  <2>. QED  BY <2>1, <2>2, <2>3, <2>4 DEF KeptRight
<1>8. Right(Touch(n), kq, d)
  BY <1>5, <1>7, TouchRight
<1>. QED  BY <1>1, <1>2, <1>8

\* limba_module_handled: the set is made again.
LEMMA AskedRight ==
  ASSUME NEW mo, NEW kp, NEW d, Right(mo, kp, d)
  PROVE  Right(Asked(mo), kp, d)
<1>1. CASE mo.fresh /\ mo.nhandled = Len(mo.funcs)
  BY <1>1 DEF Asked
<1>2. CASE ~(mo.fresh /\ mo.nhandled = Len(mo.funcs))
  <2>1. PICK n : n = Asked(mo)
    OBVIOUS
  <2>2. /\ UsableFields \subseteq DOMAIN n /\ n.funcs = mo.funcs /\ n.types = mo.types
        /\ n.globals = mo.globals /\ n.handled = Compute(mo)
    BY <1>2, <2>1, UsableHas DEF Asked, UsableFields
  <2>3. Usable(n)
    BY <2>2 DEF Right, Usable, UsableFields, NTypes
  <2>4. KeptRight(n, kp)
    BY <2>2 DEF Right, KeptRight
  <2>5. Compute(mo) = Now(mo)
    BY ComputedNow DEF Right
  <2>6. ShowsNoMore(n, mo) /\ ShowsNoMore(mo, n)
    <3>1. \A t : BodyType(n, t) <=> BodyType(mo, t)
      BY <2>2 DEF BodyType, NTypes
    <3>. QED  BY <2>2, <3>1 DEF ShowsNoMore, SameTypes, RelocsOf, Less
  <2>7. Now(n) = Now(mo)
    BY <2>6, NowGrows
  <2>8. Right(n, kp, d)
    BY <2>2, <2>3, <2>4, <2>5, <2>7 DEF Right, CacheRight
  <2>. QED  BY <2>1, <2>8
<1>. QED  BY <1>1, <1>2

\* Every step of the front end keeps the set right.
LEMMA StepRight ==
  ASSUME fam \in DOMAIN Families, Right(m, kept, dropped), [BNext]_bvars
  PROVE  fam' \in DOMAIN Families /\ Right(m', kept', dropped')
<1>1. CASE InternString
  BY <1>1, InternRight DEF InternString, Quiet, Call
<1>2. CASE AddType
  BY <1>2, TypeRight DEF AddType, Quiet, Call
<1>3. CASE AddArray
  BY <1>3, TypeRight DEF AddArray, Quiet, Call
<1>4. CASE AddFunc
  BY <1>4, FuncAddRight DEF AddFunc, Quiet, Call
<1>5. CASE AddGlobal
  BY <1>5, GlobalAddRight DEF AddGlobal, Quiet, Call
<1>6. CASE AddExtern
  BY <1>6, ExternAddRight DEF AddExtern, Quiet, Call
<1>7. CASE TruncateModule
  BY <1>7, TruncateRight DEF TruncateModule, Call
<1>8. CASE SetData
  <2>1. PICK g \in DOMAIN m.globals :
          \E bytes \in F.texts :
              /\ m' = GlobalSetData(m, g, bytes)
              /\ dropped' = (dropped \/ FuncRelocs(m.globals[g]) # {})
    BY <1>8 DEF SetData, Globals
  <2>2. (dropped => dropped') /\ (FuncRelocs(m.globals[g]) # {} => dropped')
    BY <2>1
  <2>3. UNCHANGED <<kept, fam>>
    BY <1>8 DEF SetData, Call
  <2>. QED  BY <2>1, <2>2, <2>3, SetDataRight
<1>9. CASE AddFill
  BY <1>9, AddFillRight DEF AddFill, Globals, Quiet, Call
<1>10. CASE AddReloc
  BY <1>10, AddRelocRight DEF AddReloc, Globals, Quiet, Call
<1>11. CASE AddBlock
  <2>1. PICK f \in DOMAIN m.funcs :
          /\ m' = BlockAdd(m, f)
          /\ dropped' = (dropped \/ (DOMAIN m.funcs[f].blocks = {} /\ f \in DOMAIN kept))
    BY <1>11 DEF AddBlock, Functions, Blocks
  <2>2. /\ dropped => dropped'
        /\ DOMAIN m.funcs[f].blocks = {} /\ f \in DOMAIN kept => dropped'
    BY <2>1
  <2>3. UNCHANGED <<kept, fam>>
    BY <1>11 DEF AddBlock, Call
  <2>. QED  BY <2>1, <2>2, <2>3, BlockAddRight
<1>12. CASE GiveHandler
  BY <1>12, SetHandlerRight DEF GiveHandler, Functions, Blocks, Quiet, Call
<1>13. CASE AddInst
  BY <1>13, InstAddRight, InstsAssumption DEF AddInst, Functions, Blocks, F, Quiet, Call
<1>14. CASE AddSlot
  BY <1>14, SlotAddRight DEF AddSlot, Functions, Quiet, Call
<1>15. CASE SetPos
  BY <1>15, SetPosRight DEF SetPos, Functions, Quiet, Call
<1>16. CASE ClearFunc
  BY <1>16, ClearRight DEF ClearFunc, Functions, Blocks, Call
<1>17. CASE AskHandled
  BY <1>17, AskedRight DEF AskHandled
<1>18. CASE UNCHANGED bvars
  BY <1>18 DEF bvars
<1>. QED
  BY <1>1, <1>2, <1>3, <1>4, <1>5, <1>6, <1>7, <1>8, <1>9, <1>10, <1>11, <1>12, <1>13,
     <1>14, <1>15, <1>16, <1>17, <1>18 DEF BNext

\* The inductive invariant: the set kept is right, or will be made again.
SetKept == fam \in DOMAIN Families /\ Right(m, kept, dropped)

\* HandledRight of Building: whatever calls were made before, in any order and
\* with bodies freed on the way, limba_module_handled answers no less than the
\* functions that may run under a handler as the bodies stand or stood when they
\* were freed, and no more unless a call dropped something without saying so.
THEOREM AnswersRight ==
  BSpec => []HandledRight
<1>1. BInit => SetKept
  <2>1. SUFFICES ASSUME BInit PROVE SetKept
    OBVIOUS
  <2>2. fam \in DOMAIN Families /\ m = Starts[fam] /\ kept = <<>> /\ Usable(m) /\ Unasked(m)
    BY <2>1, StartsAssumption DEF BInit
  <2>3. DOMAIN kept = {}
    BY <2>2
  <2>4. KeptRight(m, kept)
    BY <2>2, <2>3 DEF KeptRight, Unasked
  <2>. QED  BY <2>2, <2>4 DEF SetKept, Right, CacheRight, Unasked
<1>2. SetKept /\ [BNext]_bvars => SetKept'
  BY StepRight DEF SetKept
<1>3. SetKept => HandledRight
  BY AnswerRight DEF SetKept
<1>. QED  BY <1>1, <1>2, <1>3, PTL DEF BSpec

=============================================================================
