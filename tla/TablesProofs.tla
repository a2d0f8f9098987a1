---------------------------- MODULE TablesProofs ----------------------------
(***************************************************************************)
(* What the tables of a module keep, for every hash, every size of a new   *)
(* table and every front end: limba_hash_put keeps each entry where a      *)
(* search meets it, also when the places double, and so each call of       *)
(* module.c keeps one entry for each string, type and name (OneThing).     *)
(***************************************************************************)
EXTENDS Building, Recursion, FiniteSetTheorems, SequenceTheorems

-----------------------------------------------------------------------------
(* Folds over sequences                                                    *)

\* The greatest of finitely many numbers.
LEMMA MaxOf ==
  ASSUME NEW n \in Nat, NEW T \in SUBSET (1 .. n), T # {}
  PROVE  Max(T) \in T /\ \A k \in T : k <= Max(T)
<1>. DEFINE R == {n - k : k \in T}
<1>1. R \in SUBSET Nat /\ R # {}
  <2>1. \A k \in T : n - k \in Nat
    OBVIOUS
  <2>. QED  BY <2>1
<1>2. PICK r \in R : \A q \in R : r <= q
  BY <1>1, NatMin
<1>3. PICK x \in T : r = n - x
  OBVIOUS
<1>4. \A k \in T : x >= k
  <2>1. ASSUME NEW k \in T PROVE x >= k
    <3>1. n - k \in R
      OBVIOUS
    <3>2. n - x <= n - k
      BY <1>2, <1>3, <3>1
    <3>. QED  BY <3>2
  <2>. QED  BY <2>1
<1>5. Max(T) \in T /\ \A k \in T : Max(T) >= k
  BY <1>4 DEF Max
<1>. QED  BY <1>5

\* The last of the numbers up to i.
LEMMA MaxOfPrefix ==
  ASSUME NEW n \in Nat, NEW i \in 1 .. n
  PROVE  Max(1 .. i) = i /\ (1 .. i) \ {i} = 1 .. (i - 1)
<1>1. i \in Nat /\ 1 .. i \in SUBSET (1 .. i) /\ i \in 1 .. i
  OBVIOUS
<1>2. Max(1 .. i) \in 1 .. i /\ \A k \in 1 .. i : k <= Max(1 .. i)
  BY <1>1, MaxOf
<1>3. Max(1 .. i) = i
  BY <1>1, <1>2
<1>. QED  BY <1>3

\* f is the function by which the library folds over a sequence: b for no
\* place, and h applied to the last place and what is before it.
FoldedBy(f, n, V, b, h) ==
    /\ f \in [SUBSET (1 .. n) -> V]
    /\ \A T \in SUBSET (1 .. n) :
         f[T] = IF T = {} THEN b ELSE h[<<Max(T), f[T \ {Max(T)}]>>]

\* There is such a function.
LEMMA FoldExists ==
  ASSUME NEW n \in Nat, NEW V, NEW b \in V, NEW h \in [(1 .. n) \X V -> V]
  PROVE  \E f : FoldedBy(f, n, V, b, h)
<1>. DEFINE Sub == SUBSET (1 .. n)
            rank == [T \in Sub |-> Cardinality(T)]
            Less(T) == IF T = {} THEN T ELSE T \ {Max(T)}
            nxt == [T \in Sub |-> Less(T)]
            base == [T \in Sub |-> b]
            Step(y) == IF y[1] = {} THEN b ELSE h[<<Max(y[1]), y[2]>>]
            step == [y \in Sub \X V |-> Step(y)]
<1>1. \A T \in Sub : IsFiniteSet(T) /\ Cardinality(T) \in Nat
  <2>1. IsFiniteSet(1 .. n)
    BY FS_Interval
  <2>. QED  BY <2>1, FS_Subset, FS_CardinalityType
<1>2. rank \in [Sub -> Nat] /\ base \in [Sub -> V] /\ nxt \in [Sub -> Sub]
  BY <1>1
<1>3. step \in [Sub \X V -> V]
  <2>1. ASSUME NEW T \in Sub, NEW x \in V PROVE Step(<<T, x>>) \in V
    <3>1. T # {} => <<Max(T), x>> \in (1 .. n) \X V
      BY MaxOf
    <3>. QED  BY <3>1
  <2>. HIDE DEF Step
  <2>2. \A y \in Sub \X V : y = <<y[1], y[2]>> /\ y[1] \in Sub /\ y[2] \in V
    OBVIOUS
  <2>. QED  BY <2>1, <2>2
<1>4. ASSUME NEW T \in Sub \ {{}} PROVE rank[nxt[T]] < rank[T]
  <2>. PICK o \in T : o = Max(T)
    BY MaxOf
  <2>1. Cardinality(T \ {o}) = Cardinality(T) - 1
    BY <1>1, FS_RemoveElement
  <2>2. nxt[T] = T \ {o} /\ T \ {o} \in Sub
    OBVIOUS
  <2>3. rank[nxt[T]] = Cardinality(T) - 1 /\ rank[T] = Cardinality(T)
    BY <2>1, <2>2
  <2>. HIDE DEF rank, nxt
  <2>. QED  BY <1>1, <2>3
<1>. HIDE DEF rank
<1>5. PICK f \in [Sub -> V] : Given(f, Sub, {{}}, base, step, nxt)
  <2>. HIDE DEF Sub, base, step, nxt
  <2>. QED  BY <1>2, <1>3, <1>4, Recursion
<1>6. ASSUME NEW T \in Sub
      PROVE  f[T] = IF T = {} THEN b ELSE h[<<Max(T), f[T \ {Max(T)}]>>]
  <2>1. f[T] = IF T \in {{}} THEN base[T] ELSE step[<<T, f[nxt[T]]>>]
    BY <1>5 DEF Given
  <2>2. T # {} => nxt[T] = T \ {Max(T)} /\ nxt[T] \in Sub /\ f[nxt[T]] \in V
    OBVIOUS
  <2>. QED  BY <2>1, <2>2
<1>. QED  BY <1>5, <1>6 DEF FoldedBy

\* What holds at 0, and at i when it holds at i - 1, holds up to n.
LEMMA UpTo ==
  ASSUME NEW n \in Nat, NEW P, 0 \in P,
         \A i \in 1 .. n : i - 1 \in P => i \in P
  PROVE  0 .. n \subseteq P
<1>. DEFINE S == 0 .. n
            rank == [i \in S |-> i]
<1>1. rank \in [S -> Nat]
  OBVIOUS
<1>2. ASSUME NEW i \in S, \A j \in S : rank[j] < rank[i] => j \in P
      PROVE  i \in P
  <2>1. i # 0 => i - 1 \in S /\ rank[i - 1] < rank[i] /\ i \in 1 .. n
    OBVIOUS
  <2>. QED  BY <1>2, <2>1
<1>. HIDE DEF S, rank
<1>3. S \subseteq P
  BY <1>1, <1>2, RankInduction
<1>. QED  BY <1>3 DEF S

-----------------------------------------------------------------------------
(* One table. *)

-----------------------------------------------------------------------------
(* The places of a table                                                   *)

\* A place looked at is a place of the table.
LEMMA SlotIn ==
  ASSUME NEW slots \in Seq(Place), Len(slots) > 0, NEW key \in Nat, NEW d \in Nat
  PROVE  Slot(slots, key, d) \in DOMAIN slots
<1>1. PICK k \in Nat \ {0} : k = Len(slots)
  OBVIOUS
<1>2. (key + d) % k \in 0 .. (k - 1)
  <2>1. key + d \in Int
    OBVIOUS
  <2>. QED  BY <2>1, Div
<1>. QED  BY <1>1, <1>2 DEF Slot

\* A search looks at every place.
LEMMA SlotCovers ==
  ASSUME NEW slots \in Seq(Place), NEW key \in Nat, NEW i \in DOMAIN slots
  PROVE  \E d \in 0 .. Len(slots) - 1 : Slot(slots, key, d) = i
<1>1. PICK k \in Nat \ {0} : k = Len(slots)
  OBVIOUS
<1>2. PICK a \in Int : a = i - 1 - key
  OBVIOUS
<1>3. PICK d \in 0 .. (k - 1), q \in Int : a = k * q + d
  BY Div
<1>4. PICK c \in Int, r \in 0 .. (k - 1) : c = key + d /\ r = i - 1
  BY <1>1
<1>5. c = k * (-q) + r /\ -q \in Int
  <2>1. PICK j \in Int : j = k * q
    OBVIOUS
  <2>2. k * (-q) = -j /\ -q \in Int
    BY <2>1
  <2>3. c = r - j
    BY <1>2, <1>3, <1>4, <2>1
  <2>. QED  BY <1>4, <2>1, <2>2, <2>3
<1>6. c % k = r
  BY <1>5, DivOnce
<1>. QED  BY <1>1, <1>4, <1>6 DEF Slot

\* The first place at which a search stops, in a table that has a free one.
LEMMA FirstSlotFacts ==
  ASSUME NEW slots \in Seq(Place), NEW f \in DOMAIN slots, slots[f] = Free,
         NEW key \in Nat, NEW same
  PROVE  \E d \in 0 .. Len(slots) - 1 :
           /\ FirstSlot(slots, key, same) = Slot(slots, key, d)
           /\ Stops(slots[Slot(slots, key, d)], key, same)
           /\ \A e \in 0 .. d - 1 : ~Stops(slots[Slot(slots, key, e)], key, same)
<1>. DEFINE ok == {d \in 0 .. Len(slots) - 1 :
                     Stops(slots[Slot(slots, key, d)], key, same)}
            first == CHOOSE d \in ok : \A e \in ok : d <= e
<1>1. PICK c \in 0 .. Len(slots) - 1 : Slot(slots, key, c) = f
  BY SlotCovers
<1>2. c \in ok
  BY <1>1 DEF Stops
<1>3. ok \in SUBSET Nat /\ ok # {}
  BY <1>2
<1>4. first \in ok /\ \A e \in ok : first <= e
  <2>. HIDE DEF ok
  <2>. QED  BY <1>3, NatMin
<1>5. FirstSlot(slots, key, same) = Slot(slots, key, first)
  BY DEF FirstSlot
<1>6. \A e \in 0 .. first - 1 : e \in 0 .. Len(slots) - 1 /\ ~(first <= e)
  BY <1>4
<1>. HIDE DEF first
<1>. QED  BY <1>4, <1>5, <1>6

\* A table that is not full has a free place.
LEMMA FreePlace ==
  ASSUME NEW slots \in Seq(Place), Cardinality(Full(slots)) < Len(slots)
  PROVE  /\ IsFiniteSet(Full(slots)) /\ Cardinality(Full(slots)) \in Nat
         /\ \E i \in DOMAIN slots : slots[i] = Free
<1>1. DOMAIN slots = 1 .. Len(slots) /\ Len(slots) \in Nat
  OBVIOUS
<1>2. IsFiniteSet(1 .. Len(slots)) /\ Cardinality(1 .. Len(slots)) = Len(slots)
  BY <1>1, FS_Interval
<1>3. Full(slots) \in SUBSET (1 .. Len(slots))
  BY <1>1 DEF Full
<1>4. IsFiniteSet(Full(slots)) /\ Cardinality(Full(slots)) \in Nat
  BY <1>2, <1>3, FS_Subset, FS_CardinalityType
<1>5. Full(slots) # 1 .. Len(slots)
  BY <1>1, <1>2
<1>. QED  BY <1>1, <1>3, <1>4, <1>5 DEF Full

\* The full places are finitely many.
LEMMA FullFinite ==
  ASSUME NEW slots \in Seq(Place)
  PROVE  IsFiniteSet(Full(slots)) /\ Cardinality(Full(slots)) \in Nat
         /\ Cardinality(Full(slots)) <= Len(slots)
<1>1. DOMAIN slots = 1 .. Len(slots) /\ Len(slots) \in Nat
  OBVIOUS
<1>2. IsFiniteSet(1 .. Len(slots)) /\ Cardinality(1 .. Len(slots)) = Len(slots)
  BY <1>1, FS_Interval
<1>3. Full(slots) \in SUBSET (1 .. Len(slots))
  BY <1>1 DEF Full
<1>. QED  BY <1>2, <1>3, FS_Subset, FS_CardinalityType

\* limba_hash_find: it finds an entry of the table with the key that stands
\* for what is looked for, if there is one.
LEMMA FindExact ==
  ASSUME NEW h, NEW E, TableOf(h, E), NEW key \in Nat, NEW same, 0 \notin same
  PROVE  \/ /\ Find(h, key, same) \in same
            /\ [key |-> key, id |-> Find(h, key, same)] \in E
         \/ /\ Find(h, key, same) = 0
            /\ \A id \in same : [key |-> key, id |-> id] \notin E
<1>. DEFINE slots == h.slots
            At(d) == Slot(slots, key, d)
<1>1. /\ slots \in Seq(Place) /\ Len(slots) > 0 /\ Entries(slots) = E
      /\ Reached(slots) /\ Len(slots) \in Nat
      /\ Cardinality(Full(slots)) <= h.count /\ 2 * h.count <= Len(slots)
      /\ h.count \in Nat
  BY DEF TableOf
<1>. HIDE DEF slots
<1>2. PICK f \in DOMAIN slots : slots[f] = Free
  <2>1. Cardinality(Full(slots)) \in Nat
    BY <1>1, FullFinite
  <2>2. Cardinality(Full(slots)) < Len(slots)
    BY <1>1, <2>1
  <2>. QED  BY <1>1, <2>2, FreePlace
<1>3. PICK d \in 0 .. Len(slots) - 1 :
           /\ FirstSlot(slots, key, same) = At(d)
           /\ Stops(slots[At(d)], key, same)
           /\ \A e \in 0 .. d - 1 : ~Stops(slots[At(e)], key, same)
  BY <1>1, <1>2, FirstSlotFacts
<1>4. PICK s : s = slots[At(d)]
  OBVIOUS
<1>5. s \in Place /\ s = [key |-> s.key, id |-> s.id] /\ At(d) \in DOMAIN slots
  <2>1. d \in Nat
    BY <1>1
  <2>2. At(d) \in DOMAIN slots
    BY <1>1, <2>1, SlotIn
  <2>3. s \in Place
    BY <1>1, <1>4, <2>2
  <2>. QED  BY <2>2, <2>3 DEF Place
<1>6. Find(h, key, same) = s.id
  BY <1>3, <1>4 DEF Find, slots
<1>7. CASE s.key = key /\ s.id \in same
  <2>1. s # Free
    BY <1>7 DEF Free
  <2>2. s \in E
    BY <1>1, <1>4, <1>5, <2>1 DEF Entries, ToSet
  <2>. QED  BY <1>5, <1>6, <1>7, <2>2
<1>8. CASE s = Free
  <2>1. Find(h, key, same) = 0
    BY <1>6, <1>8 DEF Free
  <2>2. ASSUME NEW id \in same, [key |-> key, id |-> id] \in E PROVE FALSE
    <3>1. PICK i \in DOMAIN slots : slots[i] = [key |-> key, id |-> id]
      BY <1>1, <2>2 DEF Entries, ToSet
    <3>2. i \in Full(slots) /\ slots[i].key = key /\ slots[i].id = id
      BY <1>1, <2>2, <3>1 DEF Full, Entries
    <3>3. PICK c \in 0 .. Len(slots) - 1 :
             At(c) = i /\ \A e \in 0 .. c - 1 : At(e) \in Full(slots)
      BY <1>1, <3>2 DEF Reached
    <3>4. Stops(slots[At(c)], key, same)
      BY <2>2, <3>2, <3>3 DEF Stops
    <3>5. d <= c
      BY <1>1, <1>3, <3>3, <3>4
    <3>6. At(d) \in Full(slots)
      <4>1. d = c => At(d) \in Full(slots)
        BY <3>2, <3>3
      <4>. QED  BY <1>1, <3>3, <3>5, <4>1
    <3>. QED  BY <1>4, <1>8, <3>6 DEF Full
  <2>. QED  BY <2>1, <2>2
<1>. QED  BY <1>3, <1>4, <1>7, <1>8 DEF Stops

\* An entry put at the first free place for its key is found, as the others.
LEMMA InsertRight ==
  ASSUME NEW slots \in Seq(Place), Len(slots) > 0, Reached(slots),
         Cardinality(Full(slots)) < Len(slots), NEW s \in Place, s # Free
  PROVE  /\ Insert(slots, s) \in Seq(Place) /\ Len(Insert(slots, s)) = Len(slots)
         /\ Reached(Insert(slots, s))
         /\ Entries(Insert(slots, s)) = Entries(slots) \cup {s}
         /\ Cardinality(Full(Insert(slots, s))) <= Cardinality(Full(slots)) + 1
<1>. DEFINE At(d) == Slot(slots, s.key, d)
<1>1. s.key \in Nat /\ Len(slots) \in Nat
  BY DEF Place
<1>2. PICK f \in DOMAIN slots : slots[f] = Free
  BY FreePlace
<1>3. PICK d \in 0 .. Len(slots) - 1 :
           /\ FirstSlot(slots, s.key, {}) = At(d)
           /\ Stops(slots[At(d)], s.key, {})
           /\ \A e \in 0 .. d - 1 : ~Stops(slots[At(e)], s.key, {})
  BY <1>1, <1>2, FirstSlotFacts
<1>4. PICK p : p = At(d)
  OBVIOUS
<1>5. PICK t : t = Insert(slots, s)
  OBVIOUS
<1>6. p \in DOMAIN slots /\ slots[p] = Free
  <2>1. d \in Nat
    BY <1>1
  <2>2. At(d) \in DOMAIN slots
    BY <1>1, <2>1, SlotIn
  <2>. QED  BY <1>3, <1>4, <2>2 DEF Stops
<1>7. t = [slots EXCEPT ![p] = s]
  BY <1>3, <1>4, <1>5 DEF Insert
<1>8. /\ t \in Seq(Place) /\ Len(t) = Len(slots) /\ DOMAIN t = DOMAIN slots
      /\ t[p] = s /\ \A i \in DOMAIN slots : i # p => t[i] = slots[i]
  BY <1>6, <1>7
<1>9. Full(t) = Full(slots) \cup {p}
  BY <1>6, <1>8 DEF Full
<1>10. Cardinality(Full(t)) <= Cardinality(Full(slots)) + 1
  <2>1. IsFiniteSet(Full(slots)) /\ Cardinality(Full(slots)) \in Nat
    BY FullFinite
  <2>2. Cardinality(Full(slots) \cup {p})
          = IF p \in Full(slots) THEN Cardinality(Full(slots))
            ELSE Cardinality(Full(slots)) + 1
    BY <2>1, FS_AddElement
  <2>. QED  BY <1>9, <2>1, <2>2
<1>11. Entries(t) = Entries(slots) \cup {s}
  <2>1. ASSUME NEW x \in Entries(t) PROVE x \in Entries(slots) \cup {s}
    BY <1>8, <2>1 DEF Entries, ToSet
  <2>2. ASSUME NEW x \in Entries(slots) PROVE x \in Entries(t)
    <3>1. PICK i \in DOMAIN slots : x = slots[i]
      BY DEF Entries, ToSet
    <3>2. i # p
      BY <1>6, <3>1 DEF Entries
    <3>. QED  BY <1>8, <3>1, <3>2 DEF Entries, ToSet
  <2>3. s \in Entries(t)
    BY <1>6, <1>8 DEF Entries, ToSet
  <2>. QED  BY <2>1, <2>2, <2>3
<1>12. \A key, e : Slot(t, key, e) = Slot(slots, key, e)
  BY <1>8 DEF Slot
<1>13. ASSUME NEW i \in Full(t)
       PROVE  \E c \in 0 .. Len(t) - 1 :
                /\ Slot(t, t[i].key, c) = i
                /\ \A e \in 0 .. c - 1 : Slot(t, t[i].key, e) \in Full(t)
  <2>1. CASE i = p
    <3>1. ASSUME NEW e \in 0 .. d - 1 PROVE At(e) \in Full(t)
      <4>1. e \in Nat
        BY <1>1
      <4>2. At(e) \in DOMAIN slots
        BY <1>1, <4>1, SlotIn
      <4>3. slots[At(e)] # Free
        BY <1>3, <3>1 DEF Stops
      <4>. QED  BY <1>9, <4>2, <4>3 DEF Full
    <3>. QED  BY <1>4, <1>8, <1>12, <2>1, <3>1
  <2>2. CASE i # p
    <3>1. i \in Full(slots) /\ t[i] = slots[i]
      BY <1>8, <1>9, <2>2 DEF Full
    <3>2. PICK c \in 0 .. Len(slots) - 1 :
            /\ Slot(slots, slots[i].key, c) = i
            /\ \A e \in 0 .. c - 1 : Slot(slots, slots[i].key, e) \in Full(slots)
      BY <3>1 DEF Reached
    <3>. QED  BY <1>8, <1>9, <1>12, <3>1, <3>2
  <2>. QED  BY <2>1, <2>2
<1>14. Reached(t)
  BY <1>13 DEF Reached
<1>. QED  BY <1>5, <1>8, <1>10, <1>11, <1>14

\* A function on the places of a sequence is a sequence.
LEMMA SameLength ==
  ASSUME NEW S, NEW t \in Seq(S), NEW r \in [DOMAIN t -> S]
  PROVE  r \in Seq(S) /\ Len(r) = Len(t)
<1>1. PICK n \in Nat : n = Len(t)
  OBVIOUS
<1>2. r \in [1 .. n -> S]
  BY <1>1
<1>3. r \in Seq(S) /\ Len(r) = n
  BY <1>2
<1>. QED  BY <1>1, <1>3

\* The places doubled hold the entries there were.
LEMMA DoubledRight ==
  ASSUME NEW slots \in Seq(Place), Len(slots) > 0
  PROVE  /\ Doubled(slots) \in Seq(Place) /\ Len(Doubled(slots)) = 2 * Len(slots)
         /\ Reached(Doubled(slots)) /\ Entries(Doubled(slots)) = Entries(slots)
         /\ Cardinality(Full(Doubled(slots))) <= Cardinality(Full(slots))
<1>. DEFINE base == [i \in 1 .. 2 * Len(slots) |-> Free]
            fold[T \in SUBSET DOMAIN slots] ==
              IF T = {} THEN base
              ELSE LET x == Max(T)
                   IN  IF slots[x] = Free THEN fold[T \ {x}]
                       ELSE Insert(fold[T \ {x}], slots[x])
            One(i, t) == IF slots[i] = Free THEN t ELSE Insert(t, slots[i])
            Body(f, T) == IF T = {} THEN base ELSE One(Max(T), f[T \ {Max(T)}])
            Fixed(f) == f = [T \in SUBSET DOMAIN slots |-> Body(f, T)]
<1>1. Doubled(slots) = fold[DOMAIN slots]
  BY DEF Doubled, FoldLeft, MapThenFoldSet
<1>2. fold = CHOOSE f : Fixed(f)
  OBVIOUS
<1>. HIDE DEF fold
<1>3. PICK n \in Nat \ {0} : n = Len(slots)
  OBVIOUS
<1>4. DOMAIN slots = 1 .. n /\ \A i \in 1 .. n : slots[i] \in Place
  BY <1>3
<1>. DEFINE V == {t \in Seq(Place) : Len(t) = 2 * n}
<1>5. base \in V
  <2>1. PICK k \in Nat : k = 2 * n
    OBVIOUS
  <2>2. base = [i \in 1 .. k |-> Free] /\ Free \in Place
    BY <1>3, <2>1 DEF Free, Place
  <2>. QED  BY <2>1, <2>2
<1>6. ASSUME NEW t \in V, NEW i \in 1 .. n PROVE One(i, t) \in V
  <2>1. PICK x : x = FirstSlot(t, slots[i].key, {})
    OBVIOUS
  <2>2. PICK s \in Place : s = slots[i]
    BY <1>4
  <2>3. PICK r : r = [t EXCEPT ![x] = s]
    OBVIOUS
  <2>4. r \in Seq(Place) /\ Len(r) = Len(t)
    <3>1. t \in Seq(Place) /\ t \in [DOMAIN t -> Place]
      OBVIOUS
    <3>2. r \in [DOMAIN t -> Place]
      BY <2>3, <3>1
    <3>. QED  BY <3>1, <3>2, SameLength
  <2>5. Insert(t, slots[i]) = r
    BY <2>1, <2>2, <2>3 DEF Insert
  <2>. QED  BY <2>4, <2>5
<1>. DEFINE h == [y \in (1 .. n) \X V |-> One(y[1], y[2])]
<1>7. h \in [(1 .. n) \X V -> V]
  <2>. HIDE DEF One, V
  <2>. QED  BY <1>6
<1>8. PICK f : FoldedBy(f, n, V, base, h)
  <2>. HIDE DEF h, V, base
  <2>1. n \in Nat
    OBVIOUS
  <2>. QED  BY <1>5, <1>7, <2>1, FoldExists
<1>9. ASSUME NEW T \in SUBSET (1 .. n) PROVE f[T] = Body(f, T)
  <2>1. ASSUME T # {}
        PROVE  h[<<Max(T), f[T \ {Max(T)}]>>] = One(Max(T), f[T \ {Max(T)}])
    <3>1. PICK o \in 1 .. n : o = Max(T)
      BY <2>1, MaxOf
    <3>2. PICK t \in V : t = f[T \ {o}]
      BY <1>8 DEF FoldedBy
    <3>. HIDE DEF One, V
    <3>. QED  BY <3>1, <3>2
  <2>. HIDE DEF h, One, V, base
  <2>. QED  BY <1>8, <2>1 DEF FoldedBy
<1>10. Fixed(f)
  <2>1. f \in [SUBSET (1 .. n) -> V]
    <3>. HIDE DEF h, V, base
    <3>. QED  BY <1>8 DEF FoldedBy
  <2>. HIDE DEF One, base, V
  <2>. QED  BY <1>4, <1>9, <2>1
<1>11. Fixed(fold)
  <2>. HIDE DEF Fixed
  <2>. QED  BY <1>2, <1>10
<1>12. \A T \in SUBSET (1 .. n) : fold[T] = Body(fold, T)
  <2>. HIDE DEF One, base
  <2>. QED  BY <1>4, <1>11
<1>. HIDE DEF Fixed, h
<1>. DEFINE Good(i) ==
              /\ fold[1 .. i] \in V /\ Reached(fold[1 .. i])
              /\ Entries(fold[1 .. i]) = {slots[j] : j \in 1 .. i} \ {Free}
              /\ Cardinality(Full(fold[1 .. i]))
                   <= Cardinality(Full(slots) \cap (1 .. i))
            P == {i \in 0 .. n : Good(i)}
<1>13. 0 \in P
  <2>1. 1 .. 0 = {}
    OBVIOUS
  <2>2. fold[1 .. 0] = base
    BY <1>12, <2>1
  <2>3. \A i \in DOMAIN base : base[i] = Free
    OBVIOUS
  <2>4. Full(base) = {}
    BY <2>3 DEF Full
  <2>5. Entries(base) = {} /\ Reached(base)
    BY <2>3, <2>4 DEF Entries, ToSet, Reached
  <2>6. Cardinality(Full(base)) = 0 /\ Full(slots) \cap (1 .. 0) = {}
    BY <2>1, <2>4, FS_EmptySet
  <2>7. Cardinality(Full(slots) \cap (1 .. 0)) = 0
    BY <2>6, FS_EmptySet
  <2>8. {slots[j] : j \in 1 .. 0} = {}
    BY <2>1
  <2>. HIDE DEF base, V
  <2>. QED  BY <1>5, <2>2, <2>5, <2>6, <2>7, <2>8
<1>14. ASSUME NEW i \in 1 .. n, i - 1 \in P PROVE i \in P
  <2>1. PICK t : t = fold[1 .. (i - 1)]
    OBVIOUS
  <2>2. /\ t \in V /\ Reached(t)
        /\ Entries(t) = {slots[j] : j \in 1 .. (i - 1)} \ {Free}
        /\ Cardinality(Full(t)) <= Cardinality(Full(slots) \cap (1 .. (i - 1)))
    BY <1>14, <2>1
  <2>3. fold[1 .. i] = One(i, t)
    <3>1. 1 .. i \in SUBSET (1 .. n) /\ i \in 1 .. i
      OBVIOUS
    <3>2. Max(1 .. i) = i /\ (1 .. i) \ {i} = 1 .. (i - 1)
      BY MaxOfPrefix
    <3>. HIDE DEF One
    <3>. QED  BY <1>12, <2>1, <3>1, <3>2
  <2>4. 1 .. i = (1 .. (i - 1)) \cup {i}
    OBVIOUS
  <2>5. {slots[j] : j \in 1 .. i} = {slots[j] : j \in 1 .. (i - 1)} \cup {slots[i]}
    BY <2>4
  <2>. DEFINE old == Full(slots) \cap (1 .. (i - 1))
              now == Full(slots) \cap (1 .. i)
  <2>6. IsFiniteSet(Full(slots)) /\ Cardinality(Full(slots)) <= n
    BY <1>3, FullFinite
  <2>7. IsFiniteSet(old) /\ Cardinality(old) \in Nat /\ Cardinality(old) <= n
    <3>1. old \in SUBSET Full(slots)
      OBVIOUS
    <3>2. IsFiniteSet(old) /\ Cardinality(old) <= Cardinality(Full(slots))
      BY <2>6, <3>1, FS_Subset
    <3>3. Cardinality(old) \in Nat /\ Cardinality(Full(slots)) \in Nat
      BY <2>6, <3>2, FS_CardinalityType
    <3>. QED  BY <2>6, <3>2, <3>3
  <2>8. CASE slots[i] = Free
    <3>1. now = old
      BY <2>4, <2>8 DEF Full
    <3>2. fold[1 .. i] = t
      BY <2>3, <2>8
    <3>3. {slots[j] : j \in 1 .. i} \ {Free} = {slots[j] : j \in 1 .. (i - 1)} \ {Free}
      BY <2>5, <2>8
    <3>. HIDE DEF V, One, now, old
    <3>4. Good(i)
      BY <2>2, <3>1, <3>2, <3>3 DEF now, old
    <3>. QED  BY <3>4
  <2>9. CASE slots[i] # Free
    <3>1. now = old \cup {i} /\ i \notin old
      BY <1>4, <2>4, <2>9 DEF Full
    <3>2. Cardinality(now) = Cardinality(old) + 1
      BY <2>7, <3>1, FS_AddElement
    <3>3. fold[1 .. i] = Insert(t, slots[i])
      BY <2>3, <2>9
    <3>4. t \in Seq(Place) /\ Len(t) = 2 * n /\ Len(t) > 0
      BY <2>2
    <3>5. Cardinality(Full(t)) \in Nat
      BY <3>4, FullFinite
    <3>6. Cardinality(Full(t)) < Len(t)
      BY <2>2, <2>7, <3>4, <3>5
    <3>7. slots[i] \in Place
      BY <1>4
    <3>8. PICK r : r = fold[1 .. i]
      OBVIOUS
    <3>9. /\ r \in Seq(Place) /\ Len(r) = Len(t)
          /\ Reached(r) /\ Entries(r) = Entries(t) \cup {slots[i]}
          /\ Cardinality(Full(r)) <= Cardinality(Full(t)) + 1
      <4>1. PICK s \in Place : s = slots[i] /\ s # Free
        BY <2>9, <3>7
      <4>2. r = Insert(t, s)
        BY <3>3, <3>8, <4>1
      <4>. QED  BY <2>2, <3>4, <3>6, <4>1, <4>2, InsertRight
    <3>10. Entries(r) = {slots[j] : j \in 1 .. i} \ {Free}
      BY <2>2, <2>5, <2>9, <3>9
    <3>11. Cardinality(Full(r)) \in Nat
      BY <3>9, FullFinite
    <3>12. Cardinality(Full(r)) <= Cardinality(now)
      BY <2>2, <2>7, <3>2, <3>5, <3>9, <3>11
    <3>. HIDE DEF One, now, old
    <3>13. r \in V
      BY <3>4, <3>9
    <3>. HIDE DEF V
    <3>14. Good(i)
      BY <3>8, <3>9, <3>10, <3>12, <3>13 DEF now
    <3>. QED  BY <3>14
  <2>. QED  BY <2>8, <2>9
<1>15. n \in P
  <2>. HIDE DEF P
  <2>1. 0 .. n \subseteq P
    BY <1>13, <1>14, UpTo
  <2>. QED  BY <2>1
<1>16. Doubled(slots) = fold[1 .. n]
  BY <1>1, <1>4
<1>17. Full(slots) \cap (1 .. n) = Full(slots)
  BY <1>4 DEF Full
<1>18. {slots[j] : j \in 1 .. n} \ {Free} = Entries(slots)
  BY <1>4 DEF Entries, ToSet
<1>. HIDE DEF One, base
<1>. QED  BY <1>3, <1>15, <1>16, <1>17, <1>18

\* An empty table.
LEMMA NewHashRight ==
  TableOf(NewHash, {})
<1>1. PICK n \in Nat \ {0} : n = FirstCap
  BY HashAssumption
<1>2. PICK s : s = [i \in 1 .. n |-> Free]
  OBVIOUS
<1>3. s \in Seq(Place) /\ Len(s) = n /\ \A i \in DOMAIN s : s[i] = Free
  <2>1. Free \in Place
    BY DEF Free, Place
  <2>. QED  BY <1>2, <2>1
<1>4. NewHash.slots = s /\ NewHash.count = 0 /\ NewHash \in [slots : Seq(Place), count : Nat]
  BY <1>1, <1>2, <1>3 DEF NewHash
<1>5. Full(s) = {} /\ Entries(s) = {}
  BY <1>3 DEF Full, Entries, ToSet
<1>6. Reached(s) /\ Cardinality(Full(s)) = 0
  BY <1>5, FS_EmptySet DEF Reached
<1>. QED  BY <1>3, <1>4, <1>5, <1>6 DEF TableOf

\* limba_hash_put: the table with one entry more.
LEMMA PutRight ==
  ASSUME NEW h, NEW E, TableOf(h, E), NEW key \in Nat, NEW id \in Nat \ {0}
  PROVE  TableOf(Put(h, key, id), E \cup {[key |-> key, id |-> id]})
<1>1. PICK slots, count :
        /\ h.slots = slots /\ h.count = count
        /\ slots \in Seq(Place) /\ Len(slots) > 0 /\ Entries(slots) = E
        /\ Reached(slots) /\ Len(slots) \in Nat /\ count \in Nat
        /\ Cardinality(Full(slots)) <= count /\ 2 * count <= Len(slots)
  BY DEF TableOf
<1>2. PICK s : s = [key |-> key, id |-> id]
  OBVIOUS
<1>3. s \in Place /\ s # Free
  BY <1>2 DEF Place, Free
<1>4. PICK t : t = IF 2 * (count + 1) > Len(slots) THEN Doubled(slots) ELSE slots
  OBVIOUS
<1>5. /\ t \in Seq(Place) /\ Len(t) > 0 /\ Entries(t) = E /\ Reached(t) /\ Len(t) \in Nat
      /\ Cardinality(Full(t)) <= count /\ 2 * (count + 1) <= Len(t)
  <2>1. CASE 2 * (count + 1) > Len(slots)
    <3>1. /\ t \in Seq(Place) /\ Len(t) = 2 * Len(slots) /\ Reached(t)
          /\ Entries(t) = Entries(slots)
          /\ Cardinality(Full(t)) <= Cardinality(Full(slots))
      BY <1>1, <1>4, <2>1, DoubledRight
    <3>2. Cardinality(Full(t)) \in Nat /\ Cardinality(Full(slots)) \in Nat
      BY <1>1, <3>1, FullFinite
    <3>. QED  BY <1>1, <3>1, <3>2
  <2>2. CASE ~(2 * (count + 1) > Len(slots))
    BY <1>1, <1>4, <2>2
  <2>. QED  BY <2>1, <2>2
<1>6. Cardinality(Full(t)) \in Nat
  BY <1>5, FullFinite
<1>7. Cardinality(Full(t)) < Len(t)
  BY <1>1, <1>5, <1>6
<1>8. PICK r : r = Insert(t, s)
  OBVIOUS
<1>9. /\ r \in Seq(Place) /\ Len(r) = Len(t) /\ Reached(r)
      /\ Entries(r) = Entries(t) \cup {s}
      /\ Cardinality(Full(r)) <= Cardinality(Full(t)) + 1
  BY <1>3, <1>5, <1>7, <1>8, InsertRight
<1>10. Cardinality(Full(r)) \in Nat
  BY <1>9, FullFinite
<1>11. Put(h, key, id) = [slots |-> r, count |-> count + 1]
  BY <1>1, <1>2, <1>4, <1>8 DEF Put
<1>12. PICK p : p = Put(h, key, id)
  OBVIOUS
<1>13. p.slots = r /\ p.count = count + 1 /\ p \in [slots : Seq(Place), count : Nat]
  BY <1>1, <1>9, <1>11, <1>12
<1>14. TableOf(p, E \cup {s})
  BY <1>1, <1>5, <1>6, <1>9, <1>10, <1>13 DEF TableOf
<1>. QED  BY <1>2, <1>12, <1>14

\* Each name of a kind put in the table, in the order of the ids.
LEMMA PutNamesRight ==
  ASSUME \A x : HashOf(x) \in Nat,
         NEW S, NEW things \in Seq(S), NEW kind, NEW h, NEW E, TableOf(h, E)
  PROVE  TableOf(PutNames(h, things, kind), E \cup SymOf(things, kind))
<1>. DEFINE seq == [i \in DOMAIN things |-> i]
            One(i, t) == Put(t, HashOf(<<things[i].name, kind>>), i)
            fold[T \in SUBSET DOMAIN seq] ==
              IF T = {} THEN h
              ELSE LET x == Max(T)
                   IN  Put(fold[T \ {x}], HashOf(<<things[seq[x]].name, kind>>), seq[x])
            Body(f, T) == IF T = {} THEN h ELSE One(seq[Max(T)], f[T \ {Max(T)}])
            Fixed(f) == f = [T \in SUBSET DOMAIN seq |-> Body(f, T)]
<1>1. PutNames(h, things, kind) = fold[DOMAIN seq]
  BY DEF PutNames, FoldLeft, MapThenFoldSet
<1>2. fold = CHOOSE f : Fixed(f)
  OBVIOUS
<1>. HIDE DEF fold
<1>3. PICK n \in Nat : n = Len(things) /\ DOMAIN things = 1 .. n
  OBVIOUS
<1>4. DOMAIN seq = 1 .. n /\ \A i \in 1 .. n : seq[i] = i
  BY <1>3
<1>. HIDE DEF seq
<1>. DEFINE V == {t \in [slots : Seq(Place), count : Nat] : TableOf(t, Entries(t.slots))}
<1>5. \A t, D : TableOf(t, D) => t \in V /\ Entries(t.slots) = D
  BY DEF TableOf
<1>6. h \in V
  BY <1>5
<1>7. ASSUME NEW t, NEW D, TableOf(t, D), NEW i \in 1 .. n
      PROVE  TableOf(One(i, t), D \cup {[key |-> HashOf(<<things[i].name, kind>>), id |-> i]})
  <2>1. PICK key \in Nat : key = HashOf(<<things[i].name, kind>>)
    OBVIOUS
  <2>2. TableOf(Put(t, key, i), D \cup {[key |-> key, id |-> i]})
    BY <1>7, PutRight
  <2>. QED  BY <2>1, <2>2
<1>8. ASSUME NEW t \in V, NEW i \in 1 .. n PROVE One(i, t) \in V
  <2>1. TableOf(t, Entries(t.slots))
    OBVIOUS
  <2>. HIDE DEF V, One
  <2>. QED  BY <1>5, <1>7, <2>1
<1>. DEFINE g == [y \in (1 .. n) \X V |-> One(y[1], y[2])]
<1>9. g \in [(1 .. n) \X V -> V]
  <2>. HIDE DEF One, V
  <2>. QED  BY <1>8
<1>10. PICK f : FoldedBy(f, n, V, h, g)
  <2>. HIDE DEF g, V
  <2>. QED  BY <1>6, <1>9, FoldExists
<1>11. f \in [SUBSET (1 .. n) -> V]
  <2>. HIDE DEF g, V
  <2>. QED  BY <1>10 DEF FoldedBy
<1>12. ASSUME NEW T \in SUBSET (1 .. n) PROVE f[T] = Body(f, T)
  <2>1. ASSUME T # {}
        PROVE  g[<<Max(T), f[T \ {Max(T)}]>>] = One(seq[Max(T)], f[T \ {Max(T)}])
    <3>1. PICK o \in 1 .. n : o = Max(T)
      BY <2>1, MaxOf
    <3>2. PICK t \in V : t = f[T \ {o}]
      BY <1>11
    <3>. HIDE DEF One, V
    <3>. QED  BY <1>4, <3>1, <3>2
  <2>. HIDE DEF g, One, V
  <2>. QED  BY <1>10, <2>1 DEF FoldedBy
<1>13. Fixed(f)
  <2>. HIDE DEF One, V
  <2>. QED  BY <1>4, <1>11, <1>12
<1>14. Fixed(fold)
  <2>. HIDE DEF Fixed
  <2>. QED  BY <1>2, <1>13
<1>15. \A T \in SUBSET (1 .. n) : fold[T] = Body(fold, T)
  <2>. HIDE DEF One
  <2>. QED  BY <1>4, <1>14
<1>. HIDE DEF Fixed, g, V
<1>. DEFINE Upto(i) == {[key |-> HashOf(<<things[j].name, kind>>), id |-> j] : j \in 1 .. i}
            P == {i \in 0 .. n : TableOf(fold[1 .. i], E \cup Upto(i))}
<1>16. 0 \in P
  <2>1. 1 .. 0 = {}
    OBVIOUS
  <2>2. fold[1 .. 0] = h
    BY <1>15, <2>1
  <2>3. E \cup Upto(0) = E
    BY <2>1
  <2>. HIDE DEF Upto
  <2>4. TableOf(fold[1 .. 0], E \cup Upto(0))
    BY <2>2, <2>3
  <2>5. 0 \in 0 .. n
    OBVIOUS
  <2>. QED  BY <2>4, <2>5
<1>17. ASSUME NEW i \in 1 .. n, i - 1 \in P PROVE i \in P
  <2>1. TableOf(fold[1 .. (i - 1)], E \cup Upto(i - 1))
    BY <1>17
  <2>2. fold[1 .. i] = One(i, fold[1 .. (i - 1)])
    <3>1. 1 .. i \in SUBSET (1 .. n) /\ i \in 1 .. i
      OBVIOUS
    <3>2. Max(1 .. i) = i /\ (1 .. i) \ {i} = 1 .. (i - 1)
      BY MaxOfPrefix
    <3>. HIDE DEF One
    <3>. QED  BY <1>4, <1>15, <3>1, <3>2
  <2>3. 1 .. i = (1 .. (i - 1)) \cup {i}
    OBVIOUS
  <2>4. E \cup Upto(i) = (E \cup Upto(i - 1))
                           \cup {[key |-> HashOf(<<things[i].name, kind>>), id |-> i]}
    BY <2>3
  <2>. HIDE DEF Upto, One
  <2>. QED  BY <1>7, <2>1, <2>2, <2>4
<1>18. n \in P
  <2>. HIDE DEF P
  <2>1. 0 .. n \subseteq P
    BY <1>16, <1>17, UpTo
  <2>. QED  BY <2>1
<1>19. Upto(n) = SymOf(things, kind)
  BY <1>3 DEF SymOf
<1>20. PutNames(h, things, kind) = fold[1 .. n]
  BY <1>1, <1>4
<1>. HIDE DEF Upto
<1>. QED  BY <1>18, <1>19, <1>20

-----------------------------------------------------------------------------
(* The strings, the types and the names of a module                        *)

\* What a sequence is, and what is appended to it.
LEMMA SequenceIs ==
  ASSUME NEW S, NEW s \in Seq(S)
  PROVE  Sequence(s) /\ Len(s) \in Nat /\ DOMAIN s = 1 .. Len(s)
<1>1. PICK n \in Nat : n = Len(s) /\ DOMAIN s = 1 .. n
  OBVIOUS
<1>2. s \in [1 .. n -> ToSet(s)]
  BY <1>1 DEF ToSet
<1>3. s \in Seq(ToSet(s))
  BY <1>2
<1>. QED  BY <1>1, <1>3 DEF Sequence

\* What Append gives.
LEMMA SequenceAdded ==
  ASSUME NEW s, Sequence(s), NEW x
  PROVE  /\ Len(s) \in Nat /\ DOMAIN s = 1 .. Len(s)
         /\ Sequence(Append(s, x)) /\ DOMAIN Append(s, x) = 1 .. (Len(s) + 1)
         /\ \A i \in DOMAIN s : Append(s, x)[i] = s[i]
         /\ Append(s, x)[Len(s) + 1] = x
<1>1. s \in Seq(ToSet(s) \cup {x}) /\ x \in ToSet(s) \cup {x}
  BY SeqMonotonic DEF Sequence
<1>2. /\ Append(s, x) \in Seq(ToSet(s) \cup {x}) /\ Len(Append(s, x)) = Len(s) + 1
      /\ \A i \in 1 .. Len(s) : Append(s, x)[i] = s[i]
      /\ Append(s, x)[Len(s) + 1] = x
  BY <1>1, AppendProperties
<1>. QED  BY <1>1, <1>2, SequenceIs

\* What SubSeq leaves.
LEMMA SequenceCut ==
  ASSUME NEW s, Sequence(s), NEW n \in 0 .. Len(s)
  PROVE  /\ Sequence(SubSeq(s, 1, n)) /\ DOMAIN SubSeq(s, 1, n) = 1 .. n
         /\ 1 .. n \subseteq DOMAIN s
         /\ \A i \in 1 .. n : SubSeq(s, 1, n)[i] = s[i]
<1>1. s \in Seq(ToSet(s)) /\ Len(s) \in Nat /\ DOMAIN s = 1 .. Len(s)
  BY SequenceIs DEF Sequence
<1>2. n \in Nat /\ 1 \in 1 .. Len(s) + 1 /\ n \in 1 - 1 .. Len(s)
  BY <1>1
<1>3. /\ SubSeq(s, 1, n) \in Seq(ToSet(s)) /\ Len(SubSeq(s, 1, n)) = n
      /\ \A i \in 1 .. n : SubSeq(s, 1, n)[i] = s[i]
  BY <1>1, <1>2
<1>4. PICK r : r = SubSeq(s, 1, n)
  OBVIOUS
<1>5. Sequence(r) /\ DOMAIN r = 1 .. n
  BY <1>3, <1>4, SequenceIs
<1>. QED  BY <1>1, <1>3, <1>4, <1>5

\* limba_func_find, limba_global_find, limba_extern_find: a name finds what
\* has it, and only that.
LEMMA NameFound ==
  ASSUME \A x : HashOf(x) \in Nat, NEW idx, NEW t, NamesIndexed(idx, t),
         NEW k \in 1 .. 3, NEW name, NEW f,
         f = Find(idx, HashOf(<<name, k>>), {i \in DOMAIN t[k] : t[k][i].name = name})
  PROVE  /\ \A i \in DOMAIN t[k] : t[k][i].name = name => f = i
         /\ f # 0 => \E i \in DOMAIN t[k] : t[k][i].name = name
<1>. DEFINE same == {i \in DOMAIN t[k] : t[k][i].name = name}
<1>1. PICK key \in Nat : key = HashOf(<<name, k>>)
  OBVIOUS
<1>2. PICK E : E = UNION {SymOf(t[j], j) : j \in 1 .. 3}
  OBVIOUS
<1>3. DOMAIN t[k] = 1 .. Len(t[k]) /\ Len(t[k]) \in Nat
  BY SequenceIs DEF NamesIndexed, Sequence
<1>4. 0 \notin same
  BY <1>3
<1>5. TableOf(idx, E)
  BY <1>2 DEF NamesIndexed
<1>6. \/ f \in same
      \/ f = 0 /\ \A i \in same : [key |-> key, id |-> i] \notin E
  <2>. HIDE DEF same
  <2>1. f = Find(idx, key, same)
    BY <1>1 DEF same
  <2>. QED  BY <1>4, <1>5, <2>1, FindExact
<1>7. ASSUME NEW i \in DOMAIN t[k], t[k][i].name = name PROVE f = i
  <2>1. [key |-> key, id |-> i] \in SymOf(t[k], k)
    BY <1>1, <1>7 DEF SymOf
  <2>2. [key |-> key, id |-> i] \in E
    BY <1>2, <2>1
  <2>3. f \in same
    BY <1>6, <1>7, <2>2
  <2>4. f \in DOMAIN t[k] /\ t[k][f].name = t[k][i].name
    BY <1>7, <2>3
  <2>. QED  BY <2>4 DEF NamesIndexed, Apart
<1>. QED  BY <1>6, <1>7

\* u is t with the thing x more in the space k, whose name t does not have.
OneMore(t, u, k, x) ==
    /\ "name" \in DOMAIN x
    /\ \A j \in 1 .. 3 : \A i \in DOMAIN t[j] : t[j][i].name # x.name
    /\ u[k] = Append(t[k], x) /\ \A j \in 1 .. 3 : j # k => u[j] = t[j]

\* A thing added whose name nothing has.
LEMMA NameAdded ==
  ASSUME \A x : HashOf(x) \in Nat, NEW idx, NEW t, NamesIndexed(idx, t),
         NEW k \in 1 .. 3, NEW x, NEW u, OneMore(t, u, k, x)
  PROVE  NamesIndexed(Put(idx, HashOf(<<x.name, k>>), Len(t[k]) + 1), u)
<1>. USE DEF OneMore
<1>1. PICK n \in Nat : n = Len(t[k])
  BY SequenceIs DEF NamesIndexed, Sequence
<1>2. /\ Sequence(u[k]) /\ DOMAIN t[k] = 1 .. n /\ DOMAIN u[k] = 1 .. (n + 1)
      /\ \A i \in DOMAIN t[k] : u[k][i] = t[k][i]
      /\ u[k][n + 1] = x
  BY <1>1, SequenceAdded DEF NamesIndexed
<1>3. /\ DOMAIN u[k] = DOMAIN t[k] \cup {n + 1} /\ n + 1 \notin DOMAIN t[k]
      /\ n + 1 \in Nat \ {0}
  BY <1>2
<1>4. PICK key \in Nat : key = HashOf(<<x.name, k>>)
  OBVIOUS
<1>5. \A j \in 1 .. 3 : Sequence(u[j]) /\ \A i \in DOMAIN u[j] : "name" \in DOMAIN u[j][i]
  <2>1. ASSUME NEW j \in 1 .. 3, j # k
        PROVE  Sequence(u[j]) /\ \A i \in DOMAIN u[j] : "name" \in DOMAIN u[j][i]
    BY <2>1 DEF NamesIndexed
  <2>2. \A i \in DOMAIN u[k] : "name" \in DOMAIN u[k][i]
    BY <1>2, <1>3 DEF NamesIndexed
  <2>. QED  BY <1>2, <2>1, <2>2
<1>6. Apart(u)
  <2>1. ASSUME NEW j \in 1 .. 3, NEW l \in 1 .. 3, NEW a \in DOMAIN u[j],
               NEW b \in DOMAIN u[l], u[j][a].name = u[l][b].name
        PROVE  j = l /\ a = b
    <3>1. \/ a \in DOMAIN t[j] /\ u[j][a] = t[j][a]
          \/ j = k /\ a = n + 1 /\ u[j][a] = x
      BY <1>2, <1>3
    <3>2. \/ b \in DOMAIN t[l] /\ u[l][b] = t[l][b]
          \/ l = k /\ b = n + 1 /\ u[l][b] = x
      BY <1>2, <1>3
    <3>. QED  BY <2>1, <3>1, <3>2 DEF NamesIndexed, Apart
  <2>. QED  BY <2>1 DEF Apart
<1>7. PICK E : E = UNION {SymOf(t[j], j) : j \in 1 .. 3}
  OBVIOUS
<1>8. PICK e : e = [key |-> key, id |-> n + 1]
  OBVIOUS
<1>9. SymOf(u[k], k) = SymOf(t[k], k) \cup {e}
  <2>1. \A i \in DOMAIN t[k] : [key |-> HashOf(<<u[k][i].name, k>>), id |-> i]
                                 = [key |-> HashOf(<<t[k][i].name, k>>), id |-> i]
    BY <1>2
  <2>2. [key |-> HashOf(<<u[k][n + 1].name, k>>), id |-> n + 1] = e
    BY <1>2, <1>4, <1>8
  <2>. QED  BY <1>3, <2>1, <2>2 DEF SymOf
<1>10. UNION {SymOf(u[j], j) : j \in 1 .. 3} = E \cup {e}
  <2>1. \A j \in 1 .. 3 : j # k => SymOf(u[j], j) = SymOf(t[j], j)
    OBVIOUS
  <2>. QED  BY <1>7, <1>9, <2>1
<1>11. TableOf(Put(idx, key, n + 1), E \cup {e})
  <2>1. TableOf(idx, E)
    BY <1>7 DEF NamesIndexed
  <2>. QED  BY <1>3, <1>8, <2>1, PutRight
<1>. QED  BY <1>1, <1>4, <1>5, <1>6, <1>10, <1>11 DEF NamesIndexed

\* The names that are left when a module is cut, put in a table of their own.
LEMMA NamesMade ==
  ASSUME \A x : HashOf(x) \in Nat, NEW t, Apart(t),
         \A k \in 1 .. 3 : Sequence(t[k]) /\ \A i \in DOMAIN t[k] : "name" \in DOMAIN t[k][i]
  PROVE  NamesIndexed(PutNames(PutNames(PutNames(NewHash, t[1], 1), t[2], 2), t[3], 3), t)
<1>1. PICK a : a = PutNames(NewHash, t[1], 1)
  OBVIOUS
<1>2. PICK b : b = PutNames(a, t[2], 2)
  OBVIOUS
<1>3. \A k \in 1 .. 3 : t[k] \in Seq(ToSet(t[k]))
  BY DEF Sequence
<1>4. TableOf(a, {} \cup SymOf(t[1], 1))
  BY <1>1, <1>3, NewHashRight, PutNamesRight
<1>5. TableOf(b, ({} \cup SymOf(t[1], 1)) \cup SymOf(t[2], 2))
  BY <1>2, <1>3, <1>4, PutNamesRight
<1>6. TableOf(PutNames(b, t[3], 3), (({} \cup SymOf(t[1], 1)) \cup SymOf(t[2], 2)) \cup SymOf(t[3], 3))
  BY <1>3, <1>5, PutNamesRight
<1>7. UNION {SymOf(t[k], k) : k \in 1 .. 3}
        = (({} \cup SymOf(t[1], 1)) \cup SymOf(t[2], 2)) \cup SymOf(t[3], 3)
  <2>1. 1 .. 3 = {1, 2, 3}
    OBVIOUS
  <2>. QED  BY <2>1
<1>. QED  BY <1>1, <1>2, <1>6, <1>7 DEF NamesIndexed

\* limba_strtab_intern: a string is found at its id, one that is new is added.
LEMMA StringFound ==
  ASSUME \A x : HashOf(x) \in Nat, NEW t, StringsIndexed(t.text, t.index), NEW s,
         NEW f, f = StrFind(t, s)
  PROVE  /\ \A i \in DOMAIN t.text : t.text[i] = s => f = i
         /\ f # 0 => \E i \in DOMAIN t.text : t.text[i] = s
<1>. DEFINE same == {i \in DOMAIN t.text : t.text[i] = s}
<1>1. PICK key \in Nat : key = HashOf(s)
  OBVIOUS
<1>2. PICK E : E = {[key |-> HashOf(t.text[i]), id |-> i] : i \in DOMAIN t.text}
  OBVIOUS
<1>3. DOMAIN t.text = 1 .. Len(t.text) /\ Len(t.text) \in Nat
  BY SequenceIs DEF StringsIndexed, Sequence
<1>4. 0 \notin same
  BY <1>3
<1>5. TableOf(t.index, E)
  BY <1>2 DEF StringsIndexed
<1>6. \/ f \in same
      \/ f = 0 /\ \A i \in same : [key |-> key, id |-> i] \notin E
  <2>. HIDE DEF same
  <2>1. f = Find(t.index, key, same)
    BY <1>1 DEF same, StrFind
  <2>. QED  BY <1>4, <1>5, <2>1, FindExact
<1>7. ASSUME NEW i \in DOMAIN t.text, t.text[i] = s PROVE f = i
  <2>1. [key |-> key, id |-> i] \in E
    BY <1>1, <1>2, <1>7
  <2>2. f \in same
    BY <1>6, <1>7, <2>1
  <2>. QED  BY <1>7, <2>2 DEF StringsIndexed, Distinct
<1>. QED  BY <1>6, <1>7

\* limba_strtab_intern: a string that is new gets a place and an entry.
LEMMA StringAdded ==
  ASSUME \A x : HashOf(x) \in Nat, NEW t, StringsIndexed(t.text, t.index), NEW s,
         NEW r, r = StrIntern(t, s)
  PROVE  StringsIndexed(r.text, r.index)
<1>1. CASE StrFind(t, s) # 0
  BY <1>1 DEF StrIntern
<1>2. CASE StrFind(t, s) = 0
  <2>1. \A i \in DOMAIN t.text : t.text[i] # s
    <3>1. 0 \notin DOMAIN t.text
      BY SequenceIs DEF StringsIndexed, Sequence
    <3>. QED  BY <1>2, <3>1, StringFound
  <2>2. PICK n \in Nat : n = Len(t.text)
    BY SequenceIs DEF StringsIndexed, Sequence
  <2>3. PICK key \in Nat : key = HashOf(s)
    OBVIOUS
  <2>4. r.text = Append(t.text, s) /\ r.index = Put(t.index, key, n + 1)
    BY <1>2, <2>2, <2>3 DEF StrIntern, StrAdded
  <2>5. /\ Sequence(r.text) /\ DOMAIN t.text = 1 .. n /\ DOMAIN r.text = 1 .. (n + 1)
        /\ \A i \in DOMAIN t.text : r.text[i] = t.text[i]
        /\ r.text[n + 1] = s
    BY <2>2, <2>4, SequenceAdded DEF StringsIndexed
  <2>6. /\ DOMAIN r.text = DOMAIN t.text \cup {n + 1} /\ n + 1 \notin DOMAIN t.text
        /\ n + 1 \in Nat \ {0}
    BY <2>5
  <2>7. Distinct(r.text)
    BY <2>1, <2>5, <2>6 DEF Distinct, StringsIndexed
  <2>8. PICK E : E = {[key |-> HashOf(t.text[i]), id |-> i] : i \in DOMAIN t.text}
    OBVIOUS
  <2>9. {[key |-> HashOf(r.text[i]), id |-> i] : i \in DOMAIN r.text}
          = E \cup {[key |-> key, id |-> n + 1]}
    <3>1. \A i \in DOMAIN t.text : [key |-> HashOf(r.text[i]), id |-> i]
                                     = [key |-> HashOf(t.text[i]), id |-> i]
      BY <2>5
    <3>2. [key |-> HashOf(r.text[n + 1]), id |-> n + 1] = [key |-> key, id |-> n + 1]
      BY <2>3, <2>5
    <3>. QED  BY <2>6, <2>8, <3>1, <3>2
  <2>10. TableOf(r.index, E \cup {[key |-> key, id |-> n + 1]})
    <3>1. TableOf(t.index, E)
      BY <2>8 DEF StringsIndexed
    <3>. QED  BY <2>4, <2>6, <3>1, PutRight
  <2>. QED  BY <2>5, <2>7, <2>9, <2>10 DEF StringsIndexed
<1>. QED  BY <1>1, <1>2

\* type_same is an equivalence, and types that are the same have one key.
LEMMA Same ==
  ASSUME NEW s, NEW t
  PROVE  TypeSame(s, s) /\ (TypeSame(s, t) => TypeSame(t, s) /\ TypeKey(s) = TypeKey(t))
<1>1. TypeSame(s, s) /\ (TypeSame(s, t) => TypeSame(t, s))
  BY DEF TypeSame
<1>2. ASSUME TypeSame(s, t) PROVE TypeKey(s) = TypeKey(t)
  <2>1. CASE s.kind = STRUCT
    BY <1>2, <2>1 DEF TypeSame, TypeKey
  <2>2. CASE s.kind # STRUCT
    <3>1. /\ t.kind = s.kind /\ t.variadic = s.variadic /\ t.rext = s.rext /\ t.elem = s.elem
          /\ t.count = s.count /\ (s.kind = FUNC => t.mem = s.mem)
      BY <1>2, <2>2 DEF TypeSame
    <3>. QED  BY <2>2, <3>1 DEF TypeKey
  <2>. QED  BY <2>1, <2>2
<1>. QED  BY <1>1, <1>2

\* type_find: a type that is there is found at its id.
LEMMA TypeFound ==
  ASSUME \A x : HashOf(x) \in Nat, NEW mo, TypesIndexed(mo.types, mo.typeidx), NEW s,
         NEW f, f = TypeFind(mo, s)
  PROVE  /\ \A i \in DOMAIN mo.types : TypeSame(mo.types[i], s) => f = FirstUser - 1 + i
         /\ f # 0 => \E i \in DOMAIN mo.types : TypeSame(mo.types[i], s)
<1>. DEFINE same == {FirstUser - 1 + i : i \in {j \in DOMAIN mo.types : TypeSame(mo.types[j], s)}}
<1>1. PICK key \in Nat : key = TypeKey(s)
  BY DEF TypeKey
<1>2. PICK E : E = {[key |-> TypeKey(mo.types[i]), id |-> FirstUser - 1 + i] :
                      i \in DOMAIN mo.types}
  OBVIOUS
<1>3. DOMAIN mo.types = 1 .. Len(mo.types) /\ Len(mo.types) \in Nat
  BY SequenceIs DEF TypesIndexed, Sequence
<1>4. 0 \notin same
  BY <1>3 DEF FirstUser
<1>5. TableOf(mo.typeidx, E)
  BY <1>2 DEF TypesIndexed
<1>6. \/ f \in same
      \/ f = 0 /\ \A i \in same : [key |-> key, id |-> i] \notin E
  <2>. HIDE DEF same
  <2>1. f = Find(mo.typeidx, key, same)
    BY <1>1 DEF same, TypeFind
  <2>. QED  BY <1>4, <1>5, <2>1, FindExact
<1>7. ASSUME NEW i \in DOMAIN mo.types, TypeSame(mo.types[i], s) PROVE f = FirstUser - 1 + i
  <2>1. PICK a : a = FirstUser - 1 + i
    OBVIOUS
  <2>2. a \in same
    BY <1>7, <2>1
  <2>3. TypeKey(mo.types[i]) = key
    BY <1>1, <1>7, Same
  <2>4. [key |-> key, id |-> a] \in E
    BY <1>2, <2>1, <2>3
  <2>5. f \in same
    BY <1>6, <2>2, <2>4
  <2>6. PICK j \in DOMAIN mo.types : f = FirstUser - 1 + j /\ TypeSame(mo.types[j], s)
    BY <2>5
  <2>7. TypeSame(s, mo.types[i]) /\ TypeSame(mo.types[j], mo.types[i])
    <3>1. TypeSame(mo.types[j], s) /\ TypeSame(mo.types[i], s)
      BY <1>7, <2>6
    <3>. QED  BY <3>1 DEF TypeSame
  <2>8. i = j
    BY <2>7 DEF TypesIndexed
  <2>. QED  BY <2>6, <2>8
<1>. QED  BY <1>6, <1>7

\* limba_type_array, limba_type_func, limba_type_struct: a type that is new
\* is added.
LEMMA TypeMadeRight ==
  ASSUME \A x : HashOf(x) \in Nat, NEW mo, TypesIndexed(mo.types, mo.typeidx), NEW s,
         {"types", "typeidx"} \subseteq DOMAIN mo, NEW r, r = TypeMade(mo, s)
  PROVE  TypesIndexed(r.types, r.typeidx)
<1>1. CASE TypeFind(mo, s) # 0
  BY <1>1 DEF TypeMade
<1>2. CASE TypeFind(mo, s) = 0
  <2>1. PICK n \in Nat : n = Len(mo.types) /\ DOMAIN mo.types = 1 .. n
    BY SequenceIs DEF TypesIndexed, Sequence
  <2>2. \A i \in DOMAIN mo.types : ~TypeSame(mo.types[i], s) /\ ~TypeSame(s, mo.types[i])
    <3>1. \A i \in DOMAIN mo.types : FirstUser - 1 + i # 0
      BY <2>1 DEF FirstUser
    <3>2. \A i \in DOMAIN mo.types : ~TypeSame(mo.types[i], s)
      BY <1>2, <3>1, TypeFound
    <3>. QED  BY <3>2, Same
  <2>3. PICK key \in Nat : key = TypeKey(s)
    BY DEF TypeKey
  <2>4. PICK id \in Nat \ {0} : id = FirstUser - 1 + (n + 1)
    BY DEF FirstUser
  <2>5. r.types = Append(mo.types, s) /\ r.typeidx = Put(mo.typeidx, key, id)
    <3>1. r = TypeAdded(mo, s)
      BY <1>2 DEF TypeMade
    <3>2. NTypes(mo) + 1 = id
      BY <2>1, <2>4 DEF NTypes, FirstUser
    <3>. QED  BY <2>3, <3>1, <3>2 DEF TypeAdded
  <2>6. /\ Sequence(r.types) /\ DOMAIN r.types = 1 .. (n + 1)
        /\ \A i \in DOMAIN mo.types : r.types[i] = mo.types[i]
        /\ r.types[n + 1] = s
    BY <2>1, <2>5, SequenceAdded DEF TypesIndexed
  <2>7. DOMAIN r.types = DOMAIN mo.types \cup {n + 1} /\ n + 1 \notin DOMAIN mo.types
    BY <2>1, <2>6
  <2>8. \A i, j \in DOMAIN r.types : TypeSame(r.types[i], r.types[j]) => i = j
    BY <2>2, <2>6, <2>7 DEF TypesIndexed
  <2>9. PICK E : E = {[key |-> TypeKey(mo.types[i]), id |-> FirstUser - 1 + i] :
                        i \in DOMAIN mo.types}
    OBVIOUS
  <2>10. {[key |-> TypeKey(r.types[i]), id |-> FirstUser - 1 + i] : i \in DOMAIN r.types}
           = E \cup {[key |-> key, id |-> id]}
    <3>. DEFINE now(i) == [key |-> TypeKey(r.types[i]), id |-> FirstUser - 1 + i]
                old(i) == [key |-> TypeKey(mo.types[i]), id |-> FirstUser - 1 + i]
    <3>1. \A i \in DOMAIN mo.types : now(i) = old(i)
      BY <2>6
    <3>2. now(n + 1) = [key |-> key, id |-> id]
      BY <2>3, <2>4, <2>6
    <3>3. E = {old(i) : i \in DOMAIN mo.types}
      BY <2>9
    <3>. HIDE DEF now, old
    <3>4. {now(i) : i \in DOMAIN r.types} = E \cup {[key |-> key, id |-> id]}
      BY <2>7, <3>1, <3>2, <3>3
    <3>. QED  BY <3>4 DEF now
  <2>11. TableOf(r.typeidx, E \cup {[key |-> key, id |-> id]})
    <3>1. TableOf(mo.typeidx, E)
      BY <2>9 DEF TypesIndexed
    <3>. QED  BY <2>5, <3>1, PutRight
  <2>. QED  BY <2>6, <2>8, <2>10, <2>11 DEF TypesIndexed
<1>. QED  BY <1>1, <1>2

-----------------------------------------------------------------------------
(* Every call keeps the tables                                             *)

\* Things changed but for their names; modules with the same tables.
SameNames(s, r) ==
    /\ DOMAIN r = DOMAIN s /\ Sequence(r)
    /\ \A i \in DOMAIN s : "name" \in DOMAIN r[i] /\ r[i].name = s[i].name
SameTables(mo, n) ==
    /\ TableFields \subseteq DOMAIN n
    /\ n.strs = mo.strs /\ n.types = mo.types /\ n.typeidx = mo.typeidx
    /\ n.symidx = mo.symidx /\ n.externs = mo.externs
    /\ SameNames(mo.funcs, n.funcs) /\ SameNames(mo.globals, n.globals)

\* The things of each kind.
LEMMA ThingsAre ==
  ASSUME NEW mo
  PROVE  /\ ThingsOf(mo)[1] = mo.funcs /\ ThingsOf(mo)[2] = mo.globals
         /\ ThingsOf(mo)[3] = mo.externs
         /\ Things(mo, 1) = mo.funcs /\ Things(mo, 2) = mo.globals
         /\ Things(mo, 3) = mo.externs
         /\ 1 .. 3 = {1, 2, 3}
BY DEF ThingsOf, Things

\* What an indexed module has.
LEMMA Parts ==
  ASSUME NEW mo, Indexed(mo)
  PROVE  /\ TableFields \subseteq DOMAIN mo
         /\ Sequence(mo.funcs) /\ Sequence(mo.globals) /\ Sequence(mo.externs)
         /\ \A i \in DOMAIN mo.funcs : "name" \in DOMAIN mo.funcs[i]
         /\ \A i \in DOMAIN mo.globals : "name" \in DOMAIN mo.globals[i]
         /\ \A i \in DOMAIN mo.externs : "name" \in DOMAIN mo.externs[i]
         /\ SameNames(mo.funcs, mo.funcs) /\ SameNames(mo.globals, mo.globals)
<1>1. \A k \in {1, 2, 3} : /\ Sequence(ThingsOf(mo)[k])
                           /\ \A i \in DOMAIN ThingsOf(mo)[k] : "name" \in DOMAIN ThingsOf(mo)[k][i]
  BY ThingsAre DEF Indexed, NamesIndexed
<1>. QED  BY <1>1, ThingsAre DEF Indexed, SameNames

\* A module whose names, types and strings are the same.
LEMMA Unchanged ==
  ASSUME NEW mo, Indexed(mo), NEW n, SameTables(mo, n)
  PROVE  Indexed(n)
<1>. DEFINE t == ThingsOf(mo)
            u == ThingsOf(n)
<1>1. \A k \in {1, 2, 3} : /\ DOMAIN u[k] = DOMAIN t[k] /\ Sequence(u[k])
                           /\ \A i \in DOMAIN t[k] : "name" \in DOMAIN u[k][i] /\ u[k][i].name = t[k][i].name
  BY ThingsAre, Parts DEF SameTables, SameNames
<1>2. 1 .. 3 = {1, 2, 3}
  OBVIOUS
<1>. HIDE DEF t, u
<1>3. NamesIndexed(mo.symidx, t)
  BY DEF Indexed, t
<1>4. Apart(u)
  BY <1>1, <1>2, <1>3 DEF Apart, NamesIndexed
<1>5. ASSUME NEW k \in 1 .. 3 PROVE SymOf(u[k], k) = SymOf(t[k], k)
  <2>1. \A i \in DOMAIN t[k] : [key |-> HashOf(<<u[k][i].name, k>>), id |-> i]
                                 = [key |-> HashOf(<<t[k][i].name, k>>), id |-> i]
    BY <1>1, <1>2
  <2>2. DOMAIN u[k] = DOMAIN t[k]
    BY <1>1, <1>2
  <2>. QED  BY <2>1, <2>2 DEF SymOf
<1>6. UNION {SymOf(u[k], k) : k \in 1 .. 3} = UNION {SymOf(t[k], k) : k \in 1 .. 3}
  BY <1>5
<1>7. NamesIndexed(mo.symidx, u)
  BY <1>1, <1>2, <1>3, <1>4, <1>6 DEF NamesIndexed
<1>. QED  BY <1>7 DEF Indexed, SameTables, u

\* limba_handled_touch.
LEMMA TouchKeeps ==
  ASSUME NEW mo, Indexed(mo)
  PROVE  Indexed(Touch(mo))
<1>1. PICK n : n = Touch(mo)
  OBVIOUS
<1>2. SameTables(mo, n)
  BY <1>1, Parts DEF Touch, SameTables, TableFields
<1>. QED  BY <1>1, <1>2, Unchanged

\* A thing changed that keeps its name.
LEMMA Changed ==
  ASSUME NEW s, Sequence(s), \A i \in DOMAIN s : "name" \in DOMAIN s[i],
         NEW r, NEW f \in DOMAIN s, "name" \in DOMAIN r[f], r[f].name = s[f].name,
         r \in [DOMAIN s -> ToSet(r)], \A i \in DOMAIN s : i # f => r[i] = s[i]
  PROVE  SameNames(s, r)
<1>1. PICK n \in Nat : DOMAIN s = 1 .. n
  BY SequenceIs DEF Sequence
<1>2. r \in [1 .. n -> ToSet(r)]
  BY <1>1 DEF ToSet
<1>3. Sequence(r)
  BY <1>2 DEF Sequence
<1>. QED  BY <1>3 DEF SameNames

\* A function changed that keeps its name.
LEMMA FuncChanged ==
  ASSUME NEW mo, Indexed(mo), NEW f \in DOMAIN mo.funcs, NEW x, NEW n,
         n = [mo EXCEPT !.funcs[f] = x], "name" \in DOMAIN x, x.name = mo.funcs[f].name
  PROVE  Indexed(n)
<1>1. PICK r : r = [mo.funcs EXCEPT ![f] = x]
  OBVIOUS
<1>2. r[f] = x /\ \A i \in DOMAIN mo.funcs : i # f => r[i] = mo.funcs[i]
  BY <1>1
<1>3. SameNames(mo.funcs, r)
  <2>1. r \in [DOMAIN mo.funcs -> ToSet(r)]
    BY <1>1 DEF ToSet
  <2>2. Sequence(mo.funcs) /\ \A i \in DOMAIN mo.funcs : "name" \in DOMAIN mo.funcs[i]
    BY Parts
  <2>3. "name" \in DOMAIN r[f] /\ r[f].name = mo.funcs[f].name
    BY <1>2
  <2>. QED  BY <1>2, <2>1, <2>2, <2>3, Changed
<1>4. n.funcs = r
  BY <1>1, Parts DEF TableFields
<1>5. SameTables(mo, n)
  BY <1>3, <1>4, Parts DEF SameTables, TableFields
<1>. QED  BY <1>5, Unchanged

\* A global changed that keeps its name.
LEMMA GlobalChanged ==
  ASSUME NEW mo, Indexed(mo), NEW f \in DOMAIN mo.globals, NEW x, NEW n,
         n = [mo EXCEPT !.globals[f] = x], "name" \in DOMAIN x, x.name = mo.globals[f].name
  PROVE  Indexed(n)
<1>1. PICK r : r = [mo.globals EXCEPT ![f] = x]
  OBVIOUS
<1>2. r[f] = x /\ \A i \in DOMAIN mo.globals : i # f => r[i] = mo.globals[i]
  BY <1>1
<1>3. SameNames(mo.globals, r)
  <2>1. r \in [DOMAIN mo.globals -> ToSet(r)]
    BY <1>1 DEF ToSet
  <2>2. Sequence(mo.globals) /\ \A i \in DOMAIN mo.globals : "name" \in DOMAIN mo.globals[i]
    BY Parts
  <2>3. "name" \in DOMAIN r[f] /\ r[f].name = mo.globals[f].name
    BY <1>2
  <2>. QED  BY <1>2, <2>1, <2>2, <2>3, Changed
<1>4. n.globals = r
  BY <1>1, Parts DEF TableFields
<1>5. SameTables(mo, n)
  BY <1>3, <1>4, Parts DEF SameTables, TableFields
<1>. QED  BY <1>5, Unchanged

\* limba_str_intern.
LEMMA InternKeeps ==
  ASSUME \A x : HashOf(x) \in Nat, NEW mo, Indexed(mo), NEW s
  PROVE  Indexed(Intern(mo, s))
<1>1. PICK n : n = Intern(mo, s)
  OBVIOUS
<1>2. PICK r : r = StrIntern(mo.strs, s)
  OBVIOUS
<1>3. /\ TableFields \subseteq DOMAIN n /\ n.strs = r
      /\ n.types = mo.types /\ n.typeidx = mo.typeidx /\ n.symidx = mo.symidx
      /\ n.funcs = mo.funcs /\ n.globals = mo.globals /\ n.externs = mo.externs
  BY <1>1, <1>2, Parts DEF Intern, TableFields
<1>4. StringsIndexed(r.text, r.index)
  BY <1>2, StringAdded DEF Indexed
<1>. QED  BY <1>1, <1>3, <1>4 DEF Indexed, ThingsOf

\* limba_type_array, limba_type_func and limba_type_struct, in a module.
LEMMA TypeKeeps ==
  ASSUME \A x : HashOf(x) \in Nat, NEW mo, Indexed(mo), NEW s
  PROVE  Indexed(TypeMade(mo, s))
<1>1. PICK n : n = TypeMade(mo, s)
  OBVIOUS
<1>2. /\ TableFields \subseteq DOMAIN n /\ n.strs = mo.strs /\ n.symidx = mo.symidx
      /\ n.funcs = mo.funcs /\ n.globals = mo.globals /\ n.externs = mo.externs
  BY <1>1, Parts DEF TypeMade, TypeAdded, TableFields
<1>3. TypesIndexed(n.types, n.typeidx)
  <2>1. {"types", "typeidx"} \subseteq DOMAIN mo
    BY Parts DEF TableFields
  <2>. QED  BY <1>1, <2>1, TypeMadeRight DEF Indexed
<1>. QED  BY <1>1, <1>2, <1>3 DEF Indexed, ThingsOf

\* name_taken: what is not taken is no thing's name.
LEMMA NotTaken ==
  ASSUME \A x : HashOf(x) \in Nat, NEW mo, Indexed(mo), NEW name, ~NameTaken(mo, name)
  PROVE  \A k \in 1 .. 3 : \A i \in DOMAIN ThingsOf(mo)[k] : ThingsOf(mo)[k][i].name # name
<1>1. SUFFICES ASSUME NEW k \in 1 .. 3, NEW i \in DOMAIN ThingsOf(mo)[k],
                      ThingsOf(mo)[k][i].name = name
               PROVE  FALSE
  OBVIOUS
<1>2. PICK t : t = ThingsOf(mo)
  OBVIOUS
<1>3. t[k] = Things(mo, k)
  BY <1>2, ThingsAre
<1>4. PICK f : f = SymFind(mo, name, k)
  OBVIOUS
<1>5. f = Find(mo.symidx, HashOf(<<name, k>>), {j \in DOMAIN t[k] : t[k][j].name = name})
  BY <1>3, <1>4 DEF SymFind
<1>6. NamesIndexed(mo.symidx, t)
  BY <1>2 DEF Indexed
<1>7. f = i
  BY <1>1, <1>2, <1>5, <1>6, NameFound
<1>8. i # 0
  BY <1>1, <1>2, <1>6, SequenceIs DEF NamesIndexed, Sequence
<1>. QED  BY <1>4, <1>7, <1>8 DEF NameTaken

\* A thing added to the module under a name that is free.
LEMMA ThingAdded ==
  ASSUME \A x : HashOf(x) \in Nat, NEW mo, Indexed(mo), NEW k \in 1 .. 3,
         NEW x, "name" \in DOMAIN x, ~NameTaken(mo, x.name),
         NEW n, TableFields \subseteq DOMAIN n,
         n.strs = mo.strs, n.types = mo.types, n.typeidx = mo.typeidx,
         n.symidx = Put(mo.symidx, HashOf(<<x.name, k>>), Len(ThingsOf(mo)[k]) + 1),
         ThingsOf(n)[k] = Append(ThingsOf(mo)[k], x),
         \A j \in 1 .. 3 : j # k => ThingsOf(n)[j] = ThingsOf(mo)[j]
  PROVE  Indexed(n)
<1>1. PICK t, u : t = ThingsOf(mo) /\ u = ThingsOf(n)
  OBVIOUS
<1>2. \A j \in 1 .. 3 : \A i \in DOMAIN t[j] : t[j][i].name # x.name
  BY <1>1, NotTaken
<1>3. NamesIndexed(mo.symidx, t)
  BY <1>1 DEF Indexed
<1>4. NamesIndexed(Put(mo.symidx, HashOf(<<x.name, k>>), Len(t[k]) + 1), u)
  <2>1. OneMore(t, u, k, x)
    BY <1>1, <1>2 DEF OneMore
  <2>. QED  BY <1>3, <2>1, NameAdded
<1>. QED  BY <1>1, <1>4 DEF Indexed

\* limba_func_add.
LEMMA FuncAddKeeps ==
  ASSUME \A x : HashOf(x) \in Nat, NEW mo, Indexed(mo), NEW name, NEW type, NEW flags
  PROVE  Indexed(FuncAdd(mo, name, type, flags))
<1>1. CASE NameTaken(mo, name)
  BY <1>1 DEF FuncAdd
<1>2. CASE ~NameTaken(mo, name)
  <2>1. PICK x : x = Func(name, type, flags)
    OBVIOUS
  <2>2. PICK n : n = Named([mo EXCEPT !.funcs = Append(@, x)], name, 1, Len(mo.funcs) + 1)
    OBVIOUS
  <2>3. FuncAdd(mo, name, type, flags) = Touch(n)
    BY <1>2, <2>1, <2>2 DEF FuncAdd
  <2>4. x.name = name /\ "name" \in DOMAIN x
    BY <2>1 DEF Func
  <2>5. /\ TableFields \subseteq DOMAIN n /\ n.strs = mo.strs /\ n.types = mo.types
        /\ n.typeidx = mo.typeidx /\ n.globals = mo.globals /\ n.externs = mo.externs
        /\ n.symidx = Put(mo.symidx, HashOf(<<name, 1>>), Len(mo.funcs) + 1)
        /\ n.funcs = Append(mo.funcs, x)
    BY <2>2, Parts DEF Named, TableFields
  <2>6. /\ n.symidx = Put(mo.symidx, HashOf(<<x.name, 1>>), Len(ThingsOf(mo)[1]) + 1)
        /\ ThingsOf(n)[1] = Append(ThingsOf(mo)[1], x)
        /\ \A j \in 1 .. 3 : j # 1 => ThingsOf(n)[j] = ThingsOf(mo)[j]
    BY <2>4, <2>5, ThingsAre
  <2>7. 1 \in 1 .. 3
    OBVIOUS
  <2>8. Indexed(n)
    BY <1>2, <2>4, <2>5, <2>6, <2>7, ThingAdded
  <2>. QED  BY <2>3, <2>8, TouchKeeps
<1>. QED  BY <1>1, <1>2

\* limba_global_add.
LEMMA GlobalAddKeeps ==
  ASSUME \A x : HashOf(x) \in Nat, NEW mo, Indexed(mo), NEW name, NEW type, NEW flags
  PROVE  Indexed(GlobalAdd(mo, name, type, flags))
<1>1. CASE NameTaken(mo, name)
  BY <1>1 DEF GlobalAdd
<1>2. CASE ~NameTaken(mo, name)
  <2>1. PICK x : x = Global(name, type, flags)
    OBVIOUS
  <2>2. PICK n : n = GlobalAdd(mo, name, type, flags)
    OBVIOUS
  <2>3. x.name = name /\ "name" \in DOMAIN x
    BY <2>1 DEF Global
  <2>4. /\ TableFields \subseteq DOMAIN n /\ n.strs = mo.strs /\ n.types = mo.types
        /\ n.typeidx = mo.typeidx /\ n.funcs = mo.funcs /\ n.externs = mo.externs
        /\ n.symidx = Put(mo.symidx, HashOf(<<name, 2>>), Len(mo.globals) + 1)
        /\ n.globals = Append(mo.globals, x)
    BY <1>2, <2>1, <2>2, Parts DEF GlobalAdd, Named, TableFields
  <2>5. /\ n.symidx = Put(mo.symidx, HashOf(<<x.name, 2>>), Len(ThingsOf(mo)[2]) + 1)
        /\ ThingsOf(n)[2] = Append(ThingsOf(mo)[2], x)
        /\ \A j \in 1 .. 3 : j # 2 => ThingsOf(n)[j] = ThingsOf(mo)[j]
    BY <2>3, <2>4, ThingsAre
  <2>6. 2 \in 1 .. 3
    OBVIOUS
  <2>7. Indexed(n)
    BY <1>2, <2>3, <2>4, <2>5, <2>6, ThingAdded
  <2>. QED  BY <2>2, <2>7
<1>. QED  BY <1>1, <1>2

\* limba_extern_add.
LEMMA ExternAddKeeps ==
  ASSUME \A x : HashOf(x) \in Nat, NEW mo, Indexed(mo), NEW name, NEW type,
         NEW symbol, NEW library
  PROVE  Indexed(ExternAdd(mo, name, type, symbol, library))
<1>1. CASE NameTaken(mo, name)
  BY <1>1 DEF ExternAdd
<1>2. CASE ~NameTaken(mo, name)
  <2>1. PICK x : x = [name |-> name, type |-> type, symbol |-> symbol, library |-> library]
    OBVIOUS
  <2>2. PICK n : n = ExternAdd(mo, name, type, symbol, library)
    OBVIOUS
  <2>3. x.name = name /\ "name" \in DOMAIN x
    BY <2>1
  <2>4. /\ TableFields \subseteq DOMAIN n /\ n.strs = mo.strs /\ n.types = mo.types
        /\ n.typeidx = mo.typeidx /\ n.funcs = mo.funcs /\ n.globals = mo.globals
        /\ n.symidx = Put(mo.symidx, HashOf(<<name, 3>>), Len(mo.externs) + 1)
        /\ n.externs = Append(mo.externs, x)
    BY <1>2, <2>1, <2>2, Parts DEF ExternAdd, Named, TableFields
  <2>5. /\ n.symidx = Put(mo.symidx, HashOf(<<x.name, 3>>), Len(ThingsOf(mo)[3]) + 1)
        /\ ThingsOf(n)[3] = Append(ThingsOf(mo)[3], x)
        /\ \A j \in 1 .. 3 : j # 3 => ThingsOf(n)[j] = ThingsOf(mo)[j]
    BY <2>3, <2>4, ThingsAre
  <2>6. 3 \in 1 .. 3
    OBVIOUS
  <2>7. Indexed(n)
    BY <1>2, <2>3, <2>4, <2>5, <2>6, ThingAdded
  <2>. QED  BY <2>2, <2>7
<1>. QED  BY <1>1, <1>2

\* limba_module_truncate: the table made again of the names that are left.
LEMMA TruncateKeeps ==
  ASSUME \A x : HashOf(x) \in Nat, NEW mo, Indexed(mo),
         NEW nf \in 0 .. Len(mo.funcs), NEW ne \in 0 .. Len(mo.externs)
  PROVE  Indexed(Truncate(mo, nf, ne))
<1>1. Len(mo.funcs) \in Nat /\ Len(mo.externs) \in Nat
  BY Parts, SequenceIs DEF Sequence
<1>2. PICK q : q = Kept(mo, nf, ne)
  OBVIOUS
<1>3. PICK n : n = WithNames(q)
  OBVIOUS
<1>4. Truncate(mo, nf, ne) = Touch(n)
  BY <1>1, <1>2, <1>3 DEF Truncate
<1>5. /\ TableFields \subseteq DOMAIN q /\ q.strs = mo.strs /\ q.types = mo.types
      /\ q.typeidx = mo.typeidx /\ q.globals = mo.globals
      /\ q.funcs = SubSeq(mo.funcs, 1, nf) /\ q.externs = SubSeq(mo.externs, 1, ne)
  BY <1>2, Parts DEF Kept, TableFields
<1>6. /\ TableFields \subseteq DOMAIN n /\ n.strs = q.strs /\ n.types = q.types
      /\ n.typeidx = q.typeidx /\ ThingsOf(n) = ThingsOf(q) /\ n.symidx = Renamed(q)
  BY <1>3, <1>5 DEF WithNames, TableFields, ThingsOf
<1>7. /\ Sequence(q.funcs) /\ DOMAIN q.funcs \subseteq DOMAIN mo.funcs
      /\ \A i \in DOMAIN q.funcs : q.funcs[i] = mo.funcs[i]
  BY <1>5, Parts, SequenceCut
<1>8. /\ Sequence(q.externs) /\ DOMAIN q.externs \subseteq DOMAIN mo.externs
      /\ \A i \in DOMAIN q.externs : q.externs[i] = mo.externs[i]
  BY <1>5, Parts, SequenceCut
<1>9. PICK t, u : t = ThingsOf(mo) /\ u = ThingsOf(q)
  OBVIOUS
<1>10. \A k \in {1, 2, 3} : /\ Sequence(u[k]) /\ DOMAIN u[k] \subseteq DOMAIN t[k]
                            /\ \A i \in DOMAIN u[k] : u[k][i] = t[k][i]
  <2>1. u[1] = q.funcs /\ u[2] = q.globals /\ u[3] = q.externs
    BY <1>9, ThingsAre
  <2>2. t[1] = mo.funcs /\ t[2] = mo.globals /\ t[3] = mo.externs
    BY <1>9, ThingsAre
  <2>3. Sequence(u[2]) /\ u[2] = t[2]
    BY <1>5, <2>1, <2>2, Parts
  <2>. QED  BY <1>7, <1>8, <2>1, <2>2, <2>3
<1>11. NamesIndexed(mo.symidx, t) /\ 1 .. 3 = {1, 2, 3}
  BY <1>9 DEF Indexed
<1>12. Apart(u)
  BY <1>10, <1>11 DEF Apart, NamesIndexed
<1>13. \A k \in 1 .. 3 : Sequence(u[k]) /\ \A i \in DOMAIN u[k] : "name" \in DOMAIN u[k][i]
  BY <1>10, <1>11 DEF NamesIndexed
<1>14. NamesIndexed(PutNames(PutNames(PutNames(NewHash, u[1], 1), u[2], 2), u[3], 3), u)
  BY <1>12, <1>13, NamesMade
<1>15. NamesIndexed(Renamed(q), u)
  BY <1>9, <1>14, ThingsAre DEF Renamed
<1>16. Indexed(n)
  BY <1>5, <1>6, <1>9, <1>15 DEF Indexed
<1>. QED  BY <1>4, <1>16, TouchKeeps

\* limba_global_set_data.
LEMMA SetDataKeeps ==
  ASSUME NEW mo, Indexed(mo), NEW g \in DOMAIN mo.globals, NEW bytes
  PROVE  Indexed(GlobalSetData(mo, g, bytes))
<1>1. PICK x : x = [WithData(mo.globals[g]) EXCEPT !.data = [NoData EXCEPT !.bytes = Trimmed(bytes)]]
  OBVIOUS
<1>2. "name" \in DOMAIN x /\ x.name = mo.globals[g].name
  BY <1>1, Parts DEF WithData
<1>3. PICK n : n = [mo EXCEPT !.globals[g] = x]
  OBVIOUS
<1>4. Indexed(n)
  BY <1>2, <1>3, GlobalChanged
<1>5. GlobalSetData(mo, g, bytes) = n
  BY <1>1, <1>3, Parts DEF GlobalSetData, TableFields
<1>. QED  BY <1>4, <1>5

\* limba_global_add_fill.
LEMMA AddFillKeeps ==
  ASSUME NEW mo, Indexed(mo), NEW g \in DOMAIN mo.globals, NEW fill
  PROVE  Indexed(GlobalAddFill(mo, g, fill))
<1>1. PICK x : x = Filled(mo.globals[g], fill)
  OBVIOUS
<1>2. "name" \in DOMAIN x /\ x.name = mo.globals[g].name
  BY <1>1, Parts DEF Filled, WithData
<1>3. PICK n : n = [mo EXCEPT !.globals[g] = x]
  OBVIOUS
<1>4. Indexed(n)
  BY <1>2, <1>3, GlobalChanged
<1>5. GlobalAddFill(mo, g, fill) = n
  BY <1>1, <1>3, Parts DEF GlobalAddFill, TableFields
<1>. QED  BY <1>4, <1>5

\* limba_global_add_reloc.
LEMMA AddRelocKeeps ==
  ASSUME NEW mo, Indexed(mo), NEW g \in DOMAIN mo.globals, NEW reloc
  PROVE  Indexed(GlobalAddReloc(mo, g, reloc))
<1>1. PICK x : x = Relocated(mo.globals[g], reloc)
  OBVIOUS
<1>2. "name" \in DOMAIN x /\ x.name = mo.globals[g].name
  BY <1>1, Parts DEF Relocated, WithData
<1>3. PICK n : n = [mo EXCEPT !.globals[g] = x]
  OBVIOUS
<1>4. Indexed(n)
  BY <1>2, <1>3, GlobalChanged
<1>5. WithReloc(mo, g, reloc) = n
  BY <1>1, <1>3, Parts DEF WithReloc, TableFields
<1>. QED  BY <1>4, <1>5, TouchKeeps DEF GlobalAddReloc

\* limba_block_add.
LEMMA BlockAddKeeps ==
  ASSUME NEW mo, Indexed(mo), NEW f \in DOMAIN mo.funcs
  PROVE  Indexed(BlockAdd(mo, f))
<1>1. PICK x : x = [mo.funcs[f] EXCEPT !.blocks = Append(@, NoBlock)]
  OBVIOUS
<1>2. "name" \in DOMAIN x /\ x.name = mo.funcs[f].name
  BY <1>1, Parts
<1>3. PICK n : n = [mo EXCEPT !.funcs[f] = x]
  OBVIOUS
<1>4. Indexed(n)
  BY <1>2, <1>3, FuncChanged
<1>5. BlockAdd(mo, f) = n
  BY <1>1, <1>3, Parts DEF BlockAdd, TableFields
<1>. QED  BY <1>4, <1>5

\* limba_block_set_handler.
LEMMA SetHandlerKeeps ==
  ASSUME NEW mo, Indexed(mo), NEW f \in DOMAIN mo.funcs, NEW b, NEW h
  PROVE  Indexed(SetHandler(mo, f, b, h))
<1>1. PICK x : x = [mo.funcs[f] EXCEPT !.blocks[b].handler = h]
  OBVIOUS
<1>2. "name" \in DOMAIN x /\ x.name = mo.funcs[f].name
  BY <1>1, Parts
<1>3. PICK n : n = [mo EXCEPT !.funcs[f] = x]
  OBVIOUS
<1>4. Indexed(n)
  BY <1>2, <1>3, FuncChanged
<1>5. SetHandler(mo, f, b, h) = Touch(n)
  BY <1>1, <1>3, Parts DEF SetHandler, TableFields
<1>. QED  BY <1>4, <1>5, TouchKeeps

\* limba_slot_add.
LEMMA SlotAddKeeps ==
  ASSUME NEW mo, Indexed(mo), NEW f \in DOMAIN mo.funcs, NEW slot
  PROVE  Indexed(SlotAdd(mo, f, slot))
<1>1. PICK x : x = [mo.funcs[f] EXCEPT !.slots = Append(@, slot)]
  OBVIOUS
<1>2. "name" \in DOMAIN x /\ x.name = mo.funcs[f].name
  BY <1>1, Parts
<1>3. PICK n : n = [mo EXCEPT !.funcs[f] = x]
  OBVIOUS
<1>4. Indexed(n)
  BY <1>2, <1>3, FuncChanged
<1>5. SlotAdd(mo, f, slot) = n
  BY <1>1, <1>3, Parts DEF SlotAdd, TableFields
<1>. QED  BY <1>4, <1>5

\* limba_inst_add.
LEMMA InstAddKeeps ==
  ASSUME NEW mo, Indexed(mo), NEW f \in DOMAIN mo.funcs, NEW b, NEW in
  PROVE  Indexed(InstAdd(mo, f, b, in))
<1>1. PICK x : x = WithInst(WithLoc(mo.funcs[f]), b, in)
  OBVIOUS
<1>2. "name" \in DOMAIN x /\ x.name = mo.funcs[f].name
  <2>1. PICK y : y = WithLoc(mo.funcs[f])
    OBVIOUS
  <2>2. "name" \in DOMAIN y /\ y.name = mo.funcs[f].name
    BY <2>1, Parts DEF WithLoc
  <2>. QED  BY <1>1, <2>1, <2>2 DEF WithInst
<1>3. PICK n : n = [mo EXCEPT !.funcs[f] = x]
  OBVIOUS
<1>4. Indexed(n)
  BY <1>2, <1>3, FuncChanged
<1>5. InstAdd(mo, f, b, in) = IF in.op \in Watched THEN Touch(n) ELSE n
  BY <1>1, <1>3, Parts DEF InstAdd, TableFields
<1>. QED  BY <1>4, <1>5, TouchKeeps

\* limba_func_clear.
LEMMA ClearKeeps ==
  ASSUME NEW mo, Indexed(mo), NEW f \in DOMAIN mo.funcs
  PROVE  Indexed(FuncClear(mo, f))
<1>1. PICK x : x = Cleared(Summary(mo.funcs[f]))
  OBVIOUS
<1>2. "name" \in DOMAIN x /\ x.name = mo.funcs[f].name
  <2>1. PICK y : y = Summary(mo.funcs[f])
    OBVIOUS
  <2>2. "name" \in DOMAIN y /\ y.name = mo.funcs[f].name
    BY <2>1, Parts DEF Summary
  <2>. QED  BY <1>1, <2>1, <2>2 DEF Cleared
<1>3. PICK n : n = [mo EXCEPT !.funcs[f] = x]
  OBVIOUS
<1>4. Indexed(n)
  BY <1>2, <1>3, FuncChanged
<1>5. FuncClear(mo, f) = Touch(n)
  BY <1>1, <1>3, Parts DEF FuncClear, TableFields
<1>. QED  BY <1>4, <1>5, TouchKeeps

\* limba_pos_add.
LEMMA PosKeeps ==
  ASSUME NEW mo, Indexed(mo), NEW p
  PROVE  Indexed(PosAdd(mo, p))
<1>1. PICK n : n = PosAdd(mo, p)
  OBVIOUS
<1>2. SameTables(mo, n)
  BY <1>1, Parts DEF PosAdd, SameTables, TableFields
<1>. QED  BY <1>1, <1>2, Unchanged

\* A position given to the instructions that follow.
LEMMA SetPosKeeps ==
  ASSUME NEW mo, Indexed(mo), NEW f \in DOMAIN mo.funcs, NEW p
  PROVE  Indexed([PosAdd(mo, p) EXCEPT !.funcs[f].pos_cur = Len(PosAdd(mo, p).pos)])
<1>1. PICK q : q = PosAdd(mo, p)
  OBVIOUS
<1>2. Indexed(q) /\ q.funcs = mo.funcs
  BY <1>1, PosKeeps, Parts DEF PosAdd, TableFields
<1>3. PICK x : x = [q.funcs[f] EXCEPT !.pos_cur = Len(q.pos)]
  OBVIOUS
<1>4. "name" \in DOMAIN x /\ x.name = q.funcs[f].name /\ f \in DOMAIN q.funcs
  BY <1>2, <1>3, Parts
<1>5. PICK n : n = [q EXCEPT !.funcs[f] = x]
  OBVIOUS
<1>6. Indexed(n)
  BY <1>2, <1>4, <1>5, FuncChanged
<1>7. [q EXCEPT !.funcs[f].pos_cur = Len(q.pos)] = n
  BY <1>2, <1>3, <1>5, Parts DEF TableFields
<1>. QED  BY <1>1, <1>6, <1>7

\* limba_module_handled.
LEMMA AskedKeeps ==
  ASSUME NEW mo, Indexed(mo)
  PROVE  Indexed(Asked(mo))
<1>1. PICK n : n = Asked(mo)
  OBVIOUS
<1>2. SameTables(mo, n)
  BY <1>1, Parts DEF Asked, SameTables, TableFields
<1>. QED  BY <1>1, <1>2, Unchanged

\* Every step of the front end keeps the tables of the module.
LEMMA StepKeeps ==
  ASSUME \A x : HashOf(x) \in Nat, Indexed(m), [BNext]_bvars
  PROVE  Indexed(m')
<1>1. CASE InternString
  BY <1>1, InternKeeps DEF InternString
<1>2. CASE AddType
  BY <1>2, TypeKeeps DEF AddType
<1>3. CASE AddArray
  BY <1>3, TypeKeeps DEF AddArray
<1>4. CASE AddFunc
  BY <1>4, FuncAddKeeps DEF AddFunc
<1>5. CASE AddGlobal
  BY <1>5, GlobalAddKeeps DEF AddGlobal
<1>6. CASE AddExtern
  BY <1>6, ExternAddKeeps DEF AddExtern
<1>7. CASE TruncateModule
  BY <1>7, TruncateKeeps DEF TruncateModule
<1>8. CASE SetData
  BY <1>8, SetDataKeeps DEF SetData, Globals
<1>9. CASE AddFill
  BY <1>9, AddFillKeeps DEF AddFill, Globals
<1>10. CASE AddReloc
  BY <1>10, AddRelocKeeps DEF AddReloc, Globals
<1>11. CASE AddBlock
  BY <1>11, BlockAddKeeps DEF AddBlock, Functions
<1>12. CASE GiveHandler
  BY <1>12, SetHandlerKeeps DEF GiveHandler, Functions
<1>13. CASE AddInst
  BY <1>13, InstAddKeeps DEF AddInst, Functions
<1>14. CASE AddSlot
  BY <1>14, SlotAddKeeps DEF AddSlot, Functions
<1>15. CASE SetPos
  BY <1>15, SetPosKeeps DEF SetPos, Functions
<1>16. CASE ClearFunc
  BY <1>16, ClearKeeps DEF ClearFunc, Functions
<1>17. CASE AskHandled
  BY <1>17, AskedKeeps DEF AskHandled
<1>18. CASE UNCHANGED bvars
  BY <1>18 DEF bvars
<1>. QED
  BY <1>1, <1>2, <1>3, <1>4, <1>5, <1>6, <1>7, <1>8, <1>9, <1>10, <1>11, <1>12, <1>13,
     <1>14, <1>15, <1>16, <1>17, <1>18 DEF BNext

\* s is the names of the three spaces of t, one after the other.
Joined(s, t, a, b, c) ==
    /\ DOMAIN t[1] = 1 .. a /\ DOMAIN t[2] = 1 .. b /\ DOMAIN t[3] = 1 .. c
    /\ DOMAIN s = 1 .. (a + b + c)
    /\ \A i \in 1 .. a : s[i] = t[1][i].name
    /\ \A i \in 1 .. b : s[a + i] = t[2][i].name
    /\ \A i \in 1 .. c : s[a + b + i] = t[3][i].name

\* The names the module has, as OneThing lists them.
LEMMA ThreeNames ==
  ASSUME NEW mo, Indexed(mo), NEW t, t = ThingsOf(mo),
         NEW s, s = NamesOf(mo.funcs) \o NamesOf(mo.globals) \o NamesOf(mo.externs)
  PROVE  \E a \in Nat, b \in Nat, c \in Nat : Joined(s, t, a, b, c)
<1>1. NamesIndexed(mo.symidx, t) /\ 1 .. 3 = {1, 2, 3}
  BY DEF Indexed
<1>. DEFINE N(k) == NamesOf(t[k])
            All == {t[1][i].name : i \in DOMAIN t[1]} \cup {t[2][i].name : i \in DOMAIN t[2]}
                     \cup {t[3][i].name : i \in DOMAIN t[3]}
<1>2. ASSUME NEW k \in {1, 2, 3}
      PROVE  /\ N(k) \in Seq(All) /\ DOMAIN N(k) = DOMAIN t[k] /\ Len(N(k)) = Len(t[k])
             /\ \A i \in DOMAIN t[k] : N(k)[i] = t[k][i].name
  <2>1. PICK n \in Nat : n = Len(t[k]) /\ DOMAIN t[k] = 1 .. n
    BY <1>1, SequenceIs DEF NamesIndexed, Sequence
  <2>2. \A i \in 1 .. n : t[k][i].name \in All
    BY <2>1
  <2>3. N(k) = [i \in 1 .. n |-> t[k][i].name]
    BY <2>1 DEF NamesOf
  <2>. HIDE DEF N, All
  <2>4. N(k) \in [1 .. n -> All]
    BY <2>2, <2>3
  <2>. QED  BY <2>1, <2>3, <2>4
<1>. HIDE DEF N, All
<1>3. PICK a \in Nat, b \in Nat, c \in Nat :
        a = Len(N(1)) /\ b = Len(N(2)) /\ c = Len(N(3))
  BY <1>2
<1>4. DOMAIN t[1] = 1 .. a /\ DOMAIN t[2] = 1 .. b /\ DOMAIN t[3] = 1 .. c
  BY <1>2, <1>3
<1>5. s = N(1) \o N(2) \o N(3)
  BY ThingsAre DEF N
<1>6. /\ DOMAIN s = 1 .. (a + b + c)
      /\ \A i \in 1 .. a : s[i] = t[1][i].name
      /\ \A i \in 1 .. b : s[a + i] = t[2][i].name
      /\ \A i \in 1 .. c : s[a + b + i] = t[3][i].name
  <2>1. PICK r : r = N(1) \o N(2)
    OBVIOUS
  <2>2. /\ r \in Seq(All) /\ Len(r) = a + b
        /\ \A i \in 1 .. a : r[i] = N(1)[i]
        /\ \A i \in 1 .. b : r[a + i] = N(2)[i]
    BY <1>2, <1>3, <2>1
  <2>3. /\ s \in Seq(All) /\ Len(s) = a + b + c
        /\ \A i \in 1 .. (a + b) : s[i] = r[i]
        /\ \A i \in 1 .. c : s[a + b + i] = N(3)[i]
    BY <1>2, <1>3, <1>5, <2>1, <2>2
  <2>4. ASSUME NEW i \in 1 .. a PROVE s[i] = t[1][i].name
    <3>1. N(1)[i] = t[1][i].name
      BY <1>2, <1>4
    <3>2. i \in 1 .. (a + b)
      OBVIOUS
    <3>. QED  BY <2>2, <2>3, <3>1, <3>2
  <2>5. ASSUME NEW i \in 1 .. b PROVE s[a + i] = t[2][i].name
    <3>1. N(2)[i] = t[2][i].name
      BY <1>2, <1>4
    <3>2. a + i \in 1 .. (a + b)
      OBVIOUS
    <3>. QED  BY <2>2, <2>3, <3>1, <3>2
  <2>6. \A i \in 1 .. c : s[a + b + i] = t[3][i].name
    BY <1>2, <1>4, <2>3
  <2>7. DOMAIN s = 1 .. (a + b + c)
    <3>1. PICK n \in Nat : n = a + b + c
      OBVIOUS
    <3>2. Len(s) = n
      BY <2>3, <3>1
    <3>3. DOMAIN s = 1 .. n
      BY <2>3, <3>2
    <3>. QED  BY <3>1, <3>3
  <2>. QED  BY <2>4, <2>5, <2>6, <2>7
<1>. QED  BY <1>3, <1>4, <1>6 DEF Joined

-----------------------------------------------------------------------------
(* What the tables hold makes every search right                           *)

\* What the tables hold makes every search right.
LEMMA SymbolsAreFound ==
  ASSUME \A x : HashOf(x) \in Nat, NEW mo, Indexed(mo)
  PROVE  SymbolsFound(mo)
<1>1. PICK t : t = ThingsOf(mo)
  OBVIOUS
<1>2. NamesIndexed(mo.symidx, t) /\ 1 .. 3 = {1, 2, 3}
  BY <1>1 DEF Indexed
<1>3. \A k \in {1, 2, 3} : t[k] = Things(mo, k)
  BY <1>1, ThingsAre
<1>4. ASSUME NEW k \in {1, 2, 3} PROVE Finds(mo, t[k], k)
  <2>1. SUFFICES ASSUME NEW i \in DOMAIN t[k] PROVE SymFind(mo, t[k][i].name, k) = i
    BY DEF Finds
  <2>2. PICK name : name = t[k][i].name
    OBVIOUS
  <2>3. PICK f : f = SymFind(mo, name, k)
    OBVIOUS
  <2>4. f = Find(mo.symidx, HashOf(<<name, k>>), {j \in DOMAIN t[k] : t[k][j].name = name})
    BY <1>3, <2>3 DEF SymFind
  <2>5. f = i
    BY <1>2, <2>2, <2>4, NameFound
  <2>. QED  BY <2>2, <2>3, <2>5
<1>5. PICK s : s = NamesOf(mo.funcs) \o NamesOf(mo.globals) \o NamesOf(mo.externs)
  OBVIOUS
<1>6. PICK a \in Nat, b \in Nat, c \in Nat : Joined(s, t, a, b, c)
  BY <1>1, <1>5, ThreeNames
<1>7. ASSUME NEW i \in DOMAIN s
       PROVE  \E k \in {1, 2, 3}, x \in Nat :
                /\ x \in DOMAIN t[k] /\ s[i] = t[k][x].name
                /\ i = x + (IF k = 1 THEN 0 ELSE IF k = 2 THEN a ELSE a + b)
  <2>1. i \in 1 .. (a + b + c)
    BY <1>6 DEF Joined
  <2>2. CASE i <= a
    <3>1. i \in 1 .. a /\ i \in Nat
      BY <2>1, <2>2
    <3>2. i \in DOMAIN t[1] /\ s[i] = t[1][i].name /\ i = i + 0
      BY <1>6, <3>1 DEF Joined
    <3>. QED  BY <3>1, <3>2
  <2>3. CASE i > a /\ i <= a + b
    <3>1. PICK x : x = i - a
      OBVIOUS
    <3>2. x \in Nat /\ x \in 1 .. b /\ i = a + x
      BY <2>1, <2>3, <3>1
    <3>3. x \in DOMAIN t[2] /\ s[i] = t[2][x].name /\ i = x + a
      BY <1>6, <3>2 DEF Joined
    <3>. QED  BY <3>2, <3>3
  <2>4. CASE i > a + b
    <3>1. PICK x : x = i - (a + b)
      OBVIOUS
    <3>2. x \in Nat /\ x \in 1 .. c /\ i = a + b + x
      BY <2>1, <2>4, <3>1
    <3>3. x \in DOMAIN t[3] /\ s[i] = t[3][x].name /\ i = x + (a + b)
      BY <1>6, <3>2 DEF Joined
    <3>. QED  BY <3>2, <3>3
  <2>. QED  BY <2>1, <2>2, <2>3, <2>4
<1>8. Distinct(s)
  <2>1. SUFFICES ASSUME NEW i \in DOMAIN s, NEW j \in DOMAIN s, s[i] = s[j] PROVE i = j
    BY DEF Distinct
  <2>2. PICK k \in {1, 2, 3}, x \in Nat :
          /\ x \in DOMAIN t[k] /\ s[i] = t[k][x].name
          /\ i = x + (IF k = 1 THEN 0 ELSE IF k = 2 THEN a ELSE a + b)
    BY <1>7
  <2>3. PICK l \in {1, 2, 3}, y \in Nat :
          /\ y \in DOMAIN t[l] /\ s[j] = t[l][y].name
          /\ j = y + (IF l = 1 THEN 0 ELSE IF l = 2 THEN a ELSE a + b)
    BY <1>7
  <2>4. k = l /\ x = y
    <3>1. t[k][x].name = t[l][y].name
      BY <2>1, <2>2, <2>3
    <3>2. Apart(t) /\ k \in 1 .. 3 /\ l \in 1 .. 3
      BY <1>2 DEF NamesIndexed
    <3>. QED  BY <2>2, <2>3, <3>1, <3>2 DEF Apart
  <2>. QED  BY <2>2, <2>3, <2>4
<1>9. Finds(mo, mo.funcs, 1) /\ Finds(mo, mo.globals, 2) /\ Finds(mo, mo.externs, 3)
  BY <1>1, <1>4, ThingsAre
<1>. QED  BY <1>5, <1>8, <1>9 DEF SymbolsFound

\* A type that is there is found at its id.
LEMMA TypesAreFound ==
  ASSUME \A x : HashOf(x) \in Nat, NEW mo, Indexed(mo)
  PROVE  TypesFound(mo)
<1>1. SUFFICES ASSUME NEW i \in DOMAIN mo.types
               PROVE  TypeFind(mo, mo.types[i]) = FirstUser - 1 + i
  BY DEF TypesFound
<1>2. TypeSame(mo.types[i], mo.types[i])
  BY Same
<1>3. PICK f : f = TypeFind(mo, mo.types[i])
  OBVIOUS
<1>4. f = FirstUser - 1 + i
  BY <1>1, <1>2, <1>3, TypeFound DEF Indexed
<1>. QED  BY <1>3, <1>4

\* A string that is there is found at its id.
LEMMA StringsAreFound ==
  ASSUME \A x : HashOf(x) \in Nat, NEW mo, Indexed(mo)
  PROVE  StringsFound(mo)
<1>1. SUFFICES ASSUME NEW i \in DOMAIN mo.strs.text
               PROVE  StrFind(mo.strs, mo.strs.text[i]) = i
  BY DEF StringsFound
<1>2. PICK s, f : s = mo.strs.text[i] /\ f = StrFind(mo.strs, s)
  OBVIOUS
<1>3. f = i
  BY <1>1, <1>2, StringFound DEF Indexed
<1>. QED  BY <1>2, <1>3

\* A name that is no one's is not found.
LEMMA NoOthers ==
  ASSUME \A x : HashOf(x) \in Nat, NEW mo, Indexed(mo), NEW names
  PROVE  NotFound(mo, names)
<1>1. SUFFICES ASSUME NEW name \in names, NEW k \in 1 .. 3, SymFind(mo, name, k) # 0
               PROVE  name \in ToSet(NamesOf(mo.funcs) \o NamesOf(mo.globals) \o NamesOf(mo.externs))
  BY DEF NotFound
<1>2. PICK t : t = ThingsOf(mo)
  OBVIOUS
<1>3. t[k] = Things(mo, k) /\ k \in {1, 2, 3}
  BY <1>2, ThingsAre
<1>4. PICK f : f = SymFind(mo, name, k)
  OBVIOUS
<1>5. f = Find(mo.symidx, HashOf(<<name, k>>), {j \in DOMAIN t[k] : t[k][j].name = name})
  BY <1>3, <1>4 DEF SymFind
<1>6. PICK i \in DOMAIN t[k] : t[k][i].name = name
  <2>1. NamesIndexed(mo.symidx, t)
    BY <1>2 DEF Indexed
  <2>. QED  BY <1>1, <1>4, <1>5, <2>1, NameFound
<1>7. PICK s : s = NamesOf(mo.funcs) \o NamesOf(mo.globals) \o NamesOf(mo.externs)
  OBVIOUS
<1>8. PICK a \in Nat, b \in Nat, c \in Nat : Joined(s, t, a, b, c)
  BY <1>2, <1>7, ThreeNames
<1>9. \E j \in DOMAIN s : s[j] = name
  <2>1. CASE k = 1
    <3>1. i \in 1 .. a /\ i \in DOMAIN s /\ s[i] = name
      BY <1>6, <1>8, <2>1 DEF Joined
    <3>. QED  BY <3>1
  <2>2. CASE k = 2
    <3>1. i \in 1 .. b /\ a + i \in DOMAIN s /\ s[a + i] = name
      BY <1>6, <1>8, <2>2 DEF Joined
    <3>. QED  BY <3>1
  <2>3. CASE k = 3
    <3>1. i \in 1 .. c /\ a + b + i \in DOMAIN s /\ s[a + b + i] = name
      BY <1>6, <1>8, <2>3 DEF Joined
    <3>. QED  BY <3>1
  <2>. QED  BY <1>3, <2>1, <2>2, <2>3
<1>. QED  BY <1>7, <1>9 DEF ToSet

\* A module just made has tables that hold nothing.
LEMMA StartRight ==
  Indexed(NewModule)
<1>1. \A k \in {1, 2, 3} : ThingsOf(NewModule)[k] = <<>>
  BY ThingsAre DEF NewModule
<1>2. Sequence(<<>>) /\ DOMAIN <<>> = {} /\ 1 .. 3 = {1, 2, 3}
  BY DEF Sequence
<1>3. NamesIndexed(NewHash, ThingsOf(NewModule))
  <2>1. UNION {SymOf(ThingsOf(NewModule)[k], k) : k \in 1 .. 3} = {}
    BY <1>1, <1>2 DEF SymOf
  <2>2. Apart(ThingsOf(NewModule))
    BY <1>1, <1>2 DEF Apart
  <2>. QED  BY <1>1, <1>2, <2>1, <2>2, NewHashRight DEF NamesIndexed
<1>4. StringsIndexed(<<>>, NewHash) /\ TypesIndexed(<<>>, NewHash)
  BY <1>2, NewHashRight DEF StringsIndexed, TypesIndexed, Distinct
<1>5. /\ TableFields \subseteq DOMAIN NewModule
      /\ NewModule.strs.text = <<>> /\ NewModule.strs.index = NewHash
      /\ NewModule.types = <<>> /\ NewModule.typeidx = NewHash
      /\ NewModule.symidx = NewHash
  BY DEF NewModule, NoStrings, TableFields
<1>. QED  BY <1>3, <1>4, <1>5 DEF Indexed

\* The inductive invariant: the tables hold what the module has.
Tables == Indexed(m)

\* OneThing of Building: whatever a front end calls, and however many keys
\* collide, each name, string and type stands for one thing and a search
\* finds it (limba_func_find and its like, type_find, limba_strtab_intern),
\* and a name that is no one's is not found.  limba_fnv gives a number that
\* is not negative.
THEOREM TablesRight ==
  ASSUME \A x : HashOf(x) \in Nat
  PROVE  BSpec => []OneThing
<1>1. BInit => Tables
  BY StartsAssumption DEF BInit, Tables
<1>2. Tables /\ [BNext]_bvars => Tables'
  BY StepKeeps DEF Tables
<1>3. Tables => OneThing
  BY SymbolsAreFound, TypesAreFound, StringsAreFound, NoOthers DEF OneThing, Tables
<1>. QED  BY <1>1, <1>2, <1>3, PTL DEF BSpec

=============================================================================
