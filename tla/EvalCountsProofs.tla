-------------------------- MODULE EvalCountsProofs --------------------------
(***************************************************************************)
(* check_mem (src/eval/eval.c).  The map of the objects is that of the     *)
(* objects alive, in every run of the interpreter and whatever the program *)
(* does: an access is let through exactly when its bytes lie in one of     *)
(* them.  And the words that check_mem knows are those that hold a string, *)
(* the counts what the program did, if it stores no string where no word   *)
(* is forgotten.                                                           *)
(***************************************************************************)
EXTENDS EvalCounts, ObjmapProofs

-----------------------------------------------------------------------------
(* The objects that a step makes and frees. *)

\* The bases of what lives, and what is known of it.
Alive(d, bl, cs, vs) ==
  {Glob} \cup {Slots[k] : k \in 1..d} \cup {b \in Block : bl[b] = "live"}
    \cup cs \cup {Bytes[s] : s \in vs}

Kinds(d, bl, cs, vs) ==
  /\ d \in 0..MaxDepth
  /\ vs \in SUBSET Str /\ IsFiniteSet(vs)
  /\ cs \in SUBSET CStr
  /\ bl \in [Block -> {"unused", "live", "freed"}]

ObjInv == /\ MapOf(objs, Alive(depth, block, cstrs, vals))
          /\ Kinds(depth, block, cstrs, vals)

\* The strings of a set freed one after the other, in any order.
LEMMA FreedRight ==
  ASSUME NEW m, NEW S, MapOf(m, S), NEW B \in SUBSET Str, IsFiniteSet(B),
         \A s \in B : Bytes[s] \in S
  PROVE  MapOf(FoldSet(LAMBDA s, x : Del(x, Bytes[s]), m, B),
               S \ {Bytes[s] : s \in B})
<1>. DEFINE Sub == SUBSET B
            One(T) == CHOOSE s \in T : TRUE
            Left(T) == S \ {Bytes[s] : s \in T}
            F[T \in SUBSET B] ==
              IF T = {} THEN m
              ELSE LET s == CHOOSE s \in T : TRUE
                   IN  Del(F[T \ {s}], Bytes[s])
            Body(f, T) == IF T = {} THEN m
                          ELSE Del(f[T \ {One(T)}], Bytes[One(T)])
            Fixed(f) == f = [T \in SUBSET B |-> Body(f, T)]
            rank == [T \in Sub |-> Cardinality(T)]
            nxt == [T \in Sub |-> T \ {One(T)}]
            b == [T \in Sub |-> m]
            Freed(T, x) == IF Del(x, Bytes[One(T)]) \in Map
                           THEN Del(x, Bytes[One(T)]) ELSE x
            h == [y \in Sub \X Map |-> Freed(y[1], y[2])]
\* f frees the strings of T after the others, where it can.
            Down(f) == /\ f[{}] = m
                       /\ \A T \in Sub \ {{}} :
                            MapOf(f[T \ {One(T)}], Left(T \ {One(T)}))
                            => f[T] = Del(f[T \ {One(T)}], Bytes[One(T)])
<1>1. FoldSet(LAMBDA s, x : Del(x, Bytes[s]), m, B) = F[B]
  BY DEF FoldSet, MapThenFoldSet
<1>2. F = CHOOSE f : Fixed(f)
  OBVIOUS
<1>. HIDE DEF F
<1>3. /\ \A T \in Sub : IsFiniteSet(T) /\ Cardinality(T) \in Nat
      /\ \A T \in Sub \ {{}} : One(T) \in T /\ One(T) \in B
  BY FS_Subset, FS_CardinalityType
<1>4. rank \in [Sub -> Nat]
  BY <1>3
<1>5. ASSUME NEW T \in Sub, T # {}
      PROVE  T \ {One(T)} \in Sub /\ rank[T \ {One(T)}] < rank[T]
  <2>. PICK o \in T : o = One(T)
    BY <1>3, <1>5
  <2>1. Cardinality(T \ {o}) = Cardinality(T) - 1
    BY <1>3, FS_RemoveElement
  <2>2. T \ {o} \in Sub
    OBVIOUS
  <2>3. rank[T \ {o}] = Cardinality(T) - 1 /\ rank[T] = Cardinality(T)
    BY <2>1, <2>2
  <2>. HIDE DEF One, rank
  <2>. QED  BY <1>3, <2>2, <2>3
<1>6. ASSUME NEW T \in Sub, T # {}
      PROVE  /\ Bytes[One(T)] \in Left(T \ {One(T)})
             /\ Left(T) = Left(T \ {One(T)}) \ {Bytes[One(T)]}
  <2>. PICK o \in T : o = One(T)
    BY <1>3, <1>6
  <2>. HIDE DEF One
  <2>1. o \in B /\ Bytes[o] \in S
    OBVIOUS
  <2>2. \A s \in T \ {o} : Bytes[s] # Bytes[o]
    BY <2>1, BasesAssumption
  <2>. QED  BY <2>1, <2>2
<1>. HIDE DEF Left
<1>7. ASSUME NEW f, Down(f)
      PROVE  \A T \in Sub : MapOf(f[T], Left(T))
  <2>. DEFINE P == {T \in Sub : MapOf(f[T], Left(T))}
  <2>1. ASSUME NEW T \in Sub, \A U \in Sub : rank[U] < rank[T] => U \in P
        PROVE  T \in P
    <3>1. CASE T = {}
      <4>1. Left({}) = S
        BY DEF Left
      <4>. QED  BY <1>7, <3>1, <4>1
    <3>2. CASE T # {}
      <4>o. PICK o : o = One(T)
        OBVIOUS
      <4>1. T \ {o} \in P
        BY <1>5, <2>1, <3>2, <4>o
      <4>2. MapOf(f[T \ {o}], Left(T \ {o}))
        BY <4>1
      <4>3. f[T] = Del(f[T \ {o}], Bytes[o])
        BY <1>7, <3>2, <4>2, <4>o
      <4>4. Bytes[o] \in Left(T \ {o}) /\ Left(T) = Left(T \ {o}) \ {Bytes[o]}
        BY <1>6, <3>2, <4>o
      <4>5. MapOf(Del(f[T \ {o}], Bytes[o]), Left(T \ {o}) \ {Bytes[o]})
        BY <4>2, <4>4, DelRight
      <4>. QED  BY <4>3, <4>4, <4>5
    <3>. QED  BY <3>1, <3>2
  <2>. HIDE DEF P, rank
  <2>2. Sub \subseteq P
    BY <1>4, <2>1, RankInduction
  <2>. QED  BY <2>2 DEF P
<1>8. m \in Map
  BY DEF MapOf
<1>9. b \in [Sub -> Map]
  BY <1>8
<1>10. nxt \in [Sub -> Sub]
  OBVIOUS
<1>11. h \in [Sub \X Map -> Map]
  OBVIOUS
<1>12. \A T \in Sub \ {{}} : rank[nxt[T]] < rank[T]
  BY <1>5
<1>. HIDE DEF rank
<1>13. PICK f \in [Sub -> Map] : Given(f, Sub, {{}}, b, h, nxt)
  <2>. HIDE DEF Sub, b, h, nxt
  <2>. QED  BY <1>4, <1>9, <1>10, <1>11, <1>12, Recursion
<1>14. ASSUME NEW T \in Sub
       PROVE  f[T] = IF T = {} THEN m ELSE Freed(T, f[T \ {One(T)}])
  <2>1. f[T] = IF T \in {{}} THEN b[T] ELSE h[<<T, f[nxt[T]]>>]
    BY <1>13 DEF Given
  <2>2. nxt[T] = T \ {One(T)} /\ nxt[T] \in Sub /\ f[nxt[T]] \in Map
    BY <1>10
  <2>. HIDE DEF Freed, One
  <2>. QED  BY <2>1, <2>2
<1>15. ASSUME NEW T \in Sub, T # {},
              MapOf(f[T \ {One(T)}], Left(T \ {One(T)}))
       PROVE  f[T] = Del(f[T \ {One(T)}], Bytes[One(T)])
  <2>1. Bytes[One(T)] \in Left(T \ {One(T)})
    BY <1>6, <1>15
  <2>2. MapOf(Del(f[T \ {One(T)}], Bytes[One(T)]),
              Left(T \ {One(T)}) \ {Bytes[One(T)]})
    BY <1>15, <2>1, DelRight
  <2>3. Del(f[T \ {One(T)}], Bytes[One(T)]) \in Map
    BY <2>2 DEF MapOf
  <2>. QED  BY <1>14, <1>15, <2>3
<1>16. {} \in Sub /\ f[{}] = m
  BY <1>14
<1>17. Down(f)
  BY <1>15, <1>16
<1>18. \A T \in Sub : MapOf(f[T], Left(T))
  BY <1>7, <1>17
<1>19. ASSUME NEW T \in Sub PROVE f[T] = Body(f, T)
  <2>1. CASE T = {}
    BY <1>14, <2>1
  <2>2. CASE T # {}
    BY <1>5, <1>15, <1>18, <2>2
  <2>. QED  BY <2>1, <2>2
<1>20. Fixed(f)
  BY <1>19
<1>21. Fixed(F)
  BY <1>2, <1>20
<1>22. \A T \in Sub : F[T] = Body(F, T)
  BY <1>21
<1>23. Down(F)
  BY <1>16, <1>22
<1>24. MapOf(F[B], Left(B))
  <2>. HIDE DEF Down
  <2>. QED  BY <1>7, <1>23
<1>. QED  BY <1>1, <1>24 DEF Left

LEMMA AskedForRight ==
  ASSUME NEW m, NEW S, MapOf(m, S), NEW p \in Int, NEW n
  PROVE  MapOf(AskedFor(m, p, n), S)
  BY AskedRight DEF AskedFor

\* An access changes the answer remembered and no object.
LEMMA AccessRight ==
  ASSUME ObjInv, NEW p \in Int, NEW n, objs' = AskedFor(objs, p, n),
         UNCHANGED <<depth, block, cstrs, vals>>
  PROVE  ObjInv'
<1>1. MapOf(AskedFor(objs, p, n), Alive(depth, block, cstrs, vals))
  BY AskedForRight DEF ObjInv, Kinds
<1>. QED  BY <1>1 DEF ObjInv, Kinds

LEMMA CallSlot ==
  ASSUME NEW d \in 0..MaxDepth, NEW bl, NEW cs, NEW vs,
         Kinds(d, bl, cs, vs), d < MaxDepth
  PROVE  /\ d + 1 \in 1..MaxDepth /\ Slots[d + 1] \in Base
         /\ Slots[d + 1] \notin Alive(d, bl, cs, vs)
         /\ Alive(d + 1, bl, cs, vs) = Alive(d, bl, cs, vs) \cup {Slots[d + 1]}
<1>1. d \in 0..MaxDepth /\ cs \in SUBSET CStr /\ vs \in SUBSET Str
  BY DEF Kinds
<1>2. d + 1 \in 1..MaxDepth
  BY <1>1, BasesAssumption
<1>3. 1..(d + 1) = 1..d \cup {d + 1} /\ d + 1 \notin 1..d
  OBVIOUS
<1>4. 1..d \subseteq 1..MaxDepth
  BY <1>1, BasesAssumption
<1>5. Slots[d + 1] \in Base
  BY <1>1, <1>2, BasesAssumption
<1>6. Slots[d + 1] \notin Alive(d, bl, cs, vs)
  <2>1. \A k \in 1..d : Slots[k] # Slots[d + 1]
    BY <1>1, <1>2, <1>3, <1>4, BasesAssumption
  <2>2. Slots[d + 1] \notin {Glob} \cup Block \cup CStr \cup {Bytes[s] : s \in Str}
    BY <1>1, <1>2, BasesAssumption
  <2>. QED  BY <1>1, <2>1, <2>2 DEF Alive
<1>7. {Slots[k] : k \in 1..(d + 1)} = {Slots[k] : k \in 1..d} \cup {Slots[d + 1]}
  BY <1>3
<1>8. Alive(d + 1, bl, cs, vs) = Alive(d, bl, cs, vs) \cup {Slots[d + 1]}
  BY <1>7 DEF Alive
<1>. QED  BY <1>2, <1>5, <1>6, <1>8

LEMMA StringBase ==
  ASSUME NEW d, NEW bl, NEW cs, NEW vs, Kinds(d, bl, cs, vs), NEW s \in Str
  PROVE  /\ Bytes[s] \in Base
         /\ s \notin vs => Bytes[s] \notin Alive(d, bl, cs, vs)
         /\ Alive(d, bl, cs, vs \cup {s}) = Alive(d, bl, cs, vs) \cup {Bytes[s]}
<1>1. d \in 0..MaxDepth /\ cs \in SUBSET CStr /\ vs \in SUBSET Str
  BY DEF Kinds
<1>2. Bytes[s] \in Base
  BY <1>1, BasesAssumption
<1>3. ASSUME s \notin vs PROVE Bytes[s] \notin Alive(d, bl, cs, vs)
  <2>1. \A k \in 1..d : Slots[k] # Bytes[s]
    <3>1. 1..d \subseteq 1..MaxDepth
      BY <1>1, BasesAssumption
    <3>. QED  BY <1>1, <3>1, BasesAssumption
  <2>2. \A t \in vs : Bytes[t] # Bytes[s]
    BY <1>1, <1>3, BasesAssumption
  <2>3. Bytes[s] \notin {Glob} \cup Block \cup CStr
    BY <1>1, BasesAssumption
  <2>. QED  BY <1>1, <2>1, <2>2, <2>3 DEF Alive
<1>4. Alive(d, bl, cs, vs \cup {s}) = Alive(d, bl, cs, vs) \cup {Bytes[s]}
  BY DEF Alive
<1>. QED  BY <1>2, <1>3, <1>4

LEMMA BlockBase ==
  ASSUME NEW d, NEW bl, NEW cs, NEW vs, Kinds(d, bl, cs, vs), NEW b \in Block
  PROVE  /\ b \in Base
         /\ bl[b] # "live" => b \notin Alive(d, bl, cs, vs)
         /\ bl[b] = "live" => b \in Alive(d, bl, cs, vs)
<1>1. d \in 0..MaxDepth /\ cs \in SUBSET CStr /\ vs \in SUBSET Str
  BY DEF Kinds
<1>2. b \in Base
  BY <1>1, BasesAssumption
<1>3. b \notin {Glob} \cup {Slots[k] : k \in 1..d} \cup cs \cup {Bytes[s] : s \in vs}
  <2>1. \A k \in 1..d : Slots[k] # b
    <3>1. 1..d \subseteq 1..MaxDepth
      BY <1>1, BasesAssumption
    <3>. QED  BY <1>1, <3>1, BasesAssumption
  <2>2. \A s \in vs : Bytes[s] # b
    BY <1>1, BasesAssumption
  <2>3. b # Glob /\ b \notin cs
    BY <1>1, BasesAssumption
  <2>. QED  BY <2>1, <2>2, <2>3
<1>4. bl[b] # "live" => b \notin Alive(d, bl, cs, vs)
  BY <1>1, <1>3 DEF Alive
<1>5. bl[b] = "live" => b \in Alive(d, bl, cs, vs)
  BY DEF Alive
<1>. QED  BY <1>2, <1>4, <1>5

LEMMA CstrBase ==
  ASSUME NEW d, NEW bl, NEW cs, NEW vs, Kinds(d, bl, cs, vs), NEW b \in CStr
  PROVE  /\ b \in Base
         /\ b \notin cs => b \notin Alive(d, bl, cs, vs)
         /\ b \in cs => b \in Alive(d, bl, cs, vs)
<1>1. d \in 0..MaxDepth /\ cs \in SUBSET CStr /\ vs \in SUBSET Str
  BY DEF Kinds
<1>2. b \in Base
  BY <1>1, BasesAssumption
<1>3. b \notin {Glob} \cup {Slots[k] : k \in 1..d} \cup Block \cup {Bytes[s] : s \in vs}
  <2>1. \A k \in 1..d : Slots[k] # b
    <3>1. 1..d \subseteq 1..MaxDepth
      BY <1>1, BasesAssumption
    <3>. QED  BY <1>1, <3>1, BasesAssumption
  <2>2. \A s \in vs : Bytes[s] # b
    BY <1>1, BasesAssumption
  <2>3. b # Glob /\ b \notin Block
    BY <1>1, BasesAssumption
  <2>. QED  BY <2>1, <2>2, <2>3
<1>4. b \notin cs => b \notin Alive(d, bl, cs, vs)
  BY <1>1, <1>3 DEF Alive
<1>5. b \in cs => b \in Alive(d, bl, cs, vs)
  BY DEF Alive
<1>. QED  BY <1>2, <1>4, <1>5

-----------------------------------------------------------------------------
(* The steps. *)

LEMMA MapInit ==
  ASSUME Init
  PROVE  ObjInv
<1>1. Glob \in Base /\ Glob \notin {} /\ MaxDepth \in Nat
  BY BasesAssumption
<1>2. MapOf(Add(EmptyMap, Glob), {} \cup {Glob})
  BY <1>1, EmptyMapOf, AddRight
<1>3. Alive(depth, block, cstrs, vals) = {} \cup {Glob}
  <2>1. {Slots[k] : k \in 1..0} = {}
    OBVIOUS
  <2>2. {b \in Block : block[b] = "live"} = {}
    BY DEF Init
  <2>. QED  BY <2>1, <2>2 DEF Init, Alive
<1>4. 0 \in 0..MaxDepth /\ IsFiniteSet(vals)
  BY <1>1, FS_EmptySet DEF Init
<1>. QED  BY <1>2, <1>3, <1>4 DEF Init, ObjInv, Kinds

\* Memory is read, written, copied and counted: no object comes or goes.
LEMMA AccessStep ==
  ASSUME ObjInv, NEW p \in Int, NEW n,
         \/ Load(p) \/ Store(p, v) \/ Store(p, 0) \/ LoadOther(p, n)
         \/ \E x : StoreOther(p, n, x) \/ Memset(p, n, x)
  PROVE  ObjInv'
<1>1. \/ objs' = AskedFor(objs, p, WordSize)
      \/ objs' = AskedFor(objs, p, n)
  BY DEF Load, Store, LoadOther, StoreOther, Memset
<1>2. UNCHANGED <<depth, block, cstrs, vals>>
  BY DEF Load, Store, LoadOther, StoreOther, Memset, Fails, MemRest
<1>. QED  BY <1>1, <1>2, AccessRight

LEMMA CopyStep ==
  ASSUME ObjInv, NEW dst \in Int, NEW src \in Int, NEW n, Memcpy(dst, src, n)
  PROVE  ObjInv'
<1>. DEFINE asked == AskedFor(objs, dst, n)
<1>1. UNCHANGED <<depth, block, cstrs, vals>>
  BY DEF Memcpy, Fails, MemRest
<1>2. objs' = asked \/ objs' = AskedFor(asked, src, n)
  BY DEF Memcpy
<1>3. MapOf(asked, Alive(depth, block, cstrs, vals))
  BY AskedForRight DEF ObjInv, Kinds
<1>. HIDE DEF asked
<1>4. MapOf(objs', Alive(depth, block, cstrs, vals))
  BY <1>2, <1>3, AskedForRight
<1>. QED  BY <1>1, <1>4 DEF ObjInv, Kinds

LEMMA WalkStep ==
  ASSUME ObjInv, NEW p \in Int, NEW n, NEW size, NEW t, NEW d,
         Reverse(p, n, size) \/ Rc(t, p, n, d)
  PROVE  ObjInv'
<1>1. CASE Reverse(p, n, size)
  <2>1. objs' = AskedFor(objs, p, n * size)
    BY <1>1 DEF Reverse
  <2>2. UNCHANGED <<depth, block, cstrs, vals>>
    BY <1>1 DEF Reverse, Fails, MemRest
  <2>. QED  BY <2>1, <2>2, AccessRight
<1>2. CASE Rc(t, p, n, d)
  <2>1. objs' = AskedFor(objs, p, n * t.size)
    BY <1>2 DEF Rc
  <2>2. UNCHANGED <<depth, block, cstrs, vals>>
    BY <1>2 DEF Rc, Fails
  <2>. QED  BY <2>1, <2>2, AccessRight
<1>. QED  BY <1>1, <1>2

LEMMA OtherStep ==
  ASSUME ObjInv, Move \/ Catch \/ Stop \/ EntryLeft \/ Done
  PROVE  ObjInv'
<1>1. UNCHANGED <<objs, depth, block, cstrs, vals>>
  BY DEF Move, Catch, Stop, EntryLeft, EndCheck, Done, vars
<1>. QED  BY <1>1 DEF ObjInv, Kinds

LEMMA MakeStrStep ==
  ASSUME ObjInv, NEW s \in Str, MakeStr(s)
  PROVE  ObjInv'
<1>1. /\ s \notin vals /\ vals' = vals \cup {s} /\ objs' = Add(objs, Bytes[s])
      /\ UNCHANGED <<block, cstrs, depth>>
  BY DEF MakeStr
<1>2. /\ MapOf(objs, Alive(depth, block, cstrs, vals))
      /\ depth \in 0..MaxDepth /\ vals \in SUBSET Str /\ cstrs \in SUBSET CStr
      /\ IsFiniteSet(vals) /\ Kinds(depth, block, cstrs, vals)
  BY DEF ObjInv, Kinds
<1>3. /\ Bytes[s] \in Base /\ Bytes[s] \notin Alive(depth, block, cstrs, vals)
      /\ Alive(depth, block, cstrs, vals \cup {s})
           = Alive(depth, block, cstrs, vals) \cup {Bytes[s]}
  BY <1>1, <1>2, StringBase
<1>4. MapOf(Add(objs, Bytes[s]),
            Alive(depth, block, cstrs, vals) \cup {Bytes[s]})
  BY <1>2, <1>3, AddRight
<1>5. IsFiniteSet(vals \cup {s})
  BY <1>2, FS_AddElement
<1>. QED  BY <1>1, <1>2, <1>3, <1>4, <1>5 DEF ObjInv, Kinds

LEMMA CollectStep ==
  ASSUME ObjInv, Collect
  PROVE  ObjInv'
<1>. DEFINE freed == {s \in vals : ~Survives(s)}
<1>1. /\ vals' = vals \ freed
      /\ objs' = FoldSet(LAMBDA s, x : Del(x, Bytes[s]), objs, freed)
      /\ UNCHANGED <<block, cstrs, depth>>
  BY DEF Collect
<1>2. freed \in SUBSET vals
  OBVIOUS
<1>. HIDE DEF freed
<1>3. /\ MapOf(objs, Alive(depth, block, cstrs, vals))
      /\ depth \in 0..MaxDepth /\ vals \in SUBSET Str /\ cstrs \in SUBSET CStr
      /\ IsFiniteSet(vals) /\ Kinds(depth, block, cstrs, vals)
  BY DEF ObjInv, Kinds
<1>4. \A s \in freed : Bytes[s] \in Alive(depth, block, cstrs, vals)
  BY <1>2 DEF Alive
<1>5. Alive(depth, block, cstrs, vals \ freed)
        = Alive(depth, block, cstrs, vals) \ {Bytes[s] : s \in freed}
  <2>1. ASSUME NEW s \in freed
        PROVE  Bytes[s] \notin Alive(depth, block, cstrs, vals \ freed)
    <3>1. Kinds(depth, block, cstrs, vals \ freed)
      BY <1>3, FS_Subset DEF Kinds
    <3>2. s \in Str /\ s \notin vals \ freed
      BY <1>2, <1>3, <2>1
    <3>. QED  BY <3>1, <3>2, StringBase
  <2>2. \A x \in Alive(depth, block, cstrs, vals) :
          x \in Alive(depth, block, cstrs, vals \ freed)
            \/ \E s \in freed : x = Bytes[s]
    BY DEF Alive
  <2>3. Alive(depth, block, cstrs, vals \ freed)
          \subseteq Alive(depth, block, cstrs, vals)
    BY DEF Alive
  <2>. QED  BY <2>1, <2>2, <2>3
<1>6. IsFiniteSet(freed) /\ IsFiniteSet(vals \ freed) /\ freed \in SUBSET Str
  BY <1>2, <1>3, FS_Subset
<1>7. MapOf(FoldSet(LAMBDA s, x : Del(x, Bytes[s]), objs, freed),
            Alive(depth, block, cstrs, vals) \ {Bytes[s] : s \in freed})
  BY <1>3, <1>4, <1>6, FreedRight
<1>8. MapOf(objs', Alive(depth, block, cstrs, vals \ freed))
  BY <1>1, <1>7, <1>5
<1>. QED  BY <1>1, <1>2, <1>3, <1>6, <1>8 DEF ObjInv, Kinds

LEMMA BlockStep ==
  ASSUME ObjInv, NEW b \in Block, Alloc(b) \/ Free(b)
  PROVE  ObjInv'
<1>1. /\ MapOf(objs, Alive(depth, block, cstrs, vals))
      /\ depth \in 0..MaxDepth /\ vals \in SUBSET Str /\ cstrs \in SUBSET CStr
      /\ IsFiniteSet(vals) /\ block \in [Block -> {"unused", "live", "freed"}]
      /\ Kinds(depth, block, cstrs, vals)
  BY DEF ObjInv, Kinds
<1>2. Kinds(depth, block, cstrs, vals)
  BY DEF ObjInv
<1>3. CASE Alloc(b)
  <2>1. /\ block[b] = "unused" /\ block' = [block EXCEPT ![b] = "live"]
        /\ objs' = Add(objs, b) /\ UNCHANGED <<vals, cstrs, depth>>
    BY <1>3 DEF Alloc
  <2>2. b \in Base /\ b \notin Alive(depth, block, cstrs, vals)
    <3>1. block[b] # "live"
      BY <2>1
    <3>. QED  BY <1>1, <3>1, BlockBase
  <2>3. MapOf(Add(objs, b), Alive(depth, block, cstrs, vals) \cup {b})
    BY <1>1, <2>2, AddRight
  <2>4. /\ block' \in [Block -> {"unused", "live", "freed"}]
        /\ {c \in Block : block'[c] = "live"}
             = {c \in Block : block[c] = "live"} \cup {b}
    BY <1>1, <2>1
  <2>5. Alive(depth, block', cstrs, vals)
          = Alive(depth, block, cstrs, vals) \cup {b}
    BY <2>4 DEF Alive
  <2>6. MapOf(objs', Alive(depth', block', cstrs', vals'))
    BY <2>1, <2>3, <2>5
  <2>. QED  BY <1>1, <2>1, <2>6, <2>4 DEF ObjInv, Kinds
<1>4. CASE Free(b)
  <2>1. /\ block[b] = "live" /\ block' = [block EXCEPT ![b] = "freed"]
        /\ objs' = Del(objs, b) /\ UNCHANGED <<vals, cstrs, depth>>
    BY <1>4 DEF Free
  <2>2. b \in Alive(depth, block, cstrs, vals)
    BY <1>1, <2>1, BlockBase
  <2>3. MapOf(Del(objs, b), Alive(depth, block, cstrs, vals) \ {b})
    BY <1>1, <2>2, DelRight
  <2>4. /\ block' \in [Block -> {"unused", "live", "freed"}]
        /\ {c \in Block : block[c] = "live"}
             = {c \in Block : block'[c] = "live"} \cup {b}
        /\ block'[b] # "live"
    BY <1>1, <2>1
  <2>5. Alive(depth, block', cstrs, vals)
          = Alive(depth, block, cstrs, vals) \ {b}
    <3>1. Kinds(depth, block', cstrs, vals)
      BY <1>2, <2>4 DEF Kinds
    <3>2. b \notin Alive(depth, block', cstrs, vals)
      BY <2>4, <3>1, BlockBase
    <3>3. Alive(depth, block, cstrs, vals)
            = Alive(depth, block', cstrs, vals) \cup {b}
      BY <2>4 DEF Alive
    <3>. QED  BY <3>2, <3>3
  <2>6. MapOf(objs', Alive(depth', block', cstrs', vals'))
    BY <2>1, <2>3, <2>5
  <2>. QED  BY <1>1, <2>1, <2>6, <2>4 DEF ObjInv, Kinds
<1>. QED  BY <1>3, <1>4

LEMMA CstrStep ==
  ASSUME ObjInv, NEW b \in CStr, CstrNew(b) \/ CstrFree(b)
  PROVE  ObjInv'
<1>1. /\ MapOf(objs, Alive(depth, block, cstrs, vals))
      /\ depth \in 0..MaxDepth /\ vals \in SUBSET Str /\ cstrs \in SUBSET CStr
      /\ IsFiniteSet(vals) /\ block \in [Block -> {"unused", "live", "freed"}]
      /\ Kinds(depth, block, cstrs, vals)
  BY DEF ObjInv, Kinds
<1>2. Kinds(depth, block, cstrs, vals)
  BY DEF ObjInv
<1>3. CASE CstrNew(b)
  <2>1. /\ b \notin cstrs /\ cstrs' = cstrs \cup {b}
        /\ objs' = Add(objs, b) /\ UNCHANGED <<vals, block, depth>>
    BY <1>3 DEF CstrNew
  <2>2. b \in Base /\ b \notin Alive(depth, block, cstrs, vals)
    BY <1>1, <2>1, CstrBase
  <2>3. MapOf(Add(objs, b), Alive(depth, block, cstrs, vals) \cup {b})
    BY <1>1, <2>2, AddRight
  <2>4. Alive(depth, block, cstrs \cup {b}, vals)
          = Alive(depth, block, cstrs, vals) \cup {b}
    BY DEF Alive
  <2>5. MapOf(objs', Alive(depth', block', cstrs', vals'))
    BY <2>1, <2>3, <2>4
  <2>. QED  BY <1>1, <2>1, <2>5 DEF ObjInv, Kinds
<1>4. CASE CstrFree(b)
  <2>1. /\ b \in cstrs /\ cstrs' = cstrs \ {b}
        /\ objs' = Del(objs, b) /\ UNCHANGED <<vals, block, depth>>
    BY <1>4 DEF CstrFree
  <2>2. b \in Alive(depth, block, cstrs, vals)
    BY <1>1, <2>1, CstrBase
  <2>3. MapOf(Del(objs, b), Alive(depth, block, cstrs, vals) \ {b})
    BY <1>1, <2>2, DelRight
  <2>4. Alive(depth, block, cstrs', vals)
          = Alive(depth, block, cstrs, vals) \ {b}
    <3>1. Kinds(depth, block, cstrs', vals) /\ b \notin cstrs'
      BY <1>2, <2>1 DEF Kinds
    <3>2. b \notin Alive(depth, block, cstrs', vals)
      BY <3>1, CstrBase
    <3>3. Alive(depth, block, cstrs, vals)
            = Alive(depth, block, cstrs', vals) \cup {b}
      BY <2>1 DEF Alive
    <3>. QED  BY <3>2, <3>3
  <2>5. MapOf(objs', Alive(depth', block', cstrs', vals'))
    BY <2>1, <2>3, <2>4
  <2>. QED  BY <1>1, <2>1, <2>5 DEF ObjInv, Kinds
<1>. QED  BY <1>3, <1>4

LEMMA CallStep ==
  ASSUME ObjInv, Call
  PROVE  ObjInv'
<1>1. /\ depth < MaxDepth /\ depth' = depth + 1
      /\ objs' = Add(objs, Slots[depth + 1])
      /\ UNCHANGED <<vals, block, cstrs>>
  BY DEF Call
<1>2. /\ MapOf(objs, Alive(depth, block, cstrs, vals))
      /\ depth \in 0..MaxDepth /\ vals \in SUBSET Str /\ cstrs \in SUBSET CStr
      /\ IsFiniteSet(vals) /\ Kinds(depth, block, cstrs, vals)
  BY DEF ObjInv, Kinds
<1>. DEFINE old == Alive(depth, block, cstrs, vals)
<1>3. /\ depth + 1 \in 1..MaxDepth /\ Slots[depth + 1] \in Base
      /\ Slots[depth + 1] \notin old
      /\ Alive(depth + 1, block, cstrs, vals) = old \cup {Slots[depth + 1]}
  BY <1>1, <1>2, CallSlot
<1>. HIDE DEF old
<1>4. MapOf(Add(objs, Slots[depth + 1]), old \cup {Slots[depth + 1]})
  BY <1>2, <1>3, AddRight DEF old
<1>5. MapOf(objs', Alive(depth', block', cstrs', vals'))
  BY <1>1, <1>3, <1>4
<1>6. depth' \in 0..MaxDepth
  BY <1>1, <1>3, BasesAssumption
<1>. QED  BY <1>1, <1>2, <1>5, <1>6 DEF ObjInv, Kinds

LEMMA LeaveStep ==
  ASSUME ObjInv, NEW next, depth > 0, Leave(next)
  PROVE  ObjInv'
<1>1. /\ MapOf(objs, Alive(depth, block, cstrs, vals))
      /\ depth \in 0..MaxDepth /\ vals \in SUBSET Str /\ cstrs \in SUBSET CStr
      /\ IsFiniteSet(vals) /\ Kinds(depth, block, cstrs, vals)
  BY DEF ObjInv, Kinds
<1>2. CASE UNCHANGED <<objs, depth, block, cstrs, vals>>
  BY <1>2 DEF ObjInv, Kinds
<1>3. CASE /\ objs' = Del(objs, Slots[depth]) /\ depth' = depth - 1
           /\ UNCHANGED <<vals, block, cstrs>>
  <2>d. PICK d : d = depth - 1
    OBVIOUS
  <2>1. d \in 0..MaxDepth /\ d < MaxDepth /\ d + 1 = depth
    BY <1>1, <2>d, BasesAssumption
  <2>. DEFINE less == Alive(d, block, cstrs, vals)
  <2>2. /\ Slots[depth] \notin less
        /\ Alive(depth, block, cstrs, vals) = less \cup {Slots[depth]}
    <3>1. Kinds(d, block, cstrs, vals)
      BY <1>1, <2>1 DEF Kinds
    <3>2. /\ Slots[d + 1] \notin less
          /\ Alive(d + 1, block, cstrs, vals) = less \cup {Slots[d + 1]}
      BY <2>1, <3>1, CallSlot
    <3>. QED  BY <2>1, <3>2
  <2>. HIDE DEF less
  <2>3. MapOf(Del(objs, Slots[depth]), (less \cup {Slots[depth]}) \ {Slots[depth]})
    BY <1>1, <2>2, DelRight
  <2>4. (less \cup {Slots[depth]}) \ {Slots[depth]} = less
    BY <2>2
  <2>5. MapOf(objs', Alive(depth', block', cstrs', vals'))
    BY <1>3, <2>d, <2>3, <2>4 DEF less
  <2>. QED  BY <1>1, <1>3, <2>d, <2>1, <2>5 DEF ObjInv, Kinds
<1>4. \/ UNCHANGED <<objs, depth, block, cstrs, vals>>
      \/ /\ objs' = Del(objs, Slots[depth]) /\ depth' = depth - 1
         /\ UNCHANGED <<vals, block, cstrs>>
  BY DEF Leave, Fails
<1>. QED  BY <1>2, <1>3, <1>4

LEMMA MapStep ==
  ASSUME ObjInv, [Next]_vars
  PROVE  ObjInv'
<1>1. \A p \in Ptr : p \in Int
  BY AccessAssumption
<1>2. ASSUME NEW p \in Ptr, Load(p) \/ \E x \in {v, 0} : Store(p, x)
      PROVE  ObjInv'
  BY <1>1, <1>2, AccessStep
<1>3. ASSUME NEW p \in Ptr, NEW n \in Len, LoadOther(p, n) PROVE ObjInv'
  BY <1>1, <1>3, AccessStep
<1>4. ASSUME NEW p \in Ptr, NEW n \in Len, NEW x \in {0, Other},
             StoreOther(p, n, x) \/ Memset(p, n, x)
      PROVE  ObjInv'
  BY <1>1, <1>4, AccessStep
<1>5. ASSUME NEW dst \in Ptr, NEW src \in Ptr, NEW n \in Len,
             Memcpy(dst, src, n)
      PROVE  ObjInv'
  BY <1>1, <1>5, CopyStep
<1>6. ASSUME NEW p \in Ptr, NEW n \in 0..3, NEW size \in Elem,
             Reverse(p, n, size)
      PROVE  ObjInv'
  BY <1>1, <1>6, WalkStep
<1>7. ASSUME NEW t \in Types, NEW p \in Ptr, NEW n \in 0..2,
             NEW d \in {1, -1}, Rc(t, p, n, d)
      PROVE  ObjInv'
  BY <1>1, <1>7, WalkStep
<1>8. ASSUME Return \/ Throw \/ Unwind PROVE ObjInv'
  BY <1>8, LeaveStep DEF Return, Throw, Unwind, Running
<1>9. CASE UNCHANGED vars
  BY <1>9 DEF ObjInv, Kinds, vars
<1>. QED  BY <1>2, <1>3, <1>4, <1>5, <1>6, <1>7, <1>8, <1>9, OtherStep,
             MakeStrStep, CollectStep, BlockStep, CstrStep, CallStep DEF Next

-----------------------------------------------------------------------------
(* The theorem. *)

\* objmap_holds, which every access of a program asks, is right in every
\* run: it lets n bytes through exactly when they lie in one object alive,
\* whatever was made and freed in which order, whatever the priorities of
\* the treap and whichever answer is remembered.
THEOREM AccessIsRight == Spec => []HoldsRight
<1>1. Init => ObjInv
  BY MapInit
<1>2. ObjInv /\ [Next]_vars => ObjInv'
  BY MapStep
<1>3. ObjInv => HoldsRight
  <2>1. ASSUME ObjInv, NEW p \in Ptr, NEW n \in Len
        PROVE  Holds(objs, p, n) <=> \E b \in LiveBase : Within(b, p, n)
    <3>1. p \in Int /\ n \in Nat
      BY AccessAssumption
    <3>2. MapOf(objs, LiveBase)
      BY <2>1 DEF ObjInv, Kinds, Alive, LiveBase
    <3>. QED  BY <3>1, <3>2, HoldsExactly
  <2>. QED  BY <2>1 DEF HoldsRight
<1>. QED  BY <1>1, <1>2, <1>3, PTL DEF Spec

-----------------------------------------------------------------------------
(* The counts and the words, in a program that keeps to KeptOut and        *)
(* ReversedWhole: the words of memory first, then each step.               *)

Value == Str \cup {0, Const, Other}

LEMMA WordFacts ==
  /\ Word \subseteq Int /\ IsFiniteSet(Word)
  /\ WordSize \in Nat \ {0}
  /\ \A w \in Word : w % WordSize = 0 /\ \E b \in Base : Within(b, w, WordSize)
  /\ \A w \in Int, b \in Base :
       w % WordSize = 0 /\ Within(b, w, WordSize) => w \in Word
<1>1. WordSize \in Nat \ {0} /\ Base \subseteq Nat /\ SizeOf \in [Base -> Nat]
  BY CountsAssumption, ObjmapAssumption
<1>2. Word = {w \in UNION {b..(b + SizeOf[b] - WordSize) : b \in Base} :
                w % WordSize = 0}
  BY CountsAssumption
<1>3. ASSUME NEW w \in Word
      PROVE  w \in Int /\ w % WordSize = 0 /\ \E b \in Base : Within(b, w, WordSize)
  <2>1. PICK b \in Base : w \in b..(b + SizeOf[b] - WordSize)
    BY <1>2
  <2>2. b \in Nat /\ SizeOf[b] \in Nat /\ w \in Int
    BY <1>1, <2>1
  <2>3. Within(b, w, WordSize)
    BY <1>1, <2>1, <2>2 DEF Within
  <2>. QED  BY <1>2, <2>2, <2>3
<1>4. ASSUME NEW w \in Int, NEW b \in Base, w % WordSize = 0, Within(b, w, WordSize)
      PROVE  w \in Word
  <2>1. b \in Nat /\ SizeOf[b] \in Nat
    BY <1>1
  <2>2. w \in b..(b + SizeOf[b] - WordSize)
    BY <1>1, <1>4, <2>1 DEF Within
  <2>. QED  BY <1>2, <1>4, <2>2
<1>. QED  BY <1>1, <1>3, <1>4, AccessAssumption

LEMMA LiveIsBase ==
  ASSUME ObjInv
  PROVE  LiveBase \subseteq Base /\ LiveBase = Alive(depth, block, cstrs, vals)
<1>1. Kinds(depth, block, cstrs, vals)
  BY DEF ObjInv
<1>2. \A d \in 1..depth : Slots[d] \in Base
  BY <1>1, BasesAssumption DEF Kinds
<1>3. \A s \in vals : Bytes[s] \in Base
  BY <1>1, BasesAssumption DEF Kinds
<1>. QED  BY <1>1, <1>2, <1>3, BasesAssumption DEF Kinds, LiveBase, Alive

\* A word in a tract that an access was let through is a word of memory, in
\* one object alive.
LEMMA LetThrough ==
  ASSUME ObjInv, NEW p \in Int, NEW n \in Nat, ~Wild(objs, p, n),
         NEW w \in Int, w % WordSize = 0, Whole(w, p, n)
  PROVE  w \in Word /\ \E b \in LiveBase : Within(b, w, WordSize)
<1>1. n > 0
  BY WordFacts DEF Whole
<1>2. Holds(objs, p, n)
  BY <1>1 DEF Wild
<1>3. MapOf(objs, LiveBase)
  BY LiveIsBase DEF ObjInv
<1>4. PICK b \in LiveBase : Within(b, p, n)
  BY <1>2, <1>3, HoldsExactly
<1>5. b \in Base /\ b \in Nat /\ SizeOf[b] \in Nat
  BY LiveIsBase, ObjmapAssumption
<1>6. Within(b, w, WordSize)
  BY <1>4, <1>5, WordFacts DEF Within, Whole
<1>. QED  BY <1>5, <1>6, WordFacts

\* Two objects share no byte.
LEMMA Apart ==
  ASSUME NEW a \in Base, NEW b \in Base, NEW w \in Word,
         Within(a, w, WordSize), Within(b, w, WordSize)
  PROVE  a = b
<1>1. a \in Nat /\ b \in Nat /\ SizeOf[a] \in Nat /\ SizeOf[b] \in Nat /\ w \in Int
  BY ObjmapAssumption, WordFacts
<1>2. a < b => a + SizeOf[a] <= b
  BY ObjmapAssumption
<1>3. b < a => b + SizeOf[b] <= a
  BY ObjmapAssumption
<1>. QED  BY <1>1, <1>2, <1>3, WordFacts DEF Within

\* The words that the loops visit over an object are those in it.
LEMMA TouchedIn ==
  ASSUME NEW b \in Base, NEW w \in Word
  PROVE  w \in Touched(b, SizeOf[b]) <=> Within(b, w, WordSize)
<1>1. b \in Nat /\ SizeOf[b] \in Nat /\ w \in Int /\ w % WordSize = 0
      /\ WordSize \in Nat \ {0}
  BY ObjmapAssumption, WordFacts
<1>2. b % WordSize \in 0..(WordSize - 1)
  BY <1>1, Div
<1>3. ASSUME Within(b, w, WordSize) PROVE w \in Touched(b, SizeOf[b])
  BY <1>1, <1>2, <1>3 DEF Within, Touched
<1>4. ASSUME w \in Touched(b, SizeOf[b]) PROVE Within(b, w, WordSize)
  <2>1. PICK a \in Base : Within(a, w, WordSize)
    BY WordFacts
  <2>2. a \in Nat /\ SizeOf[a] \in Nat
    BY ObjmapAssumption
  <2>3. b - (b % WordSize) <= w /\ w < b + SizeOf[b]
    BY <1>4 DEF Touched
  <2>4. a < b => a + SizeOf[a] <= b
    BY ObjmapAssumption
  <2>5. b < a => b + SizeOf[b] <= a
    BY ObjmapAssumption
  <2>6. a = b
    BY <1>1, <1>2, <2>1, <2>2, <2>3, <2>4, <2>5 DEF Within
  <2>. QED  BY <2>1, <2>6
<1>. QED  BY <1>3, <1>4

\* A word whole in a tract is one that its loop visits.
LEMMA WholeTouched ==
  ASSUME NEW w \in Word, NEW p \in Int, NEW n \in Int, Whole(w, p, n)
  PROVE  w \in Touched(p, n)
<1>1. w \in Int /\ WordSize \in Nat \ {0} /\ p % WordSize \in 0..(WordSize - 1)
  BY WordFacts, Div
<1>. QED  BY <1>1 DEF Whole, Touched

LEMMA HeldNat ==
  ASSUME NEW m, NEW s
  PROVE  HeldIn(m, s) \in Nat
  BY WordFacts, FS_Subset, FS_CardinalityType DEF HeldIn

LEMMA HeldSame ==
  ASSUME NEW m, NEW x, NEW s, \A w \in Word : m[w] = s <=> x[w] = s
  PROVE  HeldIn(m, s) = HeldIn(x, s)
<1>1. {w \in Word : m[w] = s} = {w \in Word : x[w] = s}
  OBVIOUS
<1>. QED  BY <1>1 DEF HeldIn

LEMMA HeldStored ==
  ASSUME NEW m \in [Word -> Value], NEW p \in Word, NEW x \in Value, NEW s,
         NEW r, \A w \in Word : r[w] = IF w = p THEN x ELSE m[w]
  PROVE  HeldIn(r, s)
           = HeldIn(m, s) + (IF x = s THEN 1 ELSE 0) - (IF m[p] = s THEN 1 ELSE 0)
<1>. DEFINE A == {w \in Word : m[w] = s}
            B == {w \in Word : r[w] = s}
<1>1. IsFiniteSet(A) /\ IsFiniteSet(B)
  BY WordFacts, FS_Subset
<1>2. /\ x = s => B = A \cup {p}
      /\ x # s => B = A \ {p}
      /\ p \in A <=> m[p] = s
  OBVIOUS
<1>. HIDE DEF A, B
<1>3. Cardinality(A) \in Nat
  BY <1>1, FS_CardinalityType
<1>4. CASE x = s
  <2>1. Cardinality(B) = IF p \in A THEN Cardinality(A) ELSE Cardinality(A) + 1
    BY <1>1, <1>2, <1>4, FS_AddElement
  <2>. QED  BY <1>2, <1>3, <1>4, <2>1 DEF A, B, HeldIn
<1>5. CASE x # s
  <2>1. Cardinality(B) = IF p \in A THEN Cardinality(A) - 1 ELSE Cardinality(A)
    BY <1>1, <1>2, <1>5, FS_RemoveElement
  <2>. QED  BY <1>2, <1>3, <1>5, <2>1 DEF A, B, HeldIn
<1>. QED  BY <1>4, <1>5

TypesRight ==
  /\ mem \in [Word -> Value] /\ words \subseteq Word
  /\ mrefs \in [Str -> Int] /\ owed \in [Str -> Int]
  /\ listed \subseteq Str /\ v \in vals \cup {Const, 0}

\* mrefs and the ledger together are what memory holds.
Balanced == \A s \in Str : mrefs[s] + owed[s] = HeldIn(mem, s)

\* A string with a count was made, is not freed, and will be looked at.
Referred == \A s \in Str : mrefs[s] # 0 => s \in vals /\ s \in listed

EndsSay ==
  /\ status = "ended" => \A s \in Str : owed[s] = 0
  /\ status = "unmatched" => \E s \in Str : owed[s] # 0

CountInv == ObjInv /\ TypesRight /\ Tracked /\ Balanced /\ Referred /\ EndsSay

\* The parts that a step on memory can disturb; the rest of the run goes on.
StepInv == TypesRight' /\ Tracked' /\ Balanced' /\ Referred' /\ EndsSay'

LEMMA Names ==
  /\ Str \subseteq Value /\ {0, Const, Other} \subseteq Value
  /\ 0 \notin Str /\ Const \notin Str /\ Other \notin Str
  /\ Other # 0 /\ Other # Const /\ Const # 0
  BY CountsAssumption DEF Value

LEMMA ValsStr ==
  ASSUME ObjInv
  PROVE  vals \subseteq Str /\ depth \in 0..MaxDepth /\ cstrs \subseteq CStr
  BY DEF ObjInv, Kinds

\* A word that holds what it should is one that is known, and the other way.
LEMMA KnownWord ==
  ASSUME CountInv, NEW w \in words
  PROVE  /\ w \in Word /\ mem[w] \in vals \cup {Const, 0} /\ mem[w] \in Value
         /\ \E b \in LiveBase : Within(b, w, WordSize)
  BY Names, ValsStr DEF CountInv, TypesRight, Tracked

LEMMA HoldsStr ==
  ASSUME CountInv, NEW w \in Word, mem[w] \in Str
  PROVE  w \in words /\ mem[w] \in vals
  BY Names DEF CountInv, Tracked

LEMMA AtFacts ==
  ASSUME CountInv, NEW p
  PROVE  /\ At(p) \in Value
         /\ p \in Word => At(p) = mem[p]
         /\ At(p) \in Str => p \in words
         /\ p \in words => At(p) \in vals \cup {Const, 0}
<1>1. CASE p \in Word
  BY <1>1, KnownWord, HoldsStr DEF At, CountInv, TypesRight
<1>2. CASE p \notin Word
  BY <1>2, Names DEF At, CountInv, TypesRight
<1>. QED  BY <1>1, <1>2

\* Nothing of memory, the counts or the objects changes.
LEMMA FailStep ==
  ASSUME CountInv, NEW s, s \notin {"ended", "unmatched"}, Fails(s)
  PROVE  StepInv
<1>1. UNCHANGED <<mem, words, mrefs, listed, vals, v, block, cstrs, depth, owed>>
      /\ status' = s
  BY DEF Fails
<1>2. Tracked'
  BY <1>1 DEF CountInv, Tracked, LiveBase
<1>3. TypesRight' /\ Balanced' /\ Referred'
  BY <1>1 DEF CountInv, TypesRight, Balanced, Referred, HeldIn
<1>. QED  BY <1>1, <1>2, <1>3 DEF StepInv, EndsSay

\* Memory becomes m, uncounted: the ledger takes the difference.
LEMMA UncountedRight ==
  ASSUME CountInv, NEW m \in [Word -> Value], Uncounted(m), UNCHANGED mrefs
  PROVE  owed' \in [Str -> Int] /\ mem' \in [Word -> Value] /\ Balanced'
<1>1. mem' = m /\ owed' = [s \in Str |-> owed[s] + HeldIn(m, s) - HeldIn(mem, s)]
  BY DEF Uncounted
<1>2. \A s \in Str : HeldIn(m, s) \in Nat /\ HeldIn(mem, s) \in Nat
                     /\ owed[s] \in Int /\ mrefs[s] \in Int
  BY HeldNat DEF CountInv, TypesRight
<1>3. ASSUME NEW s \in Str PROVE mrefs[s] + owed'[s] = HeldIn(m, s)
  <2>1. owed'[s] = owed[s] + HeldIn(m, s) - HeldIn(mem, s)
    BY <1>1
  <2>2. mrefs[s] + owed[s] = HeldIn(mem, s)
    BY DEF CountInv, Balanced
  <2>. QED  BY <1>2, <2>1, <2>2
<1>4. \A s \in Str : HeldIn(mem', s) = HeldIn(m, s)
  BY <1>1
<1>. QED  BY <1>1, <1>2, <1>3, <1>4 DEF Balanced

\* A step on memory only: what it must say of the words it leaves.
LEMMA MemoryStep ==
  ASSUME CountInv, status \notin {"ended", "unmatched"}, NEW m \in [Word -> Value],
         Uncounted(m), MemRest, words' \subseteq Word,
         \A w \in words' : /\ \E b \in LiveBase : Within(b, w, WordSize)
                           /\ m[w] \in vals \cup {Const, 0},
         \A w \in Word : m[w] \in Str => w \in words'
  PROVE  StepInv
<1>1. UNCHANGED <<mrefs, listed, vals, v, block, cstrs, depth, status>> /\ mem' = m
  BY DEF MemRest, Uncounted
<1>2. owed' \in [Str -> Int] /\ mem' \in [Word -> Value] /\ Balanced'
  BY <1>1, UncountedRight
<1>3. LiveBase' = LiveBase
  BY <1>1 DEF LiveBase
<1>4. Tracked'
  BY <1>1, <1>3 DEF Tracked
<1>5. TypesRight' /\ Referred'
  BY <1>1, <1>2 DEF CountInv, TypesRight, Referred
<1>. QED  BY <1>1, <1>2, <1>4, <1>5 DEF StepInv, EndsSay

LEMMA RunningOn ==
  ASSUME Running
  PROVE  status = "ok" /\ status \notin {"ended", "unmatched"}
  BY DEF Running

LEMMA FilledFacts ==
  ASSUME CountInv, NEW p, NEW n, NEW x \in {0, Other}
  PROVE  /\ Filled(p, n, x) \in [Word -> Value]
         /\ \A w \in Word : w \notin Touched(p, n) \/ n = 0
                              => Filled(p, n, x)[w] = mem[w]
         /\ \A w \in Word : w \in Touched(p, n) /\ n # 0
                              => Filled(p, n, x)[w] \notin Str
  BY Names DEF Filled, CountInv, TypesRight

LEMMA LoadCounts ==
  ASSUME CountInv, NEW p, Load(p)
  PROVE  StepInv
<1>1. CASE Fails("bad") \/ Fails("badmem")
  BY <1>1, FailStep
<1>2. CASE /\ ~(At(p) # 0 /\ p \notin words) /\ v' = At(p)
           /\ UNCHANGED <<mem, words, mrefs, listed, vals, block, cstrs, depth,
                          status, owed>>
  <2>1. v' \in vals \cup {Const, 0}
    BY <1>2, AtFacts
  <2>2. Tracked'
    BY <1>2 DEF CountInv, Tracked, LiveBase
  <2>3. TypesRight' /\ Balanced' /\ Referred' /\ EndsSay'
    BY <1>2, <2>1 DEF CountInv, TypesRight, Balanced, Referred, HeldIn, EndsSay
  <2>. QED  BY <2>2, <2>3 DEF StepInv
<1>. QED  BY <1>1, <1>2 DEF Load

LEMMA QuietCounts ==
  ASSUME CountInv, UNCHANGED <<mem, words, owed>>, MemRest
  PROVE  StepInv
<1>1. Tracked'
  BY DEF MemRest, CountInv, Tracked, LiveBase
<1>2. TypesRight' /\ Balanced' /\ Referred' /\ EndsSay'
  BY DEF MemRest, CountInv, TypesRight, Balanced, Referred, HeldIn, EndsSay
<1>. QED  BY <1>1, <1>2 DEF StepInv

LEMMA LoadOtherCounts ==
  ASSUME CountInv, NEW p, NEW n, LoadOther(p, n)
  PROVE  StepInv
  BY FailStep, QuietCounts DEF LoadOther

LEMMA StoreOtherCounts ==
  ASSUME CountInv, NEW p, NEW n, NEW x \in {0, Other}, StoreOther(p, n, x)
  PROVE  StepInv
<1>1. CASE Fails("bad") \/ Fails("badmem")
  BY <1>1, FailStep
<1>2. CASE NoStr(p, n) /\ Uncounted(Filled(p, n, x)) /\ UNCHANGED words /\ MemRest
  <2>. DEFINE m == Filled(p, n, x)
  <2>1. \A w \in words : w \in Word /\ m[w] = mem[w]
    BY <1>2, FilledFacts, KnownWord DEF NoStr
  <2>2. ASSUME NEW w \in words'
        PROVE  /\ \E b \in LiveBase : Within(b, w, WordSize)
               /\ m[w] \in vals \cup {Const, 0}
    BY <1>2, <2>1, KnownWord
  <2>3. ASSUME NEW w \in Word, m[w] \in Str PROVE w \in words'
    BY <1>2, <2>3, FilledFacts, HoldsStr
  <2>4. m \in [Word -> Value] /\ words' \subseteq Word
    BY <1>2, <2>1, FilledFacts
  <2>5. status \notin {"ended", "unmatched"}
    BY RunningOn DEF StoreOther
  <2>. HIDE DEF m
  <2>. QED  BY <1>2, <2>2, <2>3, <2>4, <2>5, MemoryStep DEF m
<1>. QED  BY <1>1, <1>2 DEF StoreOther

LEMMA NoneOfNothing ==
  ASSUME CountInv, NEW p \in Int, CanForget(p, 0)
  PROVE  Touched(p, 0) \cap words = {}
<1>1. ASSUME NEW w \in Touched(p, 0) \cap words PROVE FALSE
  <2>1. Whole(w, p, 0) /\ w \in Word
    BY DEF CanForget, Touched
  <2>. QED  BY <2>1, WordFacts DEF Whole
<1>. QED  BY <1>1

LEMMA MemsetCounts ==
  ASSUME CountInv, NEW p \in Int, NEW n, NEW x \in {0, Other}, Memset(p, n, x)
  PROVE  StepInv
<1>1. CASE Fails("bad") \/ Fails("badmem")
  BY <1>1, FailStep
<1>2. CASE CanForget(p, n) /\ Uncounted(Filled(p, n, x))
           /\ words' = words \ Touched(p, n) /\ MemRest
  <2>. DEFINE m == Filled(p, n, x)
  <2>1. ASSUME NEW w \in words'
        PROVE  /\ w \in Word /\ \E b \in LiveBase : Within(b, w, WordSize)
               /\ m[w] \in vals \cup {Const, 0}
    BY <1>2, FilledFacts, KnownWord
  <2>2. ASSUME NEW w \in Word, m[w] \in Str PROVE w \in words'
    <3>1. w \notin Touched(p, n) \/ n = 0
      BY <2>2, FilledFacts
    <3>2. w \in words
      BY <2>2, <3>1, FilledFacts, HoldsStr
    <3>. QED  BY <1>2, <3>1, <3>2, NoneOfNothing
  <2>3. m \in [Word -> Value] /\ words' \subseteq Word
    BY <2>1, FilledFacts
  <2>4. status \notin {"ended", "unmatched"}
    BY RunningOn DEF Memset
  <2>. HIDE DEF m
  <2>. QED  BY <1>2, <2>1, <2>2, <2>3, <2>4, MemoryStep DEF m
<1>. QED  BY <1>1, <1>2 DEF Memset

LEMMA StoreCounts ==
  ASSUME CountInv, NEW p \in Int, NEW x \in {v, 0}, Store(p, x)
  PROVE  StepInv
<1>1. CASE Fails("bad") \/ Fails("badmem")
  BY <1>1, FailStep
<1>2. CASE /\ ~Wild(objs, p, WordSize) /\ p % WordSize = 0
           /\ mrefs' = Stored(p, x)
           /\ listed' = listed \cup ({x, mem[p]} \cap Str)
           /\ mem' = [mem EXCEPT ![p] = x]
           /\ words' = words \cup {p}
           /\ UNCHANGED <<vals, v, block, cstrs, depth, status, owed>>
  <2>1. p \in Word /\ \E b \in LiveBase : Within(b, p, WordSize)
    <3>1. Whole(p, p, WordSize) /\ WordSize \in Nat
      BY WordFacts DEF Whole
    <3>. QED  BY <1>2, <3>1, LetThrough DEF CountInv
  <2>2. x \in vals \cup {Const, 0} /\ x \in Value
    BY Names, ValsStr DEF CountInv, TypesRight
  <2>3. LiveBase' = LiveBase
    BY <1>2 DEF LiveBase
  <2>4. mem \in [Word -> Value] /\ mem' \in [Word -> Value]
    BY <1>2, <2>2 DEF CountInv, TypesRight
  <2>5. Tracked'
    <3>1. \A w \in words : mem[w] \in vals \cup {Const, 0} /\ w \in Word
                           /\ \E b \in LiveBase : Within(b, w, WordSize)
      BY KnownWord
    <3>2. \A w \in words' : mem'[w] \in vals \cup {Const, 0}
                           /\ \E b \in LiveBase : Within(b, w, WordSize)
      BY <1>2, <2>1, <2>2, <2>4, <3>1
    <3>3. ASSUME NEW w \in Word, mem'[w] \in Str PROVE w \in words'
      <4>1. w # p => mem'[w] = mem[w]
        BY <1>2, <2>4
      <4>. QED  BY <1>2, <3>3, <4>1, HoldsStr
    <3>. QED  BY <1>2, <2>3, <3>2, <3>3 DEF Tracked
  <2>6. ASSUME NEW s \in Str
        PROVE  /\ mrefs'[s] \in Int
               /\ mrefs'[s] = mrefs[s] + (IF x = s THEN 1 ELSE 0)
                              - (IF mem[p] = s THEN 1 ELSE 0)
    <3>. DEFINE old == IF p \in words THEN mem[p] ELSE 0
                m == Counted({x} \cap Str, 1)
    <3>1. s = old <=> mem[p] = s
      BY <2>1, Names, HoldsStr
    <3>2. m[s] = IF x = s THEN mrefs[s] + 1 ELSE mrefs[s]
      BY DEF Counted
    <3>3. mrefs'[s] = IF s = old THEN m[s] - 1 ELSE m[s]
      BY <1>2 DEF Stored
    <3>4. mrefs[s] \in Int
      BY DEF CountInv, TypesRight
    <3>. HIDE DEF old, m
    <3>. QED  BY <3>1, <3>2, <3>3, <3>4
  <2>7. mrefs' \in [Str -> Int]
    <3>1. mrefs' = [s \in Str |-> mrefs'[s]]
      BY <1>2 DEF Stored
    <3>. QED  BY <2>6, <3>1
  <2>8. Balanced'
    <3>1. ASSUME NEW s \in Str PROVE mrefs'[s] + owed[s] = HeldIn(mem', s)
      <4>1. HeldIn(mem', s) = HeldIn(mem, s) + (IF x = s THEN 1 ELSE 0)
                               - (IF mem[p] = s THEN 1 ELSE 0)
        <5>1. \A w \in Word : mem'[w] = IF w = p THEN x ELSE mem[w]
          BY <1>2, <2>4
        <5>2. p \in Word
          BY <2>1
        <5>. QED  BY <2>2, <2>4, <5>1, <5>2, HeldStored
      <4>2. mrefs[s] + owed[s] = HeldIn(mem, s)
        BY DEF CountInv, Balanced
      <4>3. mrefs[s] \in Int /\ owed[s] \in Int /\ HeldIn(mem, s) \in Nat
        BY HeldNat DEF CountInv, TypesRight
      <4>. QED  BY <2>6, <4>1, <4>2, <4>3
    <3>. QED  BY <1>2, <3>1 DEF Balanced
  <2>9. Referred'
    <3>1. ASSUME NEW s \in Str, mrefs'[s] # 0 PROVE s \in vals /\ s \in listed'
      <4>1. CASE x = s
        BY <1>2, <2>2, <4>1, Names
      <4>2. CASE mem[p] = s
        BY <1>2, <2>1, <4>2, HoldsStr
      <4>3. CASE x # s /\ mem[p] # s
        <5>1. mrefs[s] # 0
          BY <2>6, <3>1, <4>3 DEF CountInv, TypesRight
        <5>. QED  BY <1>2, <5>1 DEF CountInv, Referred
      <4>. QED  BY <4>1, <4>2, <4>3
    <3>. QED  BY <1>2, <3>1 DEF Referred
  <2>10. TypesRight' /\ EndsSay'
    BY <1>2, <2>1, <2>4, <2>7 DEF CountInv, TypesRight, EndsSay
  <2>. QED  BY <2>5, <2>8, <2>9, <2>10 DEF StepInv
<1>. QED  BY <1>1, <1>2 DEF Store

LEMMA MemcpyCounts ==
  ASSUME CountInv, NEW dst \in Int, NEW src \in Int, NEW n \in Nat,
         Memcpy(dst, src, n)
  PROVE  StepInv
<1>. DEFINE moved == Touched(src, n) \cap words
            to == {dst + (w - src) : w \in moved}
            m == MovedTo(dst, src, n)
<1>1. CASE Fails("bad") \/ Fails("badmem")
  BY <1>1, FailStep
<1>2. CASE /\ ~Wild(objs, dst, n)
           /\ \A w \in moved : Whole(w, src, n)
           /\ moved # {} => (dst - src) % WordSize = 0
           /\ CanForget(dst, n)
           /\ Uncounted(m) /\ words' = (words \ Touched(dst, n)) \cup to
           /\ MemRest
  <2>1. m \in [Word -> Value]
    <3>1. \A w \in Word : mem[w] \in Value /\ At(src + (w - dst)) \in Value
      BY AtFacts DEF CountInv, TypesRight
    <3>. QED  BY <3>1, Names DEF MovedTo
  <2>2. ASSUME NEW w \in moved
        PROVE  /\ dst + (w - src) \in Word
               /\ \E b \in LiveBase : Within(b, dst + (w - src), WordSize)
               /\ m[dst + (w - src)] \in vals \cup {Const, 0}
    <3>. DEFINE u == dst + (w - src)
    <3>1. w \in Word /\ w \in Int /\ w % WordSize = 0 /\ Whole(w, src, n)
          /\ WordSize \in Nat \ {0} /\ (dst - src) % WordSize = 0
      BY <1>2, WordFacts, KnownWord
    <3>2. u \in Int /\ u % WordSize = 0
      <4>1. PICK d \in Int : d = dst - src
        OBVIOUS
      <4>2. u = w + d /\ d % WordSize = 0
        BY <3>1, <4>1
      <4>3. (w + d) % WordSize = 0
        BY <3>1, <4>1, <4>2, AlignedSum
      <4>. QED  BY <3>1, <4>2, <4>3
    <3>3. Whole(u, dst, n)
      BY <3>1 DEF Whole
    <3>4. u \in Word /\ \E b \in LiveBase : Within(b, u, WordSize)
      BY <1>2, <3>2, <3>3, LetThrough DEF CountInv
    <3>5. u \in Touched(dst, n) /\ n # 0
      BY <3>1, <3>3, <3>4, WholeTouched DEF Whole
    <3>6. src + (u - dst) = w
      BY <3>1
    <3>7. m[u] = At(w)
      BY <3>3, <3>4, <3>5, <3>6 DEF MovedTo
    <3>8. At(w) \in vals \cup {Const, 0}
      BY AtFacts
    <3>. QED  BY <3>4, <3>7, <3>8
  <2>3. ASSUME NEW w \in words'
        PROVE  /\ w \in Word /\ \E b \in LiveBase : Within(b, w, WordSize)
               /\ m[w] \in vals \cup {Const, 0}
    <3>1. CASE w \in words \ Touched(dst, n)
      <4>1. w \in Word /\ m[w] = mem[w]
        BY <3>1, KnownWord DEF MovedTo
      <4>. QED  BY <3>1, <4>1, KnownWord
    <3>2. CASE w \in to
      BY <2>2, <3>2
    <3>. QED  BY <1>2, <3>1, <3>2
  <2>4. ASSUME NEW w \in Word, m[w] \in Str PROVE w \in words'
    <3>1. CASE w \notin Touched(dst, n) \/ n = 0
      <4>1. m[w] = mem[w]
        BY <3>1 DEF MovedTo
      <4>2. w \in words
        BY <2>4, <4>1, HoldsStr
      <4>. QED  BY <1>2, <3>1, <4>2, NoneOfNothing
    <3>2. CASE ~(w \notin Touched(dst, n) \/ n = 0)
      <4>. DEFINE a == src + (w - dst)
      <4>1. Whole(w, dst, n) /\ m[w] = At(a)
        BY <2>4, <3>2, Names DEF MovedTo
      <4>2. a \in words
        BY <2>4, <4>1, AtFacts
      <4>3. a \in Word /\ w \in Int /\ WordSize \in Nat \ {0}
        BY <4>2, WordFacts, KnownWord
      <4>4. Whole(a, src, n)
        BY <4>1, <4>3 DEF Whole
      <4>5. a \in moved
        BY <4>2, <4>3, <4>4, WholeTouched
      <4>6. w = dst + (a - src)
        BY <4>3
      <4>7. w \in to
        <5>. HIDE DEF a, moved
        <5>. QED  BY <4>5, <4>6
      <4>. QED  BY <1>2, <4>7
    <3>. QED  BY <3>1, <3>2
  <2>5. words' \subseteq Word
    BY <2>3
  <2>6. status \notin {"ended", "unmatched"}
    BY RunningOn DEF Memcpy
  <2>. HIDE DEF m, to, moved
  <2>. QED  BY <1>2, <2>1, <2>3, <2>4, <2>5, <2>6, MemoryStep
<1>. QED
  <2>1. \/ Fails("bad") \/ Fails("badmem")
        \/ /\ ~Wild(objs, dst, n)
           /\ \A w \in moved : Whole(w, src, n)
           /\ ~(moved # {} /\ (dst - src) % WordSize # 0)
           /\ CanForget(dst, n)
           /\ Uncounted(m) /\ words' = (words \ Touched(dst, n)) \cup to
           /\ MemRest
    BY DEF Memcpy, WordsCopied
  <2>. QED  BY <1>1, <1>2, <2>1

\* A word whole in an element goes to one whole in an element of the tract,
\* and from there back.
LEMMA MirroredBack ==
  ASSUME NEW size \in Nat \ {0}, NEW n \in Nat, NEW q \in Int,
         q >= 0, q + WordSize <= n * size, (q % size) + WordSize <= size
  PROVE  /\ Mirrored(q, n, size) \in Nat
         /\ Mirrored(q, n, size) + WordSize <= n * size
         /\ (Mirrored(q, n, size) % size) + WordSize <= size
         /\ Mirrored(Mirrored(q, n, size), n, size) = q
<1>1. PICK e \in Int, r \in 0..(size - 1) :
        e = q \div size /\ r = q % size /\ q = size * e + r
  BY Div
<1>2. WordSize \in Nat \ {0}
  BY WordFacts
<1>3. e >= 0
  <2>1. e <= -1 => size * e <= -size
    OBVIOUS
  <2>. QED  BY <1>1, <2>1
<1>4. e <= n - 1
  <2>1. e >= n => size * e >= n * size
    BY <1>3
  <2>2. PICK k \in Int : k = n * size
    OBVIOUS
  <2>3. PICK j \in Int : j = size * e
    BY <1>1
  <2>4. q = j + r /\ q + WordSize <= k /\ (e >= n => j >= k)
    BY <1>1, <2>1, <2>2, <2>3
  <2>. QED  BY <1>1, <1>2, <2>4
<1>5. PICK f \in Nat : f = n - 1 - e
  BY <1>3, <1>4
<1>6. PICK t : t = size * f + r
  OBVIOUS
<1>7. Mirrored(q, n, size) = t
  BY <1>1, <1>5, <1>6 DEF Mirrored
<1>8. t % size = r /\ t \div size = f
  <2>1. t = size * f + r /\ f \in Int /\ r \in 0..(size - 1)
    BY <1>1, <1>5, <1>6
  <2>. QED  BY <2>1, DivOnce
<1>9. Mirrored(t, n, size) = q
  <2>1. Mirrored(t, n, size) = (n - 1 - f) * size + r
    BY <1>8 DEF Mirrored
  <2>2. n - 1 - f = e
    BY <1>5
  <2>. QED  BY <1>1, <2>1, <2>2
<1>10. size * f \in Nat /\ size * f + size <= n * size
  <2>1. f + 1 <= n
    BY <1>3, <1>5
  <2>2. PICK g \in Nat : n = f + 1 + g
    BY <2>1
  <2>3. n * size = size * f + size + g * size
    BY <2>2
  <2>4. size * f \in Nat /\ g * size \in Nat
    OBVIOUS
  <2>. QED  BY <2>3, <2>4
<1>11. t \in Nat /\ t + WordSize <= n * size
  BY <1>1, <1>2, <1>6, <1>10
<1>. QED  BY <1>1, <1>7, <1>8, <1>9, <1>11

LEMMA ReverseCounts ==
  ASSUME CountInv, NEW p \in Int, NEW n \in Nat, NEW size \in Nat \ {0},
         Reverse(p, n, size),
         \A w \in Touched(p, n * size) \cap words : ((w - p) % size) + WordSize <= size
  PROVE  StepInv
<1>. DEFINE len == n * size
            moved == Touched(p, len) \cap words
            from(w) == p + Mirrored(w - p, n, size)
            to == {from(w) : w \in moved}
            InOne(w) == Whole(w, p, len) /\ ((w - p) % size) + WordSize <= size
            m == [w \in Word |->
                    IF n < 2 \/ w \notin Touched(p, len) THEN mem[w]
                    ELSE IF /\ Whole(w, p, len)
                            /\ ((w - p) % size) + WordSize <= size
                    THEN At(from(w))
                    ELSE IF \A u \in Touched(p, len) : mem[u] = 0 THEN 0
                    ELSE Other]
<1>1. status \notin {"ended", "unmatched"}
  BY RunningOn DEF Reverse
<1>2. m \in [Word -> Value]
  <2>1. \A w \in Word : mem[w] \in Value /\ At(from(w)) \in Value
    BY AtFacts DEF CountInv, TypesRight
  <2>. HIDE DEF from
  <2>. QED  BY <2>1, Names
<1>3. \A w \in Word : n < 2 \/ w \notin Touched(p, len) => m[w] = mem[w]
  OBVIOUS
<1>4. \A w \in Word : n >= 2 /\ w \in Touched(p, len) /\ InOne(w)
                        => m[w] = At(from(w))
  OBVIOUS
<1>5. \A w \in Word : n >= 2 /\ w \in Touched(p, len) /\ ~InOne(w)
                        => m[w] \notin Str
  BY Names
<1>6. ASSUME NEW w \in Int, InOne(w)
      PROVE  from(w) \in Int /\ InOne(from(w)) /\ from(from(w)) = w
  <2>. DEFINE q == w - p
  <2>1. q \in Int /\ q >= 0 /\ q + WordSize <= n * size
        /\ (q % size) + WordSize <= size /\ WordSize \in Nat
    BY <1>6, WordFacts DEF Whole
  <2>2. PICK t : t = Mirrored(q, n, size)
    OBVIOUS
  <2>3. t \in Nat /\ t + WordSize <= n * size /\ (t % size) + WordSize <= size
        /\ Mirrored(t, n, size) = q
    BY <2>1, <2>2, MirroredBack
  <2>4. PICK u \in Int : u = p + t /\ u - p = t
    BY <2>3
  <2>5. from(w) = u
    BY <2>2, <2>4
  <2>6. from(u) = w
    BY <2>3, <2>4
  <2>7. InOne(u)
    <3>1. PICK k \in Int : k = n * size
      OBVIOUS
    <3>2. p <= u /\ u + WordSize <= p + k
      BY <2>1, <2>3, <2>4, <3>1
    <3>. QED  BY <2>3, <2>4, <3>1, <3>2 DEF Whole
  <2>. HIDE DEF from, InOne
  <2>. QED  BY <2>4, <2>5, <2>6, <2>7
<1>7. CASE Fails("bad") \/ Fails("badmem")
  BY <1>7, FailStep
<1>8. CASE n < 2 /\ Uncounted(m) /\ words' = words /\ MemRest
  <2>1. \A w \in Word : m[w] = mem[w]
    BY <1>3, <1>8
  <2>. HIDE DEF m
  <2>2. \A w \in words' : /\ w \in Word /\ \E b \in LiveBase : Within(b, w, WordSize)
                          /\ m[w] \in vals \cup {Const, 0}
    BY <1>8, <2>1, KnownWord
  <2>3. \A w \in Word : m[w] \in Str => w \in words'
    BY <1>8, <2>1, HoldsStr
  <2>4. words' \subseteq Word
    BY <2>2
  <2>. QED  BY <1>1, <1>2, <1>8, <2>2, <2>3, <2>4, MemoryStep
<1>9. CASE /\ n >= 2 /\ ~Wild(objs, p, len) /\ CanForget(p, len)
           /\ \A w \in to : w % WordSize = 0
           /\ Uncounted(m) /\ words' = (words \ moved) \cup to /\ MemRest
  <2>. HIDE DEF m
  <2>1. ASSUME NEW w \in moved
        PROVE  w \in Int /\ w \in Word /\ InOne(w)
    BY <1>9, KnownWord, WordFacts DEF CanForget
  <2>2. ASSUME NEW w \in moved
        PROVE  /\ from(w) \in Word /\ \E b \in LiveBase : Within(b, from(w), WordSize)
               /\ m[from(w)] \in vals \cup {Const, 0}
    <3>1. w \in Int /\ w \in words /\ InOne(w)
      BY <2>1
    <3>2. PICK u : u = from(w)
      OBVIOUS
    <3>3. u \in Int /\ InOne(u) /\ from(u) = w /\ u % WordSize = 0
      BY <1>6, <1>9, <3>1, <3>2
    <3>. HIDE DEF from, moved, to
    <3>4. len \in Nat
      OBVIOUS
    <3>5. u \in Word /\ \E b \in LiveBase : Within(b, u, WordSize)
      <4>. HIDE DEF len
      <4>. QED  BY <1>9, <3>3, <3>4, LetThrough DEF CountInv
    <3>6. u \in Touched(p, len)
      <4>. HIDE DEF len
      <4>. QED  BY <3>3, <3>4, <3>5, WholeTouched
    <3>7. m[u] = At(w)
      BY <1>4, <1>9, <3>3, <3>5, <3>6
    <3>8. At(w) \in vals \cup {Const, 0}
      BY <3>1, AtFacts
    <3>. QED  BY <3>2, <3>5, <3>7, <3>8
  <2>3. ASSUME NEW w \in words'
        PROVE  /\ w \in Word /\ \E b \in LiveBase : Within(b, w, WordSize)
               /\ m[w] \in vals \cup {Const, 0}
    <3>1. CASE w \in words \ moved
      <4>1. w \in Word /\ w \notin Touched(p, len)
        BY <3>1, KnownWord
      <4>. QED  BY <1>3, <3>1, <4>1, KnownWord
    <3>2. CASE w \in to
      BY <2>2, <3>2
    <3>. QED  BY <1>9, <3>1, <3>2
  <2>4. ASSUME NEW w \in Word, m[w] \in Str PROVE w \in words'
    <3>1. CASE w \notin Touched(p, len)
      <4>1. w \in words \ moved
        BY <1>3, <2>4, <3>1, HoldsStr
      <4>. QED  BY <1>9, <4>1
    <3>2. CASE w \in Touched(p, len)
      <4>1. w \in Int /\ InOne(w) /\ m[w] = At(from(w))
        BY <1>4, <1>5, <1>9, <2>4, <3>2, WordFacts
      <4>2. PICK a : a = from(w)
        OBVIOUS
      <4>3. a \in Int /\ InOne(a) /\ from(a) = w
        BY <1>6, <4>1, <4>2
      <4>4. a \in words /\ a \in Word
        BY <2>4, <4>1, <4>2, AtFacts, KnownWord
      <4>. HIDE DEF from
      <4>5. a \in Touched(p, len)
        <5>1. len \in Int
          OBVIOUS
        <5>. HIDE DEF len
        <5>. QED  BY <4>3, <4>4, <5>1, WholeTouched
      <4>6. w \in to
        BY <4>3, <4>4, <4>5
      <4>. QED  BY <1>9, <4>6
    <3>. QED  BY <3>1, <3>2
  <2>5. words' \subseteq Word
    BY <2>3
  <2>. HIDE DEF to, moved
  <2>. QED  BY <1>1, <1>2, <1>9, <2>3, <2>4, <2>5, MemoryStep
<1>. QED
  <2>. HIDE DEF from
  <2>1. \/ Fails("bad") \/ Fails("badmem")
        \/ /\ ~Wild(objs, p, len)
           /\ ~(n >= 2 /\ (\/ ~CanForget(p, len)
                           \/ \E w \in to : w % WordSize # 0))
           /\ Uncounted(m)
           /\ words' = IF n < 2 THEN words ELSE (words \ moved) \cup to
           /\ MemRest
    BY DEF Reverse, from
  <2>. HIDE DEF m, to, moved, len
  <2>. QED  BY <1>7, <1>8, <1>9, <2>1

\* What rc_walk counts at the places P.
LEMMA WalkedFacts ==
  ASSUME CountInv, NEW P, NEW d \in {1, -1}
  PROVE  /\ Walked(P, d) \in [Str -> Int]
         /\ ListedBy(P) \subseteq Str
         /\ \A s \in Str : Walked(P, d)[s] # 0 => s \in vals /\ s \in ListedBy(P)
<1>1. ASSUME NEW s \in Str
      PROVE  /\ Walked(P, d)[s] \in Int
             /\ Walked(P, d)[s] # 0 => s \in vals /\ s \in ListedBy(P)
  <2>. DEFINE at == {a \in P : At(a) = s}
  <2>1. at \subseteq words /\ at \subseteq Word
    BY AtFacts, KnownWord
  <2>2. IsFiniteSet(at)
    <3>. HIDE DEF at
    <3>. QED  BY <2>1, WordFacts, FS_Subset
  <2>3. PICK k \in Nat : k = Cardinality(at)
    BY <2>2, FS_CardinalityType
  <2>4. Walked(P, d)[s] = mrefs[s] + d * k
    BY <2>3 DEF Walked
  <2>5. mrefs[s] \in Int
    BY DEF CountInv, TypesRight
  <2>6. k # 0 => s \in vals /\ s \in ListedBy(P)
    <3>1. k # 0 => at # {}
      BY <2>3, FS_EmptySet
    <3>2. ASSUME NEW a \in at PROVE s \in vals /\ s \in ListedBy(P)
      <4>1. At(a) = s /\ a \in P /\ a \in words
        BY <2>1
      <4>2. s \in vals
        BY <4>1, AtFacts, Names
      <4>. QED  BY <4>1, <4>2 DEF ListedBy
    <3>. HIDE DEF at
    <3>. QED  BY <3>1, <3>2
  <2>7. mrefs[s] # 0 => s \in vals /\ s \in ListedBy(P)
    BY DEF CountInv, Referred, ListedBy
  <2>. QED  BY <2>4, <2>5, <2>6, <2>7
<1>2. Walked(P, d) = [s \in Str |-> Walked(P, d)[s]]
  BY DEF Walked
<1>3. ListedBy(P) \subseteq Str
  BY DEF ListedBy, CountInv, TypesRight
<1>. QED  BY <1>1, <1>2, <1>3

LEMMA RcCounts ==
  ASSUME CountInv, NEW t, NEW p, NEW n, NEW d \in {1, -1}, Rc(t, p, n, d)
  PROVE  StepInv
<1>1. CASE Fails("bad") \/ Fails("badmem")
  BY <1>1, FailStep
<1>2. ASSUME NEW P, mrefs' = Walked(P, d), listed' = ListedBy(P),
             owed' = [s \in Str |-> owed[s] - (mrefs'[s] - mrefs[s])],
             UNCHANGED <<mem, words, vals, v, block, cstrs, depth, status>>
      PROVE  StepInv
  <2>1. /\ mrefs' \in [Str -> Int] /\ listed' \subseteq Str
        /\ \A s \in Str : mrefs'[s] # 0 => s \in vals /\ s \in listed'
    BY <1>2, WalkedFacts
  <2>2. ASSUME NEW s \in Str
        PROVE  owed'[s] \in Int /\ mrefs'[s] + owed'[s] = mrefs[s] + owed[s]
    <3>1. owed'[s] = owed[s] - (mrefs'[s] - mrefs[s])
      BY <1>2
    <3>2. owed[s] \in Int /\ mrefs[s] \in Int /\ mrefs'[s] \in Int
      BY <2>1 DEF CountInv, TypesRight
    <3>. QED  BY <3>1, <3>2
  <2>3. owed' \in [Str -> Int]
    BY <1>2, <2>2
  <2>4. Balanced'
    <3>1. \A s \in Str : HeldIn(mem', s) = HeldIn(mem, s)
      BY <1>2
    <3>. QED  BY <2>2, <3>1 DEF CountInv, Balanced
  <2>5. Tracked'
    BY <1>2 DEF CountInv, Tracked, LiveBase
  <2>6. TypesRight' /\ Referred' /\ EndsSay'
    <3>1. status \notin {"ended", "unmatched"}
      BY RunningOn DEF Rc
    <3>. QED  BY <1>2, <2>1, <2>3, <3>1 DEF CountInv, TypesRight, Referred, EndsSay
  <2>. QED  BY <2>4, <2>5, <2>6 DEF StepInv
<1>. QED  BY <1>1, <1>2 DEF Rc

\* The objects at the bases of B are gone, and of the words that are known
\* those in them.
LEMMA GoneTracked ==
  ASSUME CountInv, NEW B \in SUBSET Base, mem' = Gone(mem, B),
         words' \subseteq words,
         \A w \in words : w \in words' <=> \A b \in B : ~Within(b, w, WordSize),
         LiveBase \ B \subseteq LiveBase',
         \A w \in words' : mem[w] \in vals => mem[w] \in vals'
  PROVE  Tracked' /\ words' \subseteq Word /\ Gone(mem, B) \in [Word -> Value]
<1>1. Gone(mem, B) \in [Word -> Value]
  BY Names DEF Gone, CountInv, TypesRight
<1>2. \A w \in Word : mem'[w] = IF \E b \in B : Within(b, w, WordSize)
                                THEN 0 ELSE mem[w]
  BY TouchedIn DEF Gone
<1>3. ASSUME NEW w \in words'
      PROVE  /\ \E b \in LiveBase' : Within(b, w, WordSize)
             /\ mem'[w] \in vals' \cup {Const, 0} /\ w \in Word
  <2>1. /\ w \in Word /\ mem[w] \in vals \cup {Const, 0}
        /\ \A b \in B : ~Within(b, w, WordSize)
    BY <1>3, KnownWord
  <2>2. PICK b \in LiveBase : Within(b, w, WordSize)
    BY <1>3, KnownWord
  <2>. QED  BY <1>2, <1>3, <2>1, <2>2
<1>4. ASSUME NEW w \in Word, mem'[w] \in Str PROVE w \in words'
  <2>1. mem'[w] = mem[w] /\ \A b \in B : ~Within(b, w, WordSize)
    BY <1>2, <1>4, Names
  <2>. QED  BY <1>4, <2>1, HoldsStr
<1>. QED  BY <1>1, <1>3, <1>4 DEF Tracked

LEMMA LeaveCounts ==
  ASSUME CountInv, NEW next \in {"ok", "returned", "exc"}, depth > 0,
         status \notin {"ended", "unmatched"}, Leave(next)
  PROVE  StepInv
<1>. DEFINE p == Slots[depth]
            P == IF SlotType[depth] = None THEN {}
                 ELSE Places(p, 1, SlotType[depth])
<1>1. CASE Fails("badmem")
  BY <1>1, FailStep
<1>2. CASE /\ mrefs' = Walked(P, -1) /\ listed' = ListedBy(P)
           /\ words' = WordsLeft(p) /\ mem' = Gone(mem, {p})
           /\ owed' = [s \in Str |-> owed[s] + HeldIn(mem', s) - HeldIn(mem, s)
                                             - (mrefs'[s] - mrefs[s])]
           /\ depth' = depth - 1 /\ status' = next
           /\ UNCHANGED <<vals, v, block, cstrs>>
  <2>. HIDE DEF P
  <2>1. depth \in 1..MaxDepth /\ p \in Base
    <3>1. depth \in 0..MaxDepth
      BY ValsStr DEF CountInv
    <3>2. MaxDepth \in Nat
      BY BasesAssumption
    <3>3. depth \in 1..MaxDepth
      BY <3>1, <3>2
    <3>. QED  BY <3>3, BasesAssumption
  <2>2. LiveBase \ {p} \subseteq LiveBase'
    <3>1. \A k \in 1..depth : k # depth => k \in 1..(depth - 1)
      BY <2>1
    <3>. QED  BY <1>2, <3>1 DEF LiveBase
  <2>3. \A w \in words : w \in words' <=> \A b \in {p} : ~Within(b, w, WordSize)
    BY <1>2, <2>1, KnownWord, TouchedIn DEF WordsLeft
  <2>4. words' \subseteq words
    BY <1>2 DEF WordsLeft
  <2>5. Tracked' /\ words' \subseteq Word /\ Gone(mem, {p}) \in [Word -> Value]
    <3>1. {p} \in SUBSET Base
      BY <2>1
    <3>. HIDE DEF p
    <3>. QED  BY <1>2, <2>2, <2>3, <2>4, <3>1, GoneTracked
  <2>6. /\ mrefs' \in [Str -> Int] /\ listed' \subseteq Str
        /\ \A s \in Str : mrefs'[s] # 0 => s \in vals /\ s \in listed'
    BY <1>2, WalkedFacts
  <2>7. ASSUME NEW s \in Str
        PROVE  owed'[s] \in Int /\ mrefs'[s] + owed'[s] = HeldIn(mem', s)
    <3>1. owed'[s] = owed[s] + HeldIn(mem', s) - HeldIn(mem, s)
                             - (mrefs'[s] - mrefs[s])
      BY <1>2
    <3>2. owed[s] \in Int /\ mrefs[s] \in Int /\ mrefs'[s] \in Int
          /\ HeldIn(mem', s) \in Nat /\ HeldIn(mem, s) \in Nat
      BY <2>6, HeldNat DEF CountInv, TypesRight
    <3>3. mrefs[s] + owed[s] = HeldIn(mem, s)
      BY DEF CountInv, Balanced
    <3>. QED  BY <3>1, <3>2, <3>3
  <2>8. owed' \in [Str -> Int]
    BY <1>2, <2>7
  <2>9. TypesRight' /\ Balanced' /\ Referred' /\ EndsSay'
    BY <1>2, <2>5, <2>6, <2>7, <2>8
       DEF CountInv, TypesRight, Balanced, Referred, EndsSay
  <2>. QED  BY <2>5, <2>9 DEF StepInv
<1>. QED  BY <1>1, <1>2 DEF Leave

LEMMA FreeCounts ==
  ASSUME CountInv, NEW b \in Block, Free(b)
  PROVE  StepInv
<1>1. b \in Base
  BY BasesAssumption
<1>2. /\ words' = words \ Touched(b, SizeOf[b]) /\ Uncounted(Gone(mem, {b}))
      /\ block' = [block EXCEPT ![b] = "freed"]
      /\ UNCHANGED <<mrefs, listed, vals, v, cstrs, depth, status>>
      /\ status \notin {"ended", "unmatched"}
  BY RunningOn DEF Free
<1>3. LiveBase \ {b} \subseteq LiveBase'
  <2>1. \A c \in Block : c # b => block'[c] = block[c]
    BY <1>2 DEF CountInv, ObjInv, Kinds
  <2>. QED  BY <1>2, <2>1 DEF LiveBase
<1>4. \A w \in words : w \in words' <=> \A c \in {b} : ~Within(c, w, WordSize)
  BY <1>1, <1>2, KnownWord, TouchedIn
<1>5. mem' = Gone(mem, {b}) /\ words' \subseteq words /\ {b} \in SUBSET Base
  BY <1>1, <1>2 DEF Uncounted
<1>6. Tracked' /\ words' \subseteq Word /\ Gone(mem, {b}) \in [Word -> Value]
  BY <1>2, <1>3, <1>4, <1>5, GoneTracked
<1>7. owed' \in [Str -> Int] /\ mem' \in [Word -> Value] /\ Balanced'
  BY <1>2, <1>6, UncountedRight
<1>8. TypesRight' /\ Referred' /\ EndsSay'
  BY <1>2, <1>6, <1>7 DEF CountInv, TypesRight, Referred, EndsSay
<1>. QED  BY <1>6, <1>7, <1>8 DEF StepInv

LEMMA CstrFreeCounts ==
  ASSUME CountInv, KeptOut, NEW b \in CStr, CstrFree(b)
  PROVE  StepInv
<1>1. b \in Base
  BY BasesAssumption
<1>2. /\ Uncounted(Gone(mem, {b})) /\ cstrs' = cstrs \ {b}
      /\ UNCHANGED <<words, mrefs, listed, vals, v, block, depth, status>>
      /\ status \notin {"ended", "unmatched"}
  BY RunningOn DEF CstrFree
<1>3. LiveBase \ {b} \subseteq LiveBase'
  BY <1>2 DEF LiveBase
<1>4. \A w \in words : w \in words' <=> \A c \in {b} : ~Within(c, w, WordSize)
  BY <1>2 DEF KeptOut
<1>5. mem' = Gone(mem, {b}) /\ words' \subseteq words /\ {b} \in SUBSET Base
  BY <1>1, <1>2 DEF Uncounted
<1>6. Tracked' /\ words' \subseteq Word /\ Gone(mem, {b}) \in [Word -> Value]
  BY <1>2, <1>3, <1>4, <1>5, GoneTracked
<1>7. owed' \in [Str -> Int] /\ mem' \in [Word -> Value] /\ Balanced'
  BY <1>2, <1>6, UncountedRight
<1>8. TypesRight' /\ Referred' /\ EndsSay'
  BY <1>2, <1>6, <1>7 DEF CountInv, TypesRight, Referred, EndsSay
<1>. QED  BY <1>6, <1>7, <1>8 DEF StepInv

\* A collection frees no string that a word holds, or that has a count.
LEMMA CollectCounts ==
  ASSUME CountInv, KeptOut, Collect
  PROVE  StepInv
<1>. DEFINE freed == {s \in vals : ~Survives(s)}
            B == {Bytes[s] : s \in freed}
<1>1. /\ vals' = vals \ freed /\ listed' = listed \ freed
      /\ Uncounted(Gone(mem, B))
      /\ UNCHANGED <<words, mrefs, v, block, cstrs, depth, status>>
      /\ status \notin {"ended", "unmatched"}
  BY RunningOn DEF Collect
<1>2. vals \subseteq Str
  BY ValsStr DEF CountInv
<1>3. B \in SUBSET Base
  BY <1>2, BasesAssumption
<1>4. \A s \in freed : s # v /\ mrefs[s] = 0 /\ \A w \in Word : mem[w] # s
  BY DEF Survives
<1>5. \A s \in vals \ freed : s \in vals'
  BY <1>1
<1>. HIDE DEF freed
<1>6. LiveBase \ B \subseteq LiveBase'
  BY <1>1 DEF LiveBase
<1>7. \A w \in words : w \in words' <=> \A b \in B : ~Within(b, w, WordSize)
  BY <1>1, <1>2 DEF KeptOut, freed
<1>8. \A w \in words' : mem[w] \in vals => mem[w] \in vals'
  BY <1>1, <1>4, KnownWord
<1>. HIDE DEF B
<1>9. mem' = Gone(mem, B) /\ words' \subseteq words
  BY <1>1 DEF Uncounted
<1>10. Tracked' /\ words' \subseteq Word /\ Gone(mem, B) \in [Word -> Value]
  BY <1>3, <1>6, <1>7, <1>8, <1>9, GoneTracked
<1>11. owed' \in [Str -> Int] /\ mem' \in [Word -> Value] /\ Balanced'
  BY <1>1, <1>10, UncountedRight
<1>12. v' \in vals' \cup {Const, 0}
  BY <1>1, <1>4 DEF CountInv, TypesRight
<1>13. Referred'
  BY <1>1, <1>4 DEF CountInv, Referred
<1>14. TypesRight' /\ EndsSay'
  BY <1>1, <1>10, <1>11, <1>12 DEF CountInv, TypesRight, EndsSay
<1>. QED  BY <1>10, <1>11, <1>13, <1>14 DEF StepInv

\* An object made lies apart from the words that are known.
LEMMA MadeSame ==
  ASSUME CountInv, NEW b \in Base, b \notin LiveBase, NEW x \in {0, Other},
         mem' = Made(b, x)
  PROVE  /\ \A w \in words : mem'[w] = mem[w]
         /\ \A w \in Word : mem'[w] \in Str => w \in words
         /\ mem' \in [Word -> Value]
         /\ \A s \in Str : HeldIn(mem', s) = HeldIn(mem, s)
<1>1. \A w \in Word : mem'[w] = IF Within(b, w, WordSize) THEN x ELSE mem[w]
  BY TouchedIn DEF Made
<1>2. ASSUME NEW w \in words PROVE ~Within(b, w, WordSize)
  <2>1. w \in Word
    BY KnownWord
  <2>2. PICK c \in LiveBase : Within(c, w, WordSize)
    BY KnownWord
  <2>3. c \in Base
    BY LiveIsBase DEF CountInv
  <2>. QED  BY <2>1, <2>2, <2>3, Apart
<1>3. \A w \in words : mem'[w] = mem[w]
  BY <1>1, <1>2, KnownWord
<1>4. \A w \in Word : mem'[w] \in Str => w \in words
  BY <1>1, HoldsStr, Names
<1>5. mem' \in [Word -> Value]
  BY Names DEF CountInv, TypesRight, Made
<1>6. ASSUME NEW s \in Str PROVE HeldIn(mem', s) = HeldIn(mem, s)
  <2>1. \A w \in Word : mem'[w] = s <=> mem[w] = s
    BY <1>3, <1>4, HoldsStr
  <2>. QED  BY <2>1, HeldSame
<1>. QED  BY <1>3, <1>4, <1>5, <1>6

\* Objects come, and the words and the counts stay as they are.
LEMMA MoreObjects ==
  ASSUME CountInv, LiveBase \subseteq LiveBase', vals \subseteq vals',
         \A w \in words : mem'[w] = mem[w],
         \A w \in Word : mem'[w] \in Str => w \in words,
         mem' \in [Word -> Value],
         \A s \in Str : HeldIn(mem', s) = HeldIn(mem, s),
         v' \in vals' \cup {Const, 0},
         status' \notin {"ended", "unmatched"},
         UNCHANGED <<words, mrefs, listed, owed>>
  PROVE  StepInv
<1>1. Tracked'
  <2>1. ASSUME NEW w \in words
        PROVE  /\ \E b \in LiveBase' : Within(b, w, WordSize)
               /\ mem'[w] \in vals' \cup {Const, 0}
    BY KnownWord
  <2>. QED  BY <2>1 DEF Tracked
<1>2. TypesRight' /\ Balanced' /\ Referred' /\ EndsSay'
  BY DEF CountInv, TypesRight, Balanced, Referred, EndsSay
<1>. QED  BY <1>1, <1>2 DEF StepInv

LEMMA MakeStrCounts ==
  ASSUME CountInv, NEW s \in Str, MakeStr(s)
  PROVE  StepInv
<1>1. PICK x \in {0, Other} : mem' = Made(Bytes[s], x)
  BY DEF MakeStr
<1>2. /\ s \notin vals /\ vals' = vals \cup {s} /\ v' = s
      /\ mrefs' = [mrefs EXCEPT ![s] = 0]
      /\ UNCHANGED <<words, listed, block, cstrs, depth, status, owed>>
      /\ status \notin {"ended", "unmatched"}
  BY RunningOn DEF MakeStr
<1>3. Bytes[s] \in Base /\ Bytes[s] \notin LiveBase
  BY <1>2, StringBase, LiveIsBase DEF CountInv, ObjInv
<1>4. mrefs' = mrefs
  BY <1>2 DEF CountInv, TypesRight, Referred
<1>5. /\ \A w \in words : mem'[w] = mem[w]
      /\ \A w \in Word : mem'[w] \in Str => w \in words
      /\ mem' \in [Word -> Value]
      /\ \A t \in Str : HeldIn(mem', t) = HeldIn(mem, t)
  BY <1>1, <1>3, MadeSame
<1>6. LiveBase \subseteq LiveBase'
  BY <1>2 DEF LiveBase
<1>. QED  BY <1>2, <1>4, <1>5, <1>6, MoreObjects

LEMMA CstrNewCounts ==
  ASSUME CountInv, NEW b \in CStr, CstrNew(b)
  PROVE  StepInv
<1>1. /\ mem' = Made(b, Other) /\ b \notin cstrs /\ cstrs' = cstrs \cup {b}
      /\ UNCHANGED <<words, mrefs, listed, vals, v, block, depth, status, owed>>
      /\ status \notin {"ended", "unmatched"}
  BY RunningOn DEF CstrNew
<1>2. b \in Base /\ b \notin LiveBase
  BY <1>1, CstrBase, LiveIsBase DEF CountInv, ObjInv
<1>3. /\ \A w \in words : mem'[w] = mem[w]
      /\ \A w \in Word : mem'[w] \in Str => w \in words
      /\ mem' \in [Word -> Value]
      /\ \A t \in Str : HeldIn(mem', t) = HeldIn(mem, t)
  BY <1>1, <1>2, MadeSame
<1>4. LiveBase \subseteq LiveBase'
  BY <1>1 DEF LiveBase
<1>. QED  BY <1>1, <1>3, <1>4, MoreObjects DEF CountInv, TypesRight

\* Memory is as it was.
LEMMA SameMemory ==
  ASSUME CountInv, UNCHANGED mem
  PROVE  /\ \A w \in words : mem'[w] = mem[w]
         /\ \A w \in Word : mem'[w] \in Str => w \in words
         /\ mem' \in [Word -> Value]
         /\ \A s \in Str : HeldIn(mem', s) = HeldIn(mem, s)
<1>1. \A w \in Word : mem'[w] \in Str => w \in words
  BY HoldsStr
<1>. QED  BY <1>1 DEF CountInv, TypesRight

LEMMA AllocCounts ==
  ASSUME CountInv, NEW b \in Block, Alloc(b)
  PROVE  StepInv
<1>1. /\ block' = [block EXCEPT ![b] = "live"]
      /\ UNCHANGED <<mem, words, mrefs, listed, vals, v, cstrs, depth, status, owed>>
      /\ status \notin {"ended", "unmatched"}
  BY RunningOn DEF Alloc
<1>2. LiveBase \subseteq LiveBase'
  BY <1>1 DEF LiveBase, CountInv, ObjInv, Kinds
<1>. QED  BY <1>1, <1>2, SameMemory, MoreObjects DEF CountInv, TypesRight

LEMMA CallCounts ==
  ASSUME CountInv, Call
  PROVE  StepInv
<1>1. /\ depth' = depth + 1 /\ status = "ok"
      /\ UNCHANGED <<mem, words, mrefs, listed, vals, v, block, cstrs, status, owed>>
  BY DEF Call
<1>2. depth \in Nat
  BY ValsStr, BasesAssumption DEF CountInv
<1>3. \A k \in 1..depth : k \in 1..(depth + 1)
  BY <1>2
<1>4. LiveBase \subseteq LiveBase'
  BY <1>1, <1>3 DEF LiveBase
<1>. QED  BY <1>1, <1>4, SameMemory, MoreObjects DEF CountInv, TypesRight

LEMMA MoveCounts ==
  ASSUME CountInv, Move \/ Catch
  PROVE  StepInv
<1>1. /\ v' \in {Const, 0} /\ status' \notin {"ended", "unmatched"}
      /\ UNCHANGED <<mem, words, mrefs, listed, vals, block, cstrs, depth, owed>>
  BY RunningOn DEF Move, Catch
<1>2. LiveBase \subseteq LiveBase'
  BY <1>1 DEF LiveBase
<1>. QED  BY <1>1, <1>2, SameMemory, MoreObjects

\* What end_check finds is what is owed.
LEMMA EndCounts ==
  ASSUME CountInv, EndCheck
  PROVE  StepInv
<1>1. /\ status' = IF Unmatched THEN "unmatched" ELSE "ended"
      /\ UNCHANGED <<objs, mem, words, mrefs, listed, vals, v, block, cstrs,
                     depth, owed>>
  BY DEF EndCheck
<1>2. ASSUME NEW s \in Str
      PROVE  /\ Seen(s) = HeldIn(mem, s) /\ Seen(s) \in Nat
             /\ Seen(s) = mrefs[s] <=> owed[s] = 0
             /\ mrefs[s] # 0 => s \in listed
  <2>1. \A w : w \in words /\ mem[w] = s <=> w \in Word /\ mem[w] = s
    BY KnownWord, HoldsStr
  <2>2. {w \in words : mem[w] = s} = {w \in Word : mem[w] = s}
    BY <2>1
  <2>3. Seen(s) = HeldIn(mem, s) /\ HeldIn(mem, s) \in Nat
    BY <2>2, HeldNat DEF Seen, HeldIn
  <2>4. mrefs[s] + owed[s] = HeldIn(mem, s) /\ mrefs[s] \in Int /\ owed[s] \in Int
    BY DEF CountInv, Balanced, TypesRight
  <2>5. mrefs[s] # 0 => s \in listed
    BY DEF CountInv, Referred
  <2>. QED  BY <2>3, <2>4, <2>5
<1>3. EndsSay'
  <2>1. CASE Unmatched
    <3>1. PICK s \in Str : Seen(s) # mrefs[s]
      BY <2>1 DEF Unmatched
    <3>. QED  BY <1>1, <1>2, <2>1, <3>1 DEF EndsSay
  <2>2. CASE ~Unmatched
    <3>1. ASSUME NEW s \in Str PROVE owed[s] = 0
      <4>1. ~(Seen(s) > 0 \/ s \in listed) \/ Seen(s) = mrefs[s]
        BY <2>2 DEF Unmatched
      <4>. QED  BY <1>2, <4>1
    <3>. QED  BY <1>1, <2>2, <3>1 DEF EndsSay
  <2>. QED  BY <2>1, <2>2
<1>4. Tracked'
  BY <1>1 DEF CountInv, Tracked, LiveBase
<1>5. TypesRight' /\ Balanced' /\ Referred'
  BY <1>1 DEF CountInv, TypesRight, Balanced, Referred, HeldIn
<1>. QED  BY <1>3, <1>4, <1>5 DEF StepInv

LEMMA StillCounts ==
  ASSUME CountInv, UNCHANGED vars
  PROVE  StepInv
<1>1. Tracked'
  BY DEF CountInv, Tracked, LiveBase, vars
<1>. QED  BY <1>1 DEF StepInv, CountInv, TypesRight, Balanced, Referred, HeldIn,
                      EndsSay, vars

LEMMA CountInit ==
  ASSUME Init
  PROVE  CountInv
<1>1. /\ mem = [w \in Word |-> IF w = Glob THEN Const ELSE 0] /\ words = {Glob}
      /\ mrefs = [s \in Str |-> 0] /\ owed = [s \in Str |-> 0]
      /\ listed = {} /\ vals = {} /\ v = 0 /\ status = "ok"
  BY DEF Init
<1>2. ObjInv
  BY MapInit
<1>3. mem \in [Word -> Value] /\ \A w \in Word : mem[w] \notin Str
  BY <1>1, Names
<1>4. \A s \in Str : HeldIn(mem, s) = 0
  <2>1. \A s \in Str : {w \in Word : mem[w] = s} = {}
    BY <1>3
  <2>. QED  BY <2>1, FS_EmptySet DEF HeldIn
<1>. QED
  <2>1. Balanced /\ Referred /\ EndsSay
    BY <1>1, <1>4 DEF Balanced, Referred, EndsSay
  <2>2. Glob \in Word /\ Within(Glob, Glob, WordSize)
    BY WordFacts, BasesAssumption, CountsAssumption, ObjmapAssumption
       DEF Within
  <2>3. Tracked
    BY <1>1, <1>3, <2>2 DEF Tracked, LiveBase
  <2>4. TypesRight
    BY <1>1, <1>3, <2>2 DEF TypesRight
  <2>. QED  BY <1>2, <2>1, <2>3, <2>4 DEF CountInv

\* No step, and no turn.
LEMMA StillStep ==
  ASSUME CountInv, UNCHANGED vars
  PROVE  CountInv'
<1>1. ObjInv'
  BY MapStep DEF CountInv
<1>. QED  BY <1>1, StillCounts DEF StepInv, CountInv

LEMMA CountStep ==
  ASSUME CountInv, KeptOut, ReversedWhole, [Next]_vars
  PROVE  CountInv'
<1>1. ObjInv'
  BY MapStep DEF CountInv
<1>2. Ptr \subseteq Int /\ Len \subseteq Nat /\ Elem \subseteq Nat \ {0}
  BY AccessAssumption
<1>3. ASSUME NEW p \in Ptr, Load(p) \/ \E x \in {v, 0} : Store(p, x)
      PROVE  StepInv
  BY <1>2, <1>3, LoadCounts, StoreCounts
<1>4. ASSUME NEW p \in Ptr, NEW n \in Len, LoadOther(p, n) PROVE StepInv
  BY <1>4, LoadOtherCounts
<1>5. ASSUME NEW p \in Ptr, NEW n \in Len, NEW x \in {0, Other},
             StoreOther(p, n, x) \/ Memset(p, n, x)
      PROVE  StepInv
  BY <1>2, <1>5, StoreOtherCounts, MemsetCounts
<1>6. ASSUME NEW dst \in Ptr, NEW src \in Ptr, NEW n \in Len, Memcpy(dst, src, n)
      PROVE  StepInv
  BY <1>2, <1>6, MemcpyCounts
<1>7. ASSUME NEW p \in Ptr, NEW n \in 0..3, NEW size \in Elem, Reverse(p, n, size)
      PROVE  StepInv
  <2>1. \A w \in Touched(p, n * size) \cap words :
          ((w - p) % size) + WordSize <= size
    BY <1>7 DEF ReversedWhole
  <2>. QED  BY <1>2, <1>7, <2>1, ReverseCounts
<1>8. ASSUME NEW t \in Types, NEW p \in Ptr, NEW n \in 0..2, NEW d \in {1, -1},
             Rc(t, p, n, d)
      PROVE  StepInv
  BY <1>8, RcCounts
<1>9. ASSUME Return \/ Throw \/ Unwind PROVE StepInv
  BY <1>9, LeaveCounts DEF Return, Throw, Unwind, Running
<1>10. ASSUME Stop \/ EntryLeft PROVE StepInv
  BY <1>10, EndCounts DEF Stop, EntryLeft
<1>11. ASSUME NEW b \in Block, Alloc(b) \/ Free(b) PROVE StepInv
  BY <1>11, AllocCounts, FreeCounts
<1>12. ASSUME NEW b \in CStr, CstrNew(b) \/ CstrFree(b) PROVE StepInv
  BY <1>12, CstrNewCounts, CstrFreeCounts
<1>13. StepInv
  BY <1>3, <1>4, <1>5, <1>6, <1>7, <1>8, <1>9, <1>10, <1>11, <1>12,
     MakeStrCounts, MoveCounts, CollectCounts, CallCounts, StillCounts
     DEF Next, Done
<1>. QED  BY <1>1, <1>13 DEF StepInv, CountInv

-----------------------------------------------------------------------------
(* The theorems. *)

\* Of every run of a program that stores no string in the bytes of a C string
\* or of a string, and turns no tract that cuts one in two: check_mem knows
\* the words of memory that hold a string, through every copy, fill, turn,
\* release, free and collection, so none is moved or dropped unseen, and none
\* that it knows points to a string given back.
THEOREM WordsAreTracked ==
  Spec /\ []KeptOut /\ [][ReversedWhole]_vars => []Tracked
<1>1. Init => CountInv
  BY CountInit
<1>2. CountInv /\ KeptOut /\ [Next]_vars /\ [ReversedWhole]_vars => CountInv'
  BY CountStep, StillStep DEF CountInv
<1>3. CountInv => Tracked
  BY DEF CountInv
<1>. QED  BY <1>1, <1>2, <1>3, PTL DEF Spec

\* The counts say what such a program did: a string has as many references as
\* words hold it, less those that it moved or dropped without a retain or a
\* release, and BADMEM at the end says exactly that some of them were never
\* made good.
THEOREM CountsAreRight ==
  Spec /\ []KeptOut /\ [][ReversedWhole]_vars => []CountsSay
<1>1. Init => CountInv
  BY CountInit
<1>2. CountInv /\ KeptOut /\ [Next]_vars /\ [ReversedWhole]_vars => CountInv'
  BY CountStep, StillStep DEF CountInv
<1>3. CountInv => CountsSay
  BY DEF CountInv, Balanced, EndsSay, CountsSay
<1>. QED  BY <1>1, <1>2, <1>3, PTL DEF Spec
=============================================================================
