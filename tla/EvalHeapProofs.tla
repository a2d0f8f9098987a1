--------------------------- MODULE EvalHeapProofs ---------------------------
(***************************************************************************)
(* What EvalHeap keeps for every module, budget and word size: the types,  *)
(* that no value held is freed, that the counters of bytes are the bytes   *)
(* of what is alive, that these fit in the budget, and that NOMEM comes    *)
(* only when it is full.                                                   *)
(***************************************************************************)
EXTENDS EvalHeap, FiniteSetTheorems, TLAPS

-----------------------------------------------------------------------------
(* Arithmetic of unsigned words. *)

LEMMA WordType ==
  ASSUME NEW w \in Nat \ {0}, NEW a \in Int
  PROVE  a % w \in 0..(w - 1)
  OBVIOUS

LEMMA WordSame ==
  ASSUME NEW w \in Nat \ {0}, NEW a \in 0..(w - 1)
  PROVE  a % w = a
  OBVIOUS

LEMMA WordDivision ==
  ASSUME NEW w \in Nat \ {0}, NEW a \in Int
  PROVE  /\ a \div w \in Int /\ a % w \in 0..(w - 1)
         /\ a = (a \div w) * w + (a % w)
  OBVIOUS

\* The remainder is unique.
LEMMA WordUnique ==
  ASSUME NEW w \in Nat \ {0}, NEW q1 \in Int, NEW q2 \in Int,
         NEW r1 \in 0..(w - 1), NEW r2 \in 0..(w - 1),
         q1 * w + r1 = q2 * w + r2
  PROVE  r1 = r2
<1>1. (q1 - q2) * w = r2 - r1
  OBVIOUS
<1>2. CASE q1 = q2
  BY <1>2
<1>3. CASE q1 > q2
  <2>1. q1 - q2 >= 1
    BY <1>3
  <2>2. (q1 - q2) * w >= w
    BY <2>1
  <2>. QED  BY <1>1, <2>2
<1>4. CASE q1 < q2
  <2>1. q2 - q1 >= 1
    BY <1>4
  <2>2. (q2 - q1) * w >= w
    BY <2>1
  <2>3. (q2 - q1) * w = r1 - r2
    BY <1>1
  <2>. QED  BY <2>2, <2>3
<1>. QED  BY <1>2, <1>3, <1>4

\* A sum may be reduced at once or at each step.
LEMMA WordSum ==
  ASSUME NEW w \in Nat \ {0}, NEW a \in Int, NEW b \in Int
  PROVE  ((a % w) + b) % w = (a + b) % w
<1>. DEFINE r == a % w
<1>1. /\ a = (a \div w) * w + r /\ r \in Int /\ a \div w \in Int
      /\ r + b \in Int /\ a + b \in Int
  BY WordDivision
<1>2. /\ r + b = ((r + b) \div w) * w + ((r + b) % w)
      /\ (r + b) \div w \in Int /\ (r + b) % w \in 0..(w - 1)
  BY <1>1, WordDivision
<1>3. /\ a + b = ((a + b) \div w) * w + ((a + b) % w)
      /\ (a + b) \div w \in Int /\ (a + b) % w \in 0..(w - 1)
  BY <1>1, WordDivision
<1>. HIDE DEF r
<1>4. a + b = ((a \div w) + ((r + b) \div w)) * w + ((r + b) % w)
  BY <1>1, <1>2
<1>5. (a \div w) + ((r + b) \div w) \in Int
  BY <1>1, <1>2
<1>6. (r + b) % w = (a + b) % w
  BY <1>2, <1>3, <1>4, <1>5, WordUnique
<1>. QED  BY <1>6 DEF r

-----------------------------------------------------------------------------
(* The bytes of a set of objects. *)

BytesOf(S) == {c \in S \X (1..MaxSize) : c[2] <= SizeOf[c[1]]}

LEMMA ObjFinite == IsFiniteSet(Obj) /\ \A S \in SUBSET Obj : IsFiniteSet(S)
<1>1. IsFiniteSet(Slot) /\ IsFiniteSet({Glob})
  <2>1. 1 \in Int /\ MaxDepth \in Int
    BY DepthAssumption
  <2>2. IsFiniteSet(1..MaxDepth)
    BY <2>1, FS_Interval
  <2>3. IsFiniteSet({Glob})
    BY FS_Singleton
  <2>. QED  BY <2>2, <2>3 DEF Slot
<1>2. IsFiniteSet(Place)
  BY <1>1, FS_Union, ObjAssumption DEF Place
<1>3. IsFiniteSet(Obj)
  BY <1>2, FS_Union, ObjAssumption DEF Obj
<1>. QED  BY <1>3, FS_Subset

LEMMA BytesFinite ==
  ASSUME NEW S \in SUBSET Obj
  PROVE  IsFiniteSet(BytesOf(S)) /\ Bytes(S) = Cardinality(BytesOf(S))
         /\ Bytes(S) \in Nat
<1>1. IsFiniteSet(S \X (1..MaxSize))
  <2>1. IsFiniteSet(S)
    BY ObjFinite
  <2>2. 1 \in Int /\ MaxSize \in Int
    BY SizeAssumption
  <2>3. IsFiniteSet(1..MaxSize)
    BY <2>2, FS_Interval
  <2>. QED  BY <2>1, <2>3, FS_Product
<1>2. IsFiniteSet(BytesOf(S))
  <2>1. BytesOf(S) \in SUBSET (S \X (1..MaxSize))
    BY DEF BytesOf
  <2>. QED  BY <1>1, <2>1, FS_Subset
<1>3. Bytes(S) = Cardinality(BytesOf(S))
  BY DEF Bytes, BytesOf
<1>. QED  BY <1>2, <1>3, FS_CardinalityType

\* Objects that differ share no byte.
LEMMA BytesUnion ==
  ASSUME NEW S \in SUBSET Obj, NEW T \in SUBSET Obj, S \cap T = {}
  PROVE  Bytes(S \cup T) = Bytes(S) + Bytes(T)
<1>1. BytesOf(S \cup T) = BytesOf(S) \cup BytesOf(T)
  BY DEF BytesOf
<1>2. BytesOf(S) \cap BytesOf(T) = {}
  BY DEF BytesOf
<1>3. S \cup T \in SUBSET Obj
  OBVIOUS
<1>4. Cardinality(BytesOf(S) \cap BytesOf(T)) = 0
  BY <1>2, FS_EmptySet
<1>5. /\ Bytes(S) = Cardinality(BytesOf(S)) /\ Bytes(S) \in Nat
      /\ Bytes(T) = Cardinality(BytesOf(T)) /\ Bytes(T) \in Nat
      /\ Bytes(S \cup T) = Cardinality(BytesOf(S \cup T))
      /\ IsFiniteSet(BytesOf(S)) /\ IsFiniteSet(BytesOf(T))
  BY <1>3, BytesFinite
<1>6. Cardinality(BytesOf(S) \cup BytesOf(T))
        = Cardinality(BytesOf(S)) + Cardinality(BytesOf(T))
            - Cardinality(BytesOf(S) \cap BytesOf(T))
  BY <1>5, FS_Union
<1>7. Cardinality(BytesOf(S \cup T))
        = Cardinality(BytesOf(S) \cup BytesOf(T))
  BY <1>1
<1>. QED  BY <1>4, <1>5, <1>6, <1>7

LEMMA BytesEmpty == Bytes({}) = 0
<1>1. BytesOf({}) = {}
  BY DEF BytesOf
<1>. QED  BY <1>1, FS_EmptySet, BytesFinite

LEMMA BytesOne ==
  ASSUME NEW o \in Obj
  PROVE  Bytes({o}) = SizeOf[o] /\ SizeOf[o] \in 1..MaxSize
<1>1. SizeOf[o] \in 1..MaxSize /\ MaxSize \in Nat
  BY SizeAssumption
<1>. DEFINE f == [i \in 1..SizeOf[o] |-> <<o, i>>]
<1>2. BytesOf({o}) = {<<o, i>> : i \in 1..SizeOf[o]}
  BY <1>1 DEF BytesOf
<1>3. f \in Bijection(1..SizeOf[o], BytesOf({o}))
  <2>1. f \in Injection(1..SizeOf[o], BytesOf({o}))
    BY <1>2 DEF Injection, IsInjective
  <2>2. f \in Surjection(1..SizeOf[o], BytesOf({o}))
    BY <1>2 DEF Surjection
  <2>. QED  BY <2>1, <2>2 DEF Bijection
<1>4. Cardinality(BytesOf({o})) = SizeOf[o]
  BY <1>1, <1>3, FS_CountingElements DEF ExistsBijection
<1>. QED  BY <1>1, <1>4, BytesFinite

\* Taking objects away.
LEMMA BytesMinus ==
  ASSUME NEW S \in SUBSET Obj, NEW T \in SUBSET S
  PROVE  Bytes(S \ T) = Bytes(S) - Bytes(T)
<1>1. S = (S \ T) \cup T /\ (S \ T) \cap T = {}
  OBVIOUS
<1>2. Bytes((S \ T) \cup T) = Bytes(S \ T) + Bytes(T)
  BY <1>1, BytesUnion
<1>3. Bytes(S) \in Nat /\ Bytes(T) \in Nat /\ Bytes(S \ T) \in Nat
  <2>1. T \in SUBSET Obj /\ S \ T \in SUBSET Obj
    OBVIOUS
  <2>. QED  BY <2>1, BytesFinite
<1>4. Bytes(S) = Bytes(S \ T) + Bytes(T)
  BY <1>1, <1>2
<1>. QED  BY <1>3, <1>4

\* One object more, or one less, on a counter that holds the bytes of S.
LEMMA CountMore ==
  ASSUME NEW S \in SUBSET Obj, NEW o \in Obj \ S
  PROVE  ((Bytes(S) % Word64) + SizeOf[o]) % Word64
           = Bytes(S \cup {o}) % Word64
<1>1. Bytes(S \cup {o}) = Bytes(S) + Bytes({o})
  <2>1. {o} \in SUBSET Obj /\ S \cap {o} = {}
    OBVIOUS
  <2>. QED  BY <2>1, BytesUnion
<1>2. Bytes(S) \in Int /\ SizeOf[o] \in Int /\ Bytes({o}) = SizeOf[o]
  <2>1. Bytes(S) \in Nat
    BY BytesFinite
  <2>2. Bytes({o}) = SizeOf[o] /\ SizeOf[o] \in 1..MaxSize
    BY BytesOne
  <2>. QED  BY <2>1, <2>2, SizeAssumption
<1>. QED  BY <1>1, <1>2, WordSum, SizeAssumption

LEMMA CountLess ==
  ASSUME NEW S \in SUBSET Obj, NEW T \in SUBSET S
  PROVE  ((Bytes(S) % Word64) - Bytes(T)) % Word64 = Bytes(S \ T) % Word64
<1>1. Bytes(S \ T) = Bytes(S) - Bytes(T)
  BY BytesMinus
<1>2. Bytes(S) \in Nat /\ Bytes(T) \in Nat
  <2>1. T \in SUBSET Obj
    OBVIOUS
  <2>. QED  BY <2>1, BytesFinite
<1>3. -Bytes(T) \in Int /\ Bytes(S) \in Int
  BY <1>2
<1>4. ((Bytes(S) % Word64) + (-Bytes(T))) % Word64
        = (Bytes(S) + (-Bytes(T))) % Word64
  BY <1>3, WordSum, SizeAssumption
<1>5. (Bytes(S) % Word64) \in Int
  BY <1>3, WordType, SizeAssumption
<1>6. /\ (Bytes(S) % Word64) + (-Bytes(T)) = (Bytes(S) % Word64) - Bytes(T)
      /\ Bytes(S) + (-Bytes(T)) = Bytes(S) - Bytes(T)
  BY <1>2, <1>5
<1>. QED  BY <1>1, <1>4, <1>6

-----------------------------------------------------------------------------
(* What every allocation may leave. *)

\* The sets of values an allocation may leave.
Left == {vals, Kept}

LEMMA TakeLeft ==
  ASSUME NEW n, NEW S \in Left
  PROVE  Take(n, S) \in Left
  BY DEF Take, Left

LEMMA LeftType ==
  ASSUME TypeOK, NEW S \in Left
  PROVE  /\ immortal \subseteq S /\ S \subseteq vals /\ S \subseteq Val
         /\ UsedAt(S) \in 0..(Word64 - 1)
         /\ ValbytesAt(S) \in 0..(Word64 - 1)
<1>1. immortal \subseteq S /\ S \subseteq vals /\ S \subseteq Val
  BY DEF Left, Kept, Survives, TypeOK
<1>2. Bytes(vals \ S) \in Nat
  <2>1. vals \ S \in SUBSET Obj
    BY DEF TypeOK, Obj
  <2>. QED  BY <2>1, BytesFinite
<1>3. used \in Int /\ valbytes \in Int
  BY SizeAssumption DEF TypeOK
<1>4. used - Bytes(vals \ S) \in Int /\ valbytes - Bytes(vals \ S) \in Int
  BY <1>2, <1>3
<1>5. UsedAt(S) \in 0..(Word64 - 1)
  BY <1>4, WordType, SizeAssumption DEF UsedAt
<1>6. ValbytesAt(S) \in 0..(Word64 - 1)
  BY <1>4, WordType, SizeAssumption DEF ValbytesAt
<1>. QED  BY <1>1, <1>5, <1>6

\* A counter that changes by an integer stays a word.
LEMMA CounterType ==
  ASSUME NEW a \in 0..(Word64 - 1), NEW o \in Obj
  PROVE  /\ (a + SizeOf[o]) % Word64 \in 0..(Word64 - 1)
         /\ (a - SizeOf[o]) % Word64 \in 0..(Word64 - 1)
<1>1. SizeOf[o] \in Int
  BY BytesOne, SizeAssumption
<1>2. a + SizeOf[o] \in Int /\ a - SizeOf[o] \in Int
  BY <1>1, SizeAssumption
<1>. QED  BY <1>2, WordType, SizeAssumption

LEMMA CollectedType ==
  ASSUME TypeOK, NEW S \in Left, Collected(S)
  PROVE  /\ immortal \subseteq vals' /\ vals' \subseteq Val
         /\ used' \in 0..(Word64 - 1) /\ valbytes' \in 0..(Word64 - 1)
  BY LeftType DEF Collected

\* What is refused is at most the greatest object.
LEMMA NoMemoryType ==
  ASSUME TypeOK, NEW S \in Left, NEW n \in 1..MaxSize, NoMemory(n, S)
  PROVE  /\ immortal \subseteq vals' /\ vals' \subseteq Val
         /\ used' \in 0..(Word64 - 1) /\ valbytes' \in 0..(Word64 - 1)
         /\ refused' \in 0..MaxSize
  BY CollectedType, SizeAssumption DEF NoMemory

LEMMA SizesType ==
  /\ \A o \in Obj : SizeOf[o] \in 1..MaxSize
  /\ \A n \in Sizes : n \in 1..MaxSize
<1>1. \A x \in Val : x \in Obj
  BY DEF Obj
<1>. QED  BY <1>1, SizeAssumption DEF Sizes

LEMMA TakenType ==
  ASSUME TypeOK, NEW S \in Left, NEW o \in Obj, Taken(SizeOf[o], S)
  PROVE  /\ immortal \subseteq vals' /\ vals' \subseteq Val
         /\ used' \in 0..(Word64 - 1) /\ valbytes' \in 0..(Word64 - 1)
         /\ refused' = refused
  BY LeftType, CounterType DEF Taken

LEMMA MadeType ==
  ASSUME TypeOK, NEW S \in Left, NEW x \in Val, Made(x, S)
  PROVE  /\ immortal \cup {x} \subseteq vals' /\ vals' \subseteq Val
         /\ used' \in 0..(Word64 - 1) /\ valbytes' \in 0..(Word64 - 1)
         /\ refused' = refused
<1>1. x \in Obj
  BY DEF Obj
<1>. QED  BY <1>1, LeftType, CounterType DEF Made

-----------------------------------------------------------------------------
(* Types. *)

LEMMA SlotObj == \A d \in 1..MaxDepth : d \in Obj /\ d \in Slot /\ d \in Place
  BY DEF Obj, Place, Slot

LEMMA EnterType ==
  ASSUME TypeOK, NEW regs \in [Reg -> Word],
         NEW from \in [Slot -> Word \cup {NoPar}],
         Enter(regs, from), EnterRest
  PROVE  TypeOK'
<1>1. CASE depth >= MaxDepth
  BY <1>1 DEF TypeOK, Enter, EnterRest, Untouched, Status
<1>2. CASE depth < MaxDepth
  <2>. DEFINE n == SizeOf[depth + 1]
              S == Take(n, vals)
  <2>1. depth + 1 \in Obj /\ depth + 1 \in Slot /\ depth + 1 \in Place
        /\ depth + 1 \in 0..MaxDepth
    <3>1. depth + 1 \in 1..MaxDepth
      BY <1>2, DepthAssumption DEF TypeOK
    <3>. QED  BY <3>1, SlotObj
  <2>2. S \in Left
    BY TakeLeft DEF Left
  <2>3. ~(depth >= MaxDepth)
    BY <1>2, DepthAssumption DEF TypeOK
  <2>4. CASE /\ Taken(n, S)
             /\ depth' = depth + 1
             /\ v' = [v EXCEPT ![depth + 1] = regs]
             /\ mem' = [mem EXCEPT ![depth + 1] = Nil]
             /\ status' = "ok"
             /\ UNCHANGED par_msg
    <3>1. /\ immortal \subseteq vals' /\ vals' \subseteq Val
          /\ used' \in 0..(Word64 - 1) /\ valbytes' \in 0..(Word64 - 1)
          /\ refused' = refused
      BY <2>1, <2>2, <2>4, TakenType
    <3>. QED  BY <2>1, <2>4, <3>1 DEF TypeOK, EnterRest, Word, Status
  <2>5. CASE /\ NoMemory(n, S)
             /\ par_msg' = from
             /\ UNCHANGED <<depth, v, mem>>
    <3>1. /\ immortal \subseteq vals' /\ vals' \subseteq Val
          /\ used' \in 0..(Word64 - 1) /\ valbytes' \in 0..(Word64 - 1)
          /\ refused' \in 0..MaxSize /\ status' = "nomem"
      BY <2>1, <2>2, <2>5, NoMemoryType, SizesType DEF NoMemory
    <3>. QED  BY <2>5, <3>1 DEF TypeOK, EnterRest, Status
  <2>. QED  BY <2>3, <2>4, <2>5 DEF Enter
<1>. QED  BY <1>1, <1>2, DepthAssumption DEF TypeOK

LEMMA PopType ==
  ASSUME TypeOK, depth > 0, Pop
  PROVE  /\ depth' \in 0..MaxDepth /\ depth \in Slot /\ depth \in Obj
         /\ mem' \in [Place -> Word]
         /\ used' \in 0..(Word64 - 1) /\ refused' = refused
<1>1. depth \in 1..MaxDepth /\ depth - 1 \in 0..MaxDepth
  BY DepthAssumption DEF TypeOK
<1>2. depth \in Slot /\ depth \in Obj
  BY <1>1, SlotObj
<1>. QED  BY <1>1, <1>2, CounterType DEF Pop, TypeOK, Word

LEMMA MessageType == TypeOK => Message \in Word /\ Message # Nil
  BY ObjAssumption DEF TypeOK, Message, Word

LEMMA RunningType ==
  ASSUME TypeOK, depth > 0
  PROVE  depth \in Slot /\ v[depth] \in [Reg -> Word]
         /\ par_msg[depth] \in Word \cup {NoPar}
  BY DepthAssumption DEF TypeOK, Slot

LEMMA TypeStep ==
  ASSUME TypeOK, [Next]_vars
  PROVE  TypeOK'
<1>0. NoRegs \in [Reg -> Word]
  BY DEF NoRegs, Word
<1>1. CASE Begin
  <2>1. Glob \in Obj /\ Glob \in Place
    BY DEF Obj, Place
  <2>2. CASE status' = "norun" /\ UNCHANGED <<vals, immortal, mem, used, valbytes>>
    BY <1>1, <2>2 DEF Begin, TypeOK, Status
  <2>3. CASE status' = "entry" /\ InitStr
    <3>1. PICK x \in Val :
             /\ vals' = {x} /\ immortal' = {x}
             /\ mem' = [mem EXCEPT ![Glob] = x]
             /\ used' = (SizeOf[Glob] + SizeOf[x]) % Word64
             /\ valbytes' = SizeOf[x] % Word64
      BY <1>1, <2>3 DEF Begin
    <3>2. SizeOf[x] \in Int /\ SizeOf[Glob] + SizeOf[x] \in Int
      <4>1. x \in Obj
        BY DEF Obj
      <4>. QED  BY <2>1, <4>1, BytesOne, SizeAssumption
    <3>3. used' \in 0..(Word64 - 1) /\ valbytes' \in 0..(Word64 - 1)
      BY <3>1, <3>2, WordType, SizeAssumption
    <3>. QED  BY <1>1, <2>1, <2>3, <3>1, <3>3 DEF Begin, TypeOK, Word, Status
  <2>4. CASE status' = "entry" /\ ~InitStr
    <3>1. vals \in Left /\ Taken(SizeOf[Glob], vals)
      BY <1>1, <2>4 DEF Left, Begin
    <3>. QED  BY <1>1, <2>1, <2>4, <3>1, TakenType DEF Begin, TypeOK, Status
  <2>. QED  BY <1>1, <2>2, <2>3, <2>4, InitAssumption DEF Begin
<1>2. CASE CallEntry
  <2>1. par_msg \in [Slot -> Word \cup {NoPar}]
    BY DEF TypeOK
  <2>. QED  BY <1>0, <1>2, <2>1, EnterType DEF CallEntry
<1>3. ASSUME NEW r \in Reg, NEW a \in Reg, Call(r, a) PROVE TypeOK'
  <2>1. [NoRegs EXCEPT ![r] = v[depth][a]] \in [Reg -> Word]
    BY <1>0, <1>3, RunningType DEF Call, Running
  <2>2. par_msg \in [Slot -> Word \cup {NoPar}]
    BY DEF TypeOK
  <2>. QED  BY <1>3, <2>1, <2>2, EnterType DEF Call
<1>4. ASSUME NEW r \in Reg, NEW a \in Reg, Return(r, a) PROVE TypeOK'
  <2>1. depth > 0 /\ Pop
    BY <1>4 DEF Return, Running
  <2>2. v[depth] \in [Reg -> Word]
    BY <2>1, RunningType
  <2>3. v' \in [Slot -> [Reg -> Word]]
    BY <1>0, <1>4, <2>2 DEF Return, TypeOK
  <2>. QED  BY <1>4, <2>1, <2>3, PopType DEF Return, TypeOK
<1>5. ASSUME NEW r \in Reg, NEW a \in Reg, Move(r, a) PROVE TypeOK'
  BY <1>5, RunningType DEF Move, Running, Untouched, ValueRest, TypeOK, Word
<1>6. ASSUME NEW r \in Reg, RtMake(r) PROVE TypeOK'
  <2>1. PICK S0 \in BeforeValue, n \in Sizes :
           LET S == Take(n, S0) IN
           IF Fits(n, S)
           THEN \E x \in Val \ S :
                  /\ SizeOf[x] = n
                  /\ Made(x, S)
                  /\ v' = [v EXCEPT ![depth][r] = x]
                  /\ UNCHANGED status
           ELSE NoMemory(n, S) /\ UNCHANGED v
    BY <1>6 DEF RtMake
  <2>2. Take(n, S0) \in Left
    BY TakeLeft DEF Left, BeforeValue
  <2>3. CASE Fits(n, Take(n, S0))
    <3>1. PICK x \in Val : Made(x, Take(n, S0))
                           /\ v' = [v EXCEPT ![depth][r] = x]
                           /\ UNCHANGED status
      BY <2>1, <2>3
    <3>. QED  BY <1>6, <2>2, <3>1, MadeType, RunningType
              DEF RtMake, Running, ValueRest, TypeOK, Word
  <2>4. CASE ~Fits(n, Take(n, S0))
    BY <1>6, <2>1, <2>2, <2>4, NoMemoryType, SizesType
       DEF RtMake, ValueRest, TypeOK, Status, NoMemory
  <2>. QED  BY <2>3, <2>4
<1>7. CASE TrapSaid
  <2>1. PICK S0 \in BeforeValue, n \in Sizes :
           LET S == Take(n, S0) IN
           IF Fits(n, S)
           THEN \E x \in Val \ S :
                  /\ SizeOf[x] = n
                  /\ Made(x, S)
                  /\ exc_msg' = x
                  /\ status' = "exc"
           ELSE NoMemory(n, S) /\ UNCHANGED exc_msg
    BY <1>7 DEF TrapSaid
  <2>2. Take(n, S0) \in Left
    BY TakeLeft DEF Left, BeforeValue
  <2>3. CASE Fits(n, Take(n, S0))
    <3>1. PICK x \in Val : Made(x, Take(n, S0)) /\ exc_msg' = x
                           /\ status' = "exc"
      BY <2>1, <2>3
    <3>. QED  BY <1>7, <2>2, <3>1, MadeType
              DEF TrapSaid, ValueRest, TypeOK, Word, Status
  <2>4. CASE ~Fits(n, Take(n, S0))
    BY <1>7, <2>1, <2>2, <2>4, NoMemoryType, SizesType
       DEF TrapSaid, ValueRest, TypeOK, Status, NoMemory
  <2>. QED  BY <2>3, <2>4
<1>8. ASSUME NEW c \in Const, NEW r \in Reg, Sconst(c, r) PROVE TypeOK'
  <2>1. CASE sconst[c] # Nil
    <3>1. /\ v' = [v EXCEPT ![depth][r] = sconst[c]]
          /\ UNCHANGED <<vals, used, valbytes, refused, immortal, sconst, block,
                         depth, mem, par_msg, exc_msg, status>>
      BY <1>8, <2>1 DEF Sconst, Untouched, ValueRest
    <3>2. sconst[c] \in Word /\ depth \in Slot /\ v[depth] \in [Reg -> Word]
      BY <1>8, RunningType DEF Sconst, Running, TypeOK
    <3>. QED  BY <3>1, <3>2 DEF TypeOK
  <2>2. CASE sconst[c] = Nil
    <3>1. PICK S0 \in BeforeValue, n \in Sizes :
             LET S == Take(n, S0) IN
             \E x \in Val \ S :
               /\ SizeOf[x] = n
               /\ Made(x, S)
               /\ immortal' = immortal \cup {x}
               /\ sconst' = [sconst EXCEPT ![c] = x]
               /\ v' = [v EXCEPT ![depth][r] = x]
      BY <1>8, <2>2 DEF Sconst
    <3>2. PICK x \in Val : /\ Made(x, Take(n, S0))
                           /\ immortal' = immortal \cup {x}
                           /\ sconst' = [sconst EXCEPT ![c] = x]
                           /\ v' = [v EXCEPT ![depth][r] = x]
      BY <3>1
    <3>3. Take(n, S0) \in Left
      BY TakeLeft DEF Left, BeforeValue
    <3>. QED  BY <1>8, <3>2, <3>3, MadeType, RunningType
              DEF Sconst, Running, ValueRest, TypeOK, Word
  <2>. QED  BY <2>1, <2>2
<1>9. ASSUME NEW p \in Place, NEW r \in Reg, Load(r, p) PROVE TypeOK'
  BY <1>9, RunningType
     DEF Load, Running, MemRest, Untouched, TypeOK, Status
<1>10. ASSUME NEW p \in Place, NEW w \in Word, NEW b \in BOOLEAN,
              Write(p, w, b)
       PROVE  TypeOK'
  BY <1>10 DEF Write, Running, MemRest, Untouched, TypeOK, Status
<1>11. ASSUME NEW p \in Place, NEW r \in Reg, Store(p, r) PROVE TypeOK'
  <2>1. v[depth][r] \in Word
    BY <1>11, RunningType DEF Store, Write, Running
  <2>. QED  BY <1>10, <1>11, <2>1 DEF Store
<1>12. ASSUME NEW p \in Place, NEW q \in Place, Memcpy(p, q) PROVE TypeOK'
  <2>1. mem[q] \in Word /\ (q \in LivePlace) \in BOOLEAN
    BY DEF TypeOK
  <2>. QED  BY <1>10, <1>12, <2>1 DEF Memcpy
<1>13. ASSUME NEW p \in Place, Memset(p) PROVE TypeOK'
  <2>1. Nil \in Word
    BY DEF Word
  <2>. QED  BY <1>10, <1>13, <2>1 DEF Memset
<1>14. ASSUME NEW b \in Block, MemAlloc(b) PROVE TypeOK'
  <2>. DEFINE n == SizeOf[b]
              S == Take(n, vals)
  <2>1. b \in Obj /\ S \in Left
    BY TakeLeft DEF Obj, Place, Left
  <2>2. CASE /\ Taken(n, S)
             /\ block' = [block EXCEPT ![b] = "live"]
             /\ mem' = [mem EXCEPT ![b] = Nil]
             /\ UNCHANGED status
    BY <1>14, <2>1, <2>2, TakenType DEF MemAlloc, TypeOK, Status, Word
  <2>3. CASE NoMemory(n, S) /\ UNCHANGED <<block, mem>>
    <3>1. n \in 1..MaxSize
      BY <2>1, SizesType
    <3>2. /\ immortal \subseteq vals' /\ vals' \subseteq Val
          /\ used' \in 0..(Word64 - 1) /\ valbytes' \in 0..(Word64 - 1)
          /\ refused' \in 0..MaxSize /\ status' = "nomem"
      BY <2>1, <2>3, <3>1, NoMemoryType DEF NoMemory
    <3>. QED  BY <1>14, <2>3, <3>2 DEF MemAlloc, TypeOK, Status
  <2>4. CASE /\ status' = "nomem" /\ refused' = 0
             /\ UNCHANGED <<vals, used, valbytes, block, mem>>
    BY <1>14, <2>4, SizeAssumption DEF MemAlloc, TypeOK, Status
  <2>. QED  BY <1>14, <2>2, <2>3, <2>4 DEF MemAlloc
<1>15. ASSUME NEW b \in Block, MemFree(b) PROVE TypeOK'
  <2>1. b \in Obj
    BY DEF Obj, Place
  <2>. QED  BY <1>15, <2>1, CounterType DEF MemFree, TypeOK, Status
<1>16. CASE Trap
  BY <1>16 DEF Trap, ExcRest, Untouched, TypeOK, Status
<1>17. ASSUME NEW a \in Reg, Raise(a) PROVE TypeOK'
  <2>1. v[depth][a] \in Word
    BY <1>17, RunningType DEF Raise, Running
  <2>. QED  BY <1>17, <2>1 DEF Raise, ExcRest, Untouched, TypeOK, Status
<1>18. ASSUME NEW r \in Reg, Caught(r) PROVE TypeOK'
  <2>1. depth \in Slot /\ v[depth] \in [Reg -> Word] /\ Message \in Word
        /\ Nil \in Word
    BY <1>18, RunningType, MessageType DEF Caught, Word
  <2>. QED  BY <1>18, <2>1 DEF Caught, ExcRest, Untouched, TypeOK, Status
<1>19. CASE Leave
  <2>1. depth > 0 /\ Pop /\ Message \in Word /\ Nil \in Word
    BY <1>19, MessageType DEF Leave, Word
  <2>2. v' \in [Slot -> [Reg -> Word]]
    BY <1>0, <1>19 DEF Leave, TypeOK
  <2>3. /\ par_msg' \in [Slot -> Word \cup {NoPar}]
        /\ exc_msg' \in Word /\ status' \in Status
    BY <1>19, <2>1 DEF Leave, TypeOK, Status
  <2>. QED  BY <1>19, <2>1, <2>2, <2>3, PopType DEF Leave, TypeOK
<1>20. CASE ParFor
  BY <1>20 DEF ParFor, ExcRest, Untouched, TypeOK, Word
<1>21. CASE ParIter
  <2>1. [par_msg EXCEPT ![depth] = NoPar] \in [Slot -> Word \cup {NoPar}]
    BY DEF TypeOK
  <2>. QED  BY <1>0, <1>21, <2>1, EnterType DEF ParIter
<1>22. CASE ParEnd
  <2>1. par_msg[depth] \in Word
    BY <1>22, RunningType DEF ParEnd, InParFor
  <2>. QED  BY <1>22, <2>1 DEF ParEnd, ExcRest, Untouched, TypeOK, Status
<1>23. CASE UNCHANGED vars
  BY <1>23 DEF vars, TypeOK
<1>24. CASE Terminated
  BY <1>23, <1>24 DEF Terminated
<1>. QED
  BY <1>1, <1>2, <1>3, <1>4, <1>5, <1>6, <1>7, <1>8, <1>9, <1>11, <1>12,
     <1>13, <1>14, <1>15, <1>16, <1>17, <1>18, <1>19, <1>20, <1>21, <1>22,
     <1>23, <1>24 DEF Next

LEMMA InitType == Init => TypeOK
<1>1. 0 \in 0..(Word64 - 1) /\ 0 \in 0..MaxDepth /\ 0 \in 0..MaxSize
  BY SizeAssumption, DepthAssumption
<1>. QED  BY <1>1 DEF Init, TypeOK, NoRegs, Word, Status

\* TypeOK holds of every run of every module: the values listed are the ones
\* made, the counters are words, the calls no deeper than max_depth.
THEOREM TypeCorrect == Spec => []TypeOK
<1>1. Init => TypeOK
  BY InitType
<1>2. TypeOK /\ [Next]_vars => TypeOK'
  BY TypeStep
<1>. QED  BY <1>1, <1>2, PTL DEF Spec

-----------------------------------------------------------------------------
(* No value held is freed. *)

Roots == Marked \cup HeldByConsts

\* A collection keeps what is held: the roots are marked, and a constant is
\* immortal.
LEMMA RootsLeft ==
  ASSUME IInv, NEW S \in Left, NEW x \in Val, x \in Roots
  PROVE  x \in S
<1>1. x \in vals
  BY DEF IInv, NoDangling, Roots
<1>2. x \in Marked \/ x \in immortal
  BY ObjAssumption DEF IInv, ConstsImmortal, Roots, HeldByConsts
<1>. QED  BY <1>1, <1>2 DEF Left, Kept, Survives

\* A step that leaves what is held, makes values, and holds nothing else.
LEMMA StepSafe ==
  ASSUME IInv, NEW S \in Left, S \subseteq vals',
         \A x \in Val : x \in HeldByCalls' => x \in Roots \/ x \in vals',
         \A x \in Val : x \in HeldByMemory' => x \in Roots \/ x \in vals',
         \A x \in Val : x \in HeldByPars' => x \in Roots \/ x \in vals',
         \A x \in Val : x \in HeldByConsts' => x \in Roots \/ x \in vals',
         exc_msg' \in Val => exc_msg' \in Roots \/ exc_msg' \in vals'
  PROVE  NoDangling'
<1>. SUFFICES ASSUME NEW x \in Val, x \in (Marked \cup HeldByConsts)'
              PROVE  x \in vals'
  BY DEF NoDangling
<1>1. x \in Roots \/ x \in vals'
  BY DEF Marked
<1>2. x \in Roots => x \in vals'
  BY RootsLeft
<1>. QED  BY <1>1, <1>2

\* What the innermost call may read is held.
LEMMA RegHeld ==
  ASSUME TypeOK, depth > 0, NEW r \in Reg
  PROVE  v[depth][r] \in Roots
<1>1. depth \in 1..depth
  BY DepthAssumption DEF TypeOK
<1>. QED  BY <1>1 DEF Roots, Marked, HeldByCalls

LEMMA MemHeld ==
  ASSUME NEW p \in LivePlace
  PROVE  mem[p] \in Roots
  BY DEF Roots, Marked, HeldByMemory

LEMMA ConstHeld ==
  ASSUME NEW c \in Const
  PROVE  sconst[c] \in Roots
  BY DEF Roots, HeldByConsts

LEMMA ParHeld ==
  ASSUME NEW d \in 1..depth
  PROVE  par_msg[d] \in Roots
  BY DEF Roots, Marked, HeldByPars

LEMMA ExcHeld == exc_msg \in Roots
  BY DEF Roots, Marked

\* The calls alive, with a register of the innermost changed at most.
LEMMA CallsSafe ==
  ASSUME TypeOK, depth' = depth, depth > 0, NEW r \in Reg, NEW w,
         v' = [v EXCEPT ![depth][r] = w]
  PROVE  \A x \in Val : x \in HeldByCalls' => x \in Roots \/ x = w
<1>. SUFFICES ASSUME NEW d \in 1..depth, NEW s \in Reg
              PROVE  v'[d][s] \in Roots \/ v'[d][s] = w
  BY DEF HeldByCalls
<1>1. d \in Slot /\ v[d] \in [Reg -> Word]
  BY DepthAssumption DEF TypeOK, Slot
<1>2. v[d][s] \in Roots
  BY DEF Roots, Marked, HeldByCalls
<1>3. v'[d][s] = v[d][s] \/ v'[d][s] = w
  BY <1>1 DEF TypeOK
<1>. QED  BY <1>2, <1>3

LEMMA CallsSame ==
  ASSUME depth' = depth, v' = v
  PROVE  HeldByCalls' \subseteq Roots
  BY DEF HeldByCalls, Roots, Marked

\* The memory alive, with one word changed at most.
LEMMA MemorySafe ==
  ASSUME TypeOK, LivePlace' \subseteq LivePlace, NEW p \in Place, NEW w,
         mem' = [mem EXCEPT ![p] = w]
  PROVE  \A x \in Val : x \in HeldByMemory' => x \in Roots \/ x = w
<1>. SUFFICES ASSUME NEW q \in LivePlace'
              PROVE  mem'[q] \in Roots \/ mem'[q] = w
  BY DEF HeldByMemory
<1>1. q \in Place
  BY DepthAssumption DEF TypeOK, LivePlace, Live, Place, Slot
<1>2. mem[q] \in Roots
  BY MemHeld
<1>. QED  BY <1>1, <1>2 DEF TypeOK

LEMMA MemorySame ==
  ASSUME LivePlace' \subseteq LivePlace, mem' = mem
  PROVE  HeldByMemory' \subseteq Roots
  BY DEF HeldByMemory, Roots, Marked

LEMMA ParsSame ==
  ASSUME depth' = depth, par_msg' = par_msg
  PROVE  HeldByPars' \subseteq Roots
  BY DEF HeldByPars, Roots, Marked

LEMMA ConstsSame ==
  ASSUME sconst' = sconst
  PROVE  HeldByConsts' \subseteq Roots
  BY DEF HeldByConsts, Roots

\* The places alive change with the calls, the blocks and the start only.
LEMMA PlacesSame ==
  ASSUME depth' = depth, block' = block,
         status \notin {"start", "norun"}
  PROVE  LivePlace' \subseteq LivePlace
  BY DEF LivePlace, Live

\* A constant stays immortal, and nothing is alive before the run.
LEMMA ConstsStep ==
  ASSUME IInv, [Next]_vars
  PROVE  ConstsImmortal'
<1>1. CASE sconst' = sconst /\ immortal \subseteq immortal'
  BY <1>1 DEF IInv, ConstsImmortal
<1>2. ASSUME NEW c \in Const, NEW r \in Reg, Sconst(c, r)
      PROVE  ConstsImmortal'
  <2>1. CASE sconst[c] # Nil
    BY <1>1, <1>2, <2>1 DEF Sconst
  <2>2. CASE sconst[c] = Nil
    <3>1. PICK x \in Val : /\ immortal' = immortal \cup {x}
                           /\ sconst' = [sconst EXCEPT ![c] = x]
      BY <1>2, <2>2 DEF Sconst
    <3>. QED  BY <3>1 DEF IInv, TypeOK, ConstsImmortal
  <2>. QED  BY <2>1, <2>2
<1>3. CASE Begin
  <2>1. immortal = {}
    BY <1>3 DEF IInv, NothingBeforeRun, TypeOK, Begin
  <2>. QED  BY <1>1, <1>3, <2>1 DEF Begin
<1>4. CASE UNCHANGED <<sconst, immortal>>
  BY <1>1, <1>4
<1>5. \/ \E c \in Const, r \in Reg : Sconst(c, r)
      \/ Begin
      \/ UNCHANGED <<sconst, immortal>>
  <2>. USE DEF EnterRest, ValueRest, MemRest, ExcRest, Untouched
  <2>1. CASE CallEntry \/ ParIter \/ ParFor \/ ParEnd \/ Leave \/ Trap
             \/ TrapSaid \/ Terminated \/ UNCHANGED vars
    BY <2>1 DEF CallEntry, ParIter, ParFor, ParEnd, Leave, Trap, TrapSaid,
                Terminated, vars
  <2>2. CASE \E r \in Reg, a \in Reg : Call(r, a) \/ Return(r, a) \/ Move(r, a)
    BY <2>2 DEF Call, Return, Move
  <2>3. CASE \E r \in Reg : RtMake(r) \/ Raise(r) \/ Caught(r)
    BY <2>3 DEF RtMake, Raise, Caught
  <2>4. CASE \/ \E p \in Place, r \in Reg : Load(r, p) \/ Store(p, r)
             \/ \E p \in Place, q \in Place : Memcpy(p, q)
             \/ \E p \in Place : Memset(p)
    BY <2>4 DEF Load, Store, Memcpy, Memset, Write
  <2>5. CASE \E b \in Block : MemAlloc(b) \/ MemFree(b)
    BY <2>5 DEF MemAlloc, MemFree
  <2>. QED  BY <2>1, <2>2, <2>3, <2>4, <2>5 DEF Next
<1>. QED  BY <1>2, <1>3, <1>4, <1>5

LEMMA ParsStep ==
  ASSUME IInv, [Next]_vars
  PROVE  ParsRun'
<1>. USE DEF IInv
<1>0. depth \in Nat /\ DOMAIN par_msg = Slot
      /\ \A d \in 1..depth : d \in Slot
  BY DepthAssumption DEF TypeOK, Slot
<1>1. CASE depth' = depth /\ par_msg' = par_msg
           /\ (status' = "ok" \/ depth = 0 \/ par_msg[depth] = NoPar)
  BY <1>1 DEF ParsRun
<1>2. ASSUME status = "ok" \/ depth = 0, NEW regs, NEW from, Enter(regs, from),
             \A d \in Slot : d > depth => from[d] = NoPar,
             depth > 0 => from[depth] = NoPar
      PROVE  ParsRun'
  <2>1. CASE depth' = depth /\ par_msg' = from
    BY <1>2, <2>1 DEF ParsRun
  <2>2. CASE depth' = depth + 1 /\ par_msg' = par_msg /\ status' = "ok"
    BY <1>0, <2>2, DepthAssumption DEF ParsRun, Slot
  <2>. QED  BY <1>2, <2>1, <2>2 DEF Enter
<1>3. CASE Begin
  BY <1>1, <1>3 DEF Begin, NothingBeforeRun
<1>4. CASE CallEntry
  <2>1. depth = 0
    BY <1>4 DEF CallEntry, NothingBeforeRun
  <2>. QED  BY <1>2, <1>4, <2>1 DEF CallEntry, ParsRun
<1>5. ASSUME NEW r \in Reg, NEW a \in Reg, Call(r, a) PROVE ParsRun'
  BY <1>2, <1>5 DEF Call, Running, ParsRun
<1>6. ASSUME NEW r \in Reg, NEW a \in Reg, Return(r, a) PROVE ParsRun'
  <2>1. /\ depth' = depth - 1 /\ depth \in Slot /\ par_msg' = par_msg
        /\ status' = "ok" /\ par_msg[depth] = NoPar
    BY <1>0, <1>6 DEF Return, Running, Pop
  <2>. QED  BY <1>0, <2>1, DepthAssumption DEF ParsRun, Slot
<1>7. CASE Leave
  <2>1. par_msg[depth] = NoPar /\ depth' = depth - 1 /\ depth \in Slot
    BY <1>0, <1>7 DEF Leave, Pop, ParsRun
  <2>2. CASE depth > 1 /\ par_msg[depth - 1] # NoPar
    <3>1. depth - 1 \in Slot
      BY <2>1, <2>2, DepthAssumption DEF Slot
    <3>2. /\ status' = "ok"
          /\ \E w : par_msg' = [par_msg EXCEPT ![depth - 1] = w]
          \/ par_msg' = [par_msg EXCEPT ![depth - 1] = NoPar]
      BY <1>7, <2>2 DEF Leave
    <3>. QED  BY <1>0, <2>1, <3>1, <3>2, DepthAssumption DEF ParsRun, Slot
  <2>3. CASE ~(depth > 1 /\ par_msg[depth - 1] # NoPar)
    <3>1. par_msg' = par_msg
      BY <1>7, <2>3 DEF Leave
    <3>. QED  BY <1>0, <2>1, <2>3, <3>1, DepthAssumption DEF ParsRun, Slot
  <2>. QED  BY <2>2, <2>3
<1>8. CASE ParFor
  <2>1. /\ depth' = depth /\ status' = "ok" /\ depth \in Slot
        /\ par_msg' = [par_msg EXCEPT ![depth] = Nil]
    BY <1>0, <1>8 DEF ParFor, Running
  <2>. QED  BY <1>0, <2>1, DepthAssumption DEF ParsRun, Slot
<1>9. CASE ParIter
  <2>. DEFINE from == [par_msg EXCEPT ![depth] = NoPar]
  <2>1. status = "ok" /\ depth \in Slot /\ Enter(NoRegs, from)
    BY <1>0, <1>9 DEF ParIter, InParFor
  <2>2. \A d \in Slot : d > depth => from[d] = NoPar
    BY <1>0, <2>1, DepthAssumption DEF ParsRun, Slot
  <2>3. from[depth] = NoPar
    BY <1>0, <2>1
  <2>. HIDE DEF from
  <2>. QED  BY <1>2, <2>1, <2>2, <2>3
<1>10. CASE ParEnd
  <2>1. /\ depth' = depth /\ depth \in Slot
        /\ par_msg' = [par_msg EXCEPT ![depth] = NoPar]
    BY <1>0, <1>10 DEF ParEnd, InParFor
  <2>. QED  BY <1>0, <2>1, DepthAssumption DEF ParsRun, Slot
<1>11. CASE TrapSaid \/ Trap \/ Terminated \/ UNCHANGED vars
  BY <1>1, <1>11 DEF TrapSaid, ValueRest, Trap, Terminated, vars, Running,
                     ParsRun
<1>12. ASSUME NEW r \in Reg, RtMake(r) \/ Raise(r) \/ Caught(r)
       PROVE  ParsRun'
  BY <1>1, <1>12 DEF RtMake, Raise, Caught, ValueRest, Running, ParsRun
<1>13. ASSUME NEW c \in Const, NEW r \in Reg, Sconst(c, r) PROVE ParsRun'
  BY <1>1, <1>13 DEF Sconst, ValueRest, Running
<1>14. ASSUME NEW r \in Reg, NEW a \in Reg, Move(r, a) PROVE ParsRun'
  BY <1>1, <1>14 DEF Move, ValueRest, Running
<1>15. ASSUME NEW p \in Place, NEW r \in Reg, Load(r, p) PROVE ParsRun'
  BY <1>1, <1>15 DEF Load, MemRest, Running
<1>16. ASSUME NEW p \in Place, NEW w, NEW b, Write(p, w, b) PROVE ParsRun'
  BY <1>1, <1>16 DEF Write, MemRest, Running
<1>17. ASSUME NEW b \in Block, MemAlloc(b) \/ MemFree(b) PROVE ParsRun'
  BY <1>1, <1>17 DEF MemAlloc, MemFree, Running
<1>. QED
  BY <1>3, <1>4, <1>5, <1>6, <1>7, <1>8, <1>9, <1>10, <1>11, <1>12, <1>13,
     <1>14, <1>15, <1>16, <1>17 DEF Next, Store, Memcpy, Memset

LEMMA BeforeRunStep ==
  ASSUME IInv, [Next]_vars
  PROVE  NothingBeforeRun'
<1>1. CASE Begin
  BY <1>1 DEF Begin, IInv, NothingBeforeRun, TypeOK, Live
<1>2. CASE UNCHANGED vars
  BY <1>2 DEF vars, IInv, NothingBeforeRun, Live
<1>3. CASE Next /\ ~Begin /\ ~UNCHANGED vars
  <2>. SUFFICES status' \notin {"start", "norun", "entry"}
    BY DEF NothingBeforeRun
  <2>0. status \in {"start", "norun", "entry"} => depth = 0
    BY DEF IInv, NothingBeforeRun
  <2>1. CASE CallEntry
    BY <2>1 DEF CallEntry, Enter, NoMemory
  <2>2. CASE \E r \in Reg, a \in Reg : Call(r, a) \/ Return(r, a) \/ Move(r, a)
    BY <2>2 DEF Call, Return, Move, Enter, Running, NoMemory
  <2>3. CASE \E r \in Reg : RtMake(r) \/ Raise(r) \/ Caught(r)
    BY <2>3 DEF RtMake, Raise, Caught, Running, NoMemory
  <2>4. CASE \E c \in Const, r \in Reg : Sconst(c, r)
    BY <2>4 DEF Sconst, Running
  <2>5. CASE \/ \E p \in Place, r \in Reg : Load(r, p) \/ Store(p, r)
             \/ \E p \in Place, q \in Place : Memcpy(p, q)
             \/ \E p \in Place : Memset(p)
    BY <2>5 DEF Load, Store, Memcpy, Memset, Write, Running
  <2>6. CASE \E b \in Block : MemAlloc(b) \/ MemFree(b)
    BY <2>6 DEF MemAlloc, MemFree, Running, NoMemory
  <2>7. CASE TrapSaid \/ Trap \/ ParFor \/ ParIter \/ ParEnd
    BY <2>7 DEF TrapSaid, Trap, ParFor, ParIter, ParEnd, Running, InParFor,
                Enter, NoMemory
  <2>8. CASE Leave
    BY <2>0, <2>8 DEF Leave
  <2>9. CASE Terminated
    BY <1>3, <2>9 DEF Terminated
  <2>. QED  BY <1>3, <2>1, <2>2, <2>3, <2>4, <2>5, <2>6, <2>7, <2>8, <2>9
            DEF Next
<1>. QED  BY <1>1, <1>2, <1>3

\* A call entered: its registers hold what the caller holds, its slot nothing.
LEMMA EnterSafe ==
  ASSUME IInv, status \notin {"start", "norun"},
         NEW regs, \A r \in Reg : regs[r] \in Roots \cup {Nil},
         NEW from, \A d \in 1..depth : from[d] \in Roots \cup {NoPar},
         Enter(regs, from), EnterRest
  PROVE  NoDangling'
<1>. USE DEF IInv
<1>0. Nil \notin Val /\ NoPar \notin Val
  BY ObjAssumption DEF Word
<1>1. CASE depth' = depth
  <2>1. /\ v' = v /\ mem' = mem /\ block' = block
        /\ par_msg' = from \/ par_msg' = par_msg
        /\ sconst' = sconst /\ exc_msg' = exc_msg
        /\ \E S \in Left : S \subseteq vals'
    <3>1. vals \in Left /\ Take(SizeOf[depth + 1], vals) \in Left
      BY TakeLeft DEF Left
    <3>2. depth # depth + 1
      BY DepthAssumption DEF TypeOK
    <3>. QED  BY <1>1, <3>1, <3>2
              DEF Enter, EnterRest, Untouched, NoMemory, Collected
  <2>2. PICK S \in Left : S \subseteq vals'
    BY <2>1
  <2>3. \A x \in Val : x \in HeldByPars' => x \in Roots
    BY <1>0, <1>1, <2>1, ParHeld DEF HeldByPars
  <2>. QED  BY <1>1, <2>1, <2>2, <2>3, StepSafe, CallsSame, MemorySame,
               PlacesSame, ConstsSame, ExcHeld
<1>2. CASE depth' # depth
  <2>. DEFINE n == SizeOf[depth + 1]
              S == Take(n, vals)
  <2>1. /\ depth < MaxDepth /\ vals' = S /\ depth' = depth + 1
        /\ v' = [v EXCEPT ![depth + 1] = regs]
        /\ mem' = [mem EXCEPT ![depth + 1] = Nil]
        /\ par_msg' = par_msg /\ sconst' = sconst /\ exc_msg' = exc_msg
        /\ block' = block
    BY <1>2, DepthAssumption DEF Enter, EnterRest, Taken, TypeOK
  <2>2. S \in Left
    BY TakeLeft DEF Left
  <2>3. depth \in Nat /\ 1..depth' = (1..depth) \cup {depth + 1}
        /\ depth + 1 \in Slot /\ depth + 1 \notin 1..depth
        /\ \A d \in 1..depth : d \in Slot
    BY <2>1, DepthAssumption DEF TypeOK, Slot
  <2>4. \A x \in Val : x \in HeldByCalls' => x \in Roots
    <3>. SUFFICES ASSUME NEW d \in 1..depth', NEW r \in Reg, v'[d][r] \in Val
                  PROVE  v'[d][r] \in Roots
      BY DEF HeldByCalls
    <3>1. CASE d = depth + 1
      BY <1>0, <2>1, <2>3, <3>1 DEF TypeOK
    <3>2. CASE d \in 1..depth
      BY <2>1, <2>3, <3>2 DEF TypeOK, Roots, Marked, HeldByCalls
    <3>. QED  BY <2>3, <3>1, <3>2
  <2>5. \A x \in Val : x \in HeldByMemory' => x \in Roots
    <3>. SUFFICES ASSUME NEW p \in LivePlace', mem'[p] \in Val
                  PROVE  mem'[p] \in Roots
      BY DEF HeldByMemory
    <3>1. CASE p = depth + 1
      BY <1>0, <2>1, <2>3, <3>1 DEF TypeOK, Place
    <3>2. CASE p # depth + 1
      <4>1. p \in LivePlace /\ p \in Place
        BY <2>1, <2>3, <3>2 DEF LivePlace, Live, Place
      <4>. QED  BY <2>1, <3>2, <4>1, MemHeld DEF TypeOK
    <3>. QED  BY <3>1, <3>2
  <2>6. \A x \in Val : x \in HeldByPars' => x \in Roots \/ x = par_msg[depth + 1]
    BY <2>1, <2>3, ParHeld DEF HeldByPars
  <2>7. par_msg[depth + 1] \notin Val
    BY <1>0, <2>3 DEF ParsRun
  <2>. QED  BY <2>1, <2>2, <2>4, <2>5, <2>6, <2>7, StepSafe, ConstsSame,
               ExcHeld
<1>. QED  BY <1>1, <1>2

\* A call left: what it held is gone, a value it leaves is one it held.
LEMMA PopSafe ==
  ASSUME IInv, depth > 0, Pop,
         vals' = vals, block' = block, sconst' = sconst,
         status \notin {"start", "norun"},
         exc_msg' \in Roots \cup {Nil},
         \A d \in 1..(depth - 1) : par_msg'[d] \in Roots \cup {NoPar, TrapMsg},
         \A d \in 1..(depth - 1), r \in Reg : v'[d][r] \in Roots
  PROVE  NoDangling'
<1>. USE DEF IInv
<1>1. /\ depth' = depth - 1 /\ depth \in Slot /\ depth \in Nat
      /\ mem' = [mem EXCEPT ![depth] = Nil] /\ depth \in Place
  BY DepthAssumption DEF Pop, TypeOK, Slot, Place
<1>2. Nil \notin Val /\ NoPar \notin Val /\ TrapMsg \notin Val
  BY ObjAssumption DEF Word
<1>3. vals \in Left /\ vals \subseteq vals'
  BY DEF Left
<1>4. \A x \in Val : x \in HeldByCalls' => x \in Roots
  BY <1>1 DEF HeldByCalls
<1>5. LivePlace' \subseteq LivePlace
  BY <1>1, DepthAssumption DEF LivePlace, Live
<1>6. \A x \in Val : x \in HeldByMemory' => x \in Roots
  BY <1>1, <1>2, <1>5, MemorySafe
<1>7. \A x \in Val : x \in HeldByPars' => x \in Roots
  BY <1>1, <1>2 DEF HeldByPars
<1>. QED  BY <1>2, <1>3, <1>4, <1>6, <1>7, StepSafe, ConstsSame

\* A step of the innermost call that changes at most one of its registers,
\* one word of memory and the exception on its way.
LEMMA InstSafe ==
  ASSUME IInv, status \notin {"start", "norun"}, depth > 0,
         depth' = depth, LivePlace' \subseteq LivePlace,
         NEW S \in Left, S \subseteq vals',
         NEW w1, w1 \in Val => w1 \in Roots \cup vals',
         NEW w2, w2 \in Val => w2 \in Roots \cup vals',
         NEW r \in Reg, NEW p \in Place,
         v' = v \/ v' = [v EXCEPT ![depth][r] = w1],
         mem' = mem \/ mem' = [mem EXCEPT ![p] = w2],
         \A d \in 1..depth : par_msg'[d] \in Roots \cup {Nil, NoPar},
         \A c \in Const : sconst'[c] \in Roots \cup vals',
         exc_msg' \in Val => exc_msg' \in Roots \cup vals'
  PROVE  NoDangling'
<1>. USE DEF IInv
<1>1. Nil \notin Val /\ NoPar \notin Val
  BY ObjAssumption DEF Word
<1>2. \A x \in Val : x \in HeldByCalls' => x \in Roots \/ x \in vals'
  <2>1. CASE v' = v
    BY <2>1, CallsSame
  <2>2. CASE v' = [v EXCEPT ![depth][r] = w1]
    <3>1. \A x \in Val : x \in HeldByCalls' => x \in Roots \/ x = w1
      BY <2>2, CallsSafe
    <3>. QED  BY <3>1
  <2>. QED  BY <2>1, <2>2
<1>3. \A x \in Val : x \in HeldByMemory' => x \in Roots \/ x \in vals'
  <2>1. CASE mem' = mem
    BY <2>1, MemorySame
  <2>2. CASE mem' = [mem EXCEPT ![p] = w2]
    <3>1. \A x \in Val : x \in HeldByMemory' => x \in Roots \/ x = w2
      BY <2>2, MemorySafe
    <3>. QED  BY <3>1
  <2>. QED  BY <2>1, <2>2
<1>4. \A x \in Val : x \in HeldByPars' => x \in Roots \/ x \in vals'
  BY <1>1 DEF HeldByPars
<1>5. \A x \in Val : x \in HeldByConsts' => x \in Roots \/ x \in vals'
  BY DEF HeldByConsts
<1>. QED  BY <1>2, <1>3, <1>4, <1>5, StepSafe

\* The same, of a step that changes no register and no word of memory.
LEMMA KeepSafe ==
  ASSUME IInv, status \notin {"start", "norun"}, depth' = depth,
         block' = block, v' = v, mem' = mem,
         NEW S \in Left, S \subseteq vals',
         \A d \in 1..depth : par_msg'[d] \in Roots \cup {Nil, NoPar},
         sconst' = sconst,
         exc_msg' \in Val => exc_msg' \in Roots \cup vals'
  PROVE  NoDangling'
<1>1. Nil \notin Val /\ NoPar \notin Val
  BY ObjAssumption DEF Word
<1>2. \A x \in Val : x \in HeldByPars' => x \in Roots
  BY <1>1 DEF HeldByPars
<1>. QED  BY <1>2, StepSafe, CallsSame, MemorySame, PlacesSame, ConstsSame

LEMMA BeginSafe ==
  ASSUME IInv, Begin
  PROVE  NoDangling'
<1>. USE DEF IInv
<1>0. /\ depth' = depth /\ depth = 0 /\ vals = {} /\ Live = {}
      /\ mem[Glob] = Nil /\ block' = block
  BY DEF Begin, NothingBeforeRun
<1>1. Nil \notin Val
  BY ObjAssumption DEF Word
<1>2. vals \in Left /\ vals \subseteq vals'
  BY <1>0 DEF Left
<1>3. HeldByCalls' = {} /\ HeldByPars' = {}
  BY <1>0 DEF HeldByCalls, HeldByPars
<1>4. mem'[Glob] \in vals' \/ mem'[Glob] = Nil
  BY <1>0 DEF Begin, TypeOK, Place
<1>5. LivePlace' \subseteq {Glob}
  BY <1>0 DEF LivePlace, Live
<1>6. \A x \in Val : x \in HeldByMemory' => x \in vals'
  BY <1>1, <1>4, <1>5 DEF HeldByMemory
<1>7. sconst' = sconst /\ exc_msg' = exc_msg
  BY DEF Begin
<1>. QED  BY <1>2, <1>3, <1>6, <1>7, StepSafe, ConstsSame, ExcHeld

LEMMA LeaveSafe ==
  ASSUME IInv, Leave
  PROVE  NoDangling'
<1>. USE DEF IInv
<1>0. /\ depth > 0 /\ Pop /\ vals' = vals /\ block' = block
      /\ sconst' = sconst /\ status \notin {"start", "norun"}
  BY DEF Leave, NothingBeforeRun
<1>1. depth \in Nat /\ \A d \in 1..depth : d \in Slot
  BY DepthAssumption DEF TypeOK, Slot
<1>2. Message \in Roots \cup {TrapMsg}
  BY ExcHeld DEF Message
<1>3. exc_msg' \in Roots \cup {Nil}
  BY ExcHeld DEF Leave
<1>4. \A d \in 1..(depth - 1), r \in Reg : v'[d][r] \in Roots
  <2>. SUFFICES ASSUME NEW d \in 1..(depth - 1), NEW r \in Reg
                PROVE  v'[d][r] \in Roots
    OBVIOUS
  <2>1. d \in 1..depth /\ d # depth /\ d \in Slot
    BY <1>1
  <2>2. v'[d] = v[d]
    BY <2>1 DEF Leave, TypeOK
  <2>. QED  BY <2>1, <2>2 DEF Roots, Marked, HeldByCalls
<1>5. \A d \in 1..(depth - 1) : par_msg'[d] \in Roots \cup {NoPar, TrapMsg}
  <2>. SUFFICES ASSUME NEW d \in 1..(depth - 1)
                PROVE  par_msg'[d] \in Roots \cup {NoPar, TrapMsg}
    OBVIOUS
  <2>1. d \in 1..depth /\ d \in Slot /\ par_msg[d] \in Roots
    BY <1>1, ParHeld
  <2>2. par_msg'[d] \in {par_msg[d], Message, NoPar}
    BY <2>1 DEF Leave, TypeOK
  <2>. QED  BY <1>2, <2>1, <2>2
<1>. QED  BY <1>0, <1>3, <1>4, <1>5, PopSafe

LEMMA ReturnSafe ==
  ASSUME IInv, NEW r \in Reg, NEW a \in Reg, Return(r, a)
  PROVE  NoDangling'
<1>. USE DEF IInv
<1>0. /\ depth > 0 /\ Pop /\ vals' = vals /\ block' = block
      /\ sconst' = sconst /\ status \notin {"start", "norun"}
      /\ par_msg' = par_msg /\ exc_msg' = exc_msg
  BY DEF Return, Running
<1>1. depth \in Nat /\ \A d \in 1..(depth - 1) :
                         d \in 1..depth /\ d \in Slot /\ d # depth
  BY DepthAssumption DEF TypeOK, Slot
<1>2. v[depth][a] \in Roots
  BY <1>0, RegHeld
<1>3. \A d \in 1..(depth - 1), s \in Reg : v'[d][s] \in Roots
  <2>. SUFFICES ASSUME NEW d \in 1..(depth - 1), NEW s \in Reg
                PROVE  v'[d][s] \in Roots
    OBVIOUS
  <2>1. v[d][s] \in Roots /\ v[d] \in [Reg -> Word]
    BY <1>1 DEF TypeOK, Roots, Marked, HeldByCalls
  <2>2. v'[d] = v[d] \/ v'[d] = [v[d] EXCEPT ![r] = v[depth][a]]
    BY <1>1 DEF Return
  <2>. QED  BY <1>2, <2>1, <2>2
<1>4. \A d \in 1..(depth - 1) : par_msg'[d] \in Roots
  BY <1>0, <1>1, ParHeld
<1>. QED  BY <1>0, <1>3, <1>4, ExcHeld, PopSafe

\* An allocation leaves a set of Left, when it fits and when it does not.
LEMMA TakeLeaves ==
  ASSUME NEW n, NEW S0 \in BeforeValue
  PROVE  Take(n, S0) \in Left
  BY TakeLeft DEF BeforeValue, Left

\* A block of mem_alloc: zeroed, it holds nothing.
LEMMA MemAllocSafe ==
  ASSUME IInv, NEW b \in Block, MemAlloc(b)
  PROVE  NoDangling'
<1>. USE DEF IInv
<1>. DEFINE n == SizeOf[b]
            S == Take(n, vals)
<1>0. /\ status \notin {"start", "norun"} /\ depth > 0 /\ depth' = depth
      /\ v' = v /\ par_msg' = par_msg /\ sconst' = sconst
      /\ exc_msg' = exc_msg
  BY DEF MemAlloc, Running
<1>1. \E T \in Left : T \subseteq vals'
  <2>1. S \in Left /\ vals \in Left
    BY TakeLeft DEF Left
  <2>. QED  BY <2>1 DEF MemAlloc, Taken, NoMemory, Collected
<1>2. Nil \notin Val
  BY ObjAssumption DEF Word
<1>3. CASE block' = block /\ mem' = mem
  BY <1>0, <1>1, <1>3, KeepSafe, ExcHeld, ParHeld
<1>4. CASE /\ block' = [block EXCEPT ![b] = "live"]
           /\ mem' = [mem EXCEPT ![b] = Nil]
  <2>1. \A p \in LivePlace' : p \in Place /\ (p = b \/ p \in LivePlace)
    <3>1. LivePlace' \subseteq Place
      BY <1>0, DepthAssumption DEF LivePlace, Live, Place, Slot, TypeOK
    <3>2. \A p \in Live' : p = b \/ p \in Live
      BY <1>4 DEF Live, TypeOK
    <3>. QED  BY <1>0, <3>1, <3>2 DEF LivePlace
  <2>2. \A x \in Val : x \in HeldByMemory' => x \in Roots
    <3>. SUFFICES ASSUME NEW p \in LivePlace', mem'[p] \in Val
                  PROVE  mem'[p] \in Roots
      BY DEF HeldByMemory
    <3>. QED  BY <1>2, <1>4, <2>1, MemHeld DEF TypeOK
  <2>. QED  BY <1>0, <1>1, <2>2, StepSafe, CallsSame, ParsSame, ConstsSame,
               ExcHeld
<1>. QED  BY <1>3, <1>4 DEF MemAlloc

LEMMA DanglingStep ==
  ASSUME IInv, [Next]_vars
  PROVE  NoDangling'
<1>. USE DEF IInv
<1>0. /\ Nil \notin Val /\ TrapMsg \notin Val /\ NoPar \notin Val
      /\ vals \in Left /\ Glob \in Place
  BY ObjAssumption DEF Word, Left, Place
<1>1. CASE Begin
  BY <1>1, BeginSafe
<1>2. CASE CallEntry
  <2>1. depth = 0 /\ status = "entry"
    BY <1>2 DEF CallEntry, NothingBeforeRun
  <2>2. /\ \A r \in Reg : NoRegs[r] \in Roots \cup {Nil}
        /\ \A d \in 1..depth : par_msg[d] \in Roots \cup {NoPar}
    BY ParHeld DEF NoRegs
  <2>. QED  BY <1>2, <2>1, <2>2, EnterSafe DEF CallEntry
<1>3. ASSUME NEW r \in Reg, NEW a \in Reg, Call(r, a) PROVE NoDangling'
  <2>1. v[depth][a] \in Roots /\ status = "ok"
    BY <1>3, RegHeld DEF Call, Running
  <2>. DEFINE regs == [NoRegs EXCEPT ![r] = v[depth][a]]
  <2>2. /\ \A s \in Reg : regs[s] \in Roots \cup {Nil}
        /\ \A d \in 1..depth : par_msg[d] \in Roots \cup {NoPar}
    BY <2>1, ParHeld DEF NoRegs
  <2>3. Enter(regs, par_msg) /\ EnterRest
    BY <1>3 DEF Call
  <2>. HIDE DEF regs
  <2>. QED  BY <2>1, <2>2, <2>3, EnterSafe
<1>4. ASSUME NEW r \in Reg, NEW a \in Reg, Return(r, a) PROVE NoDangling'
  BY <1>4, ReturnSafe
<1>5. ASSUME NEW r \in Reg, NEW a \in Reg, Move(r, a) PROVE NoDangling'
  <2>1. PICK w \in {v[depth][a], Nil} : v' = [v EXCEPT ![depth][r] = w]
    BY <1>5 DEF Move
  <2>2. /\ status \notin {"start", "norun"} /\ depth > 0
        /\ depth' = depth /\ block' = block /\ mem' = mem /\ vals' = vals
        /\ par_msg' = par_msg /\ sconst' = sconst /\ exc_msg' = exc_msg
    BY <1>5 DEF Move, Running, Untouched, ValueRest
  <2>3. w \in Val => w \in Roots \cup vals'
    BY <1>0, <2>1, <2>2, RegHeld
  <2>4. vals \subseteq vals' /\ LivePlace' \subseteq LivePlace
    BY <2>2, PlacesSame
  <2>. QED  BY <1>0, <2>1, <2>2, <2>3, <2>4, InstSafe, ParHeld, ConstHeld,
               ExcHeld
<1>6. ASSUME NEW r \in Reg, RtMake(r) PROVE NoDangling'
  <2>1. PICK S0 \in BeforeValue, n \in Sizes :
          LET S == Take(n, S0) IN
          \/ NoMemory(n, S) /\ v' = v
          \/ \E x \in Val \ S : Made(x, S) /\ v' = [v EXCEPT ![depth][r] = x]
    BY <1>6 DEF RtMake
  <2>. DEFINE S == Take(n, S0)
  <2>2. S \in Left /\ S \subseteq vals'
    BY <2>1, TakeLeaves DEF Made, NoMemory, Collected
  <2>3. /\ status \notin {"start", "norun"} /\ depth > 0
        /\ depth' = depth /\ block' = block /\ mem' = mem
        /\ par_msg' = par_msg /\ sconst' = sconst /\ exc_msg' = exc_msg
    BY <1>6 DEF RtMake, Running, ValueRest
  <2>4. PICK w : /\ v' = v \/ v' = [v EXCEPT ![depth][r] = w]
                 /\ w \in Val => w \in Roots \cup vals'
    BY <1>0, <2>1 DEF Made
  <2>5. LivePlace' \subseteq LivePlace
    BY <2>3, PlacesSame
  <2>. HIDE DEF S
  <2>. QED  BY <1>0, <2>2, <2>3, <2>4, <2>5, InstSafe, ParHeld, ConstHeld,
               ExcHeld
<1>7. CASE TrapSaid
  <2>1. PICK S0 \in BeforeValue, n \in Sizes :
          LET S == Take(n, S0) IN
          \/ NoMemory(n, S) /\ exc_msg' = exc_msg
          \/ \E x \in Val \ S : Made(x, S) /\ exc_msg' = x
    BY <1>7 DEF TrapSaid
  <2>. DEFINE S == Take(n, S0)
  <2>2. S \in Left /\ S \subseteq vals'
    BY <2>1, TakeLeaves DEF Made, NoMemory, Collected
  <2>3. /\ status \notin {"start", "norun"} /\ depth' = depth
        /\ block' = block /\ v' = v /\ mem' = mem
        /\ par_msg' = par_msg /\ sconst' = sconst
    BY <1>7 DEF TrapSaid, Running, ValueRest
  <2>4. exc_msg' \in Roots \cup vals'
    BY <2>1, ExcHeld DEF Made
  <2>. HIDE DEF S
  <2>. QED  BY <2>2, <2>3, <2>4, KeepSafe, ParHeld
<1>8. ASSUME NEW c \in Const, NEW r \in Reg, Sconst(c, r) PROVE NoDangling'
  <2>1. PICK S \in Left, w \in Roots \cup vals' :
          /\ S \subseteq vals' /\ v' = [v EXCEPT ![depth][r] = w]
          /\ \A d \in Const : sconst'[d] \in Roots \cup vals'
    <3>1. CASE sconst[c] # Nil
      BY <1>0, <1>8, <3>1, ConstHeld DEF Sconst, Untouched
    <3>2. CASE sconst[c] = Nil
      <4>1. PICK S0 \in BeforeValue, n \in Sizes :
              LET S == Take(n, S0) IN
              \E x \in Val \ S : /\ Made(x, S)
                               /\ sconst' = [sconst EXCEPT ![c] = x]
                               /\ v' = [v EXCEPT ![depth][r] = x]
        BY <1>8, <3>2 DEF Sconst
      <4>2. Take(n, S0) \in Left
        BY TakeLeaves
      <4>3. PICK x \in Val : /\ Made(x, Take(n, S0))
                             /\ sconst' = [sconst EXCEPT ![c] = x]
                             /\ v' = [v EXCEPT ![depth][r] = x]
        BY <4>1
      <4>4. \A d \in Const : sconst'[d] \in Roots \cup vals'
        BY <4>3, ConstHeld DEF Made, TypeOK
      <4>. QED  BY <4>2, <4>3, <4>4 DEF Made
    <3>. QED  BY <3>1, <3>2
  <2>2. /\ status \notin {"start", "norun"} /\ depth > 0
        /\ depth' = depth /\ block' = block /\ mem' = mem
        /\ par_msg' = par_msg /\ exc_msg' = exc_msg
    BY <1>8 DEF Sconst, Running, ValueRest
  <2>3. LivePlace' \subseteq LivePlace
    BY <2>2, PlacesSame
  <2>. QED  BY <1>0, <2>1, <2>2, <2>3, InstSafe, ParHeld, ExcHeld
<1>9. ASSUME NEW r \in Reg, NEW p \in Place, Load(r, p) PROVE NoDangling'
  <2>1. /\ status \notin {"start", "norun"} /\ depth > 0
        /\ depth' = depth /\ block' = block /\ mem' = mem /\ vals' = vals
        /\ par_msg' = par_msg /\ sconst' = sconst /\ exc_msg' = exc_msg
    BY <1>9 DEF Load, Running, MemRest, Untouched
  <2>2. PICK w \in Roots : v' = v \/ v' = [v EXCEPT ![depth][r] = w]
    BY <1>9, MemHeld, ExcHeld DEF Load
  <2>3. vals \subseteq vals' /\ LivePlace' \subseteq LivePlace
    BY <2>1, PlacesSame
  <2>. QED  BY <1>0, <2>1, <2>2, <2>3, InstSafe, ParHeld, ConstHeld, ExcHeld
<1>10. ASSUME NEW p \in Place, NEW w, NEW ok, Write(p, w, ok), Running,
              ok /\ w \in Val => w \in Roots
       PROVE  NoDangling'
  <2>1. /\ status \notin {"start", "norun"} /\ depth > 0
        /\ depth' = depth /\ block' = block /\ v' = v /\ vals' = vals
        /\ par_msg' = par_msg /\ sconst' = sconst /\ exc_msg' = exc_msg
    BY <1>10 DEF Write, Running, MemRest, Untouched
  <2>2. vals \subseteq vals' /\ LivePlace' \subseteq LivePlace
    BY <2>1, PlacesSame
  <2>3. CASE mem' = mem
    BY <1>0, <2>1, <2>2, <2>3, KeepSafe, ParHeld, ExcHeld
  <2>4. CASE ok /\ mem' = [mem EXCEPT ![p] = w]
    <3>1. \A x \in Val : x \in HeldByMemory' => x \in Roots
      BY <1>10, <2>2, <2>4, MemorySafe
    <3>. QED  BY <1>0, <2>1, <2>2, <3>1, StepSafe, CallsSame, ParsSame,
                 ConstsSame, ExcHeld
  <2>. QED  BY <1>10, <2>3, <2>4 DEF Write
<1>11. ASSUME NEW p \in Place, NEW a \in Reg, Store(p, a) PROVE NoDangling'
  <2>1. Running /\ v[depth][a] \in Roots
    BY <1>11, RegHeld DEF Store, Write, Running
  <2>. QED  BY <1>10, <1>11, <2>1 DEF Store
<1>12. ASSUME NEW p \in Place, NEW q \in Place, Memcpy(p, q)
       PROVE  NoDangling'
  <2>1. Running /\ (q \in LivePlace => mem[q] \in Roots)
    BY <1>12, MemHeld DEF Memcpy, Write
  <2>. QED  BY <1>10, <1>12, <2>1 DEF Memcpy
<1>13. ASSUME NEW p \in Place, Memset(p) PROVE NoDangling'
  <2>1. Running
    BY <1>13 DEF Memset, Write
  <2>. QED  BY <1>0, <1>10, <1>13, <2>1 DEF Memset
<1>14. ASSUME NEW b \in Block, MemAlloc(b) PROVE NoDangling'
  BY <1>14, MemAllocSafe
<1>15. ASSUME NEW b \in Block, MemFree(b) PROVE NoDangling'
  <2>1. /\ status \notin {"start", "norun"} /\ depth' = depth
        /\ v' = v /\ mem' = mem /\ vals' = vals
        /\ par_msg' = par_msg /\ sconst' = sconst /\ exc_msg' = exc_msg
        /\ block' = block \/ block' = [block EXCEPT ![b] = "freed"]
    BY <1>15 DEF MemFree, Running
  <2>2. LivePlace' \subseteq LivePlace
    BY <2>1 DEF LivePlace, Live, TypeOK
  <2>3. vals \subseteq vals'
    BY <2>1
  <2>. QED  BY <1>0, <2>1, <2>2, <2>3, StepSafe, CallsSame, MemorySame,
               ParsSame, ConstsSame, ExcHeld
<1>16. ASSUME depth' = depth, v' = v, status \notin {"start", "norun"},
              ExcRest,
              \A d \in 1..depth : par_msg'[d] \in Roots \cup {Nil, NoPar},
              exc_msg' \in Val => exc_msg' \in Roots
       PROVE  NoDangling'
  <2>1. vals \subseteq vals'
    BY <1>16 DEF ExcRest, Untouched
  <2>. QED  BY <1>0, <1>16, <2>1, KeepSafe DEF ExcRest, Untouched
<1>17. CASE Trap
  BY <1>16, <1>17, ParHeld, ExcHeld DEF Trap, Running
<1>18. ASSUME NEW a \in Reg, Raise(a) PROVE NoDangling'
  <2>1. v[depth][a] \in Roots
    BY <1>18, RegHeld DEF Raise, Running
  <2>. QED  BY <1>16, <1>18, <2>1, ParHeld DEF Raise, Running
<1>19. ASSUME NEW r \in Reg, Caught(r) PROVE NoDangling'
  <2>1. /\ status \notin {"start", "norun"} /\ depth > 0
        /\ depth' = depth /\ block' = block /\ mem' = mem /\ vals' = vals
        /\ par_msg' = par_msg /\ sconst' = sconst /\ exc_msg' = Nil
        /\ v' = [v EXCEPT ![depth][r] = Message]
    BY <1>19 DEF Caught, ExcRest, Untouched
  <2>2. Message \in Val => Message \in Roots
    BY <1>0, ExcHeld DEF Message
  <2>3. vals \subseteq vals' /\ LivePlace' \subseteq LivePlace
    BY <2>1, PlacesSame
  <2>. QED  BY <1>0, <2>1, <2>2, <2>3, InstSafe, ParHeld, ConstHeld
<1>20. CASE Leave
  BY <1>20, LeaveSafe
<1>21. CASE ParFor
  <2>1. \A d \in 1..depth : par_msg'[d] \in Roots \cup {Nil, NoPar}
    BY <1>21, ParHeld, DepthAssumption DEF ParFor, TypeOK, Slot
  <2>. QED  BY <1>16, <1>21, <2>1, ExcHeld DEF ParFor, Running
<1>22. CASE ParIter
  <2>. DEFINE from == [par_msg EXCEPT ![depth] = NoPar]
  <2>1. /\ \A r \in Reg : NoRegs[r] \in Roots \cup {Nil}
        /\ \A d \in 1..depth : from[d] \in Roots \cup {NoPar}
        /\ status = "ok" /\ Enter(NoRegs, from) /\ EnterRest
    BY <1>22, ParHeld, DepthAssumption
       DEF ParIter, InParFor, NoRegs, TypeOK, Slot
  <2>. HIDE DEF from
  <2>. QED  BY <2>1, EnterSafe
<1>23. CASE ParEnd
  <2>1. depth \in 1..depth /\ \A d \in 1..depth : d \in Slot
    BY <1>23, DepthAssumption DEF ParEnd, InParFor, TypeOK, Slot
  <2>2. \A d \in 1..depth : par_msg'[d] \in Roots \cup {Nil, NoPar}
    BY <1>23, <2>1, ParHeld DEF ParEnd, TypeOK
  <2>. QED  BY <1>16, <1>23, <2>1, <2>2, ParHeld DEF ParEnd, InParFor
<1>24. CASE UNCHANGED vars
  BY <1>24 DEF vars, NoDangling, Marked, HeldByCalls, HeldByMemory, HeldByPars,
               HeldByConsts, LivePlace, Live
<1>. QED
  BY <1>1, <1>2, <1>3, <1>4, <1>5, <1>6, <1>7, <1>8, <1>9, <1>11, <1>12,
     <1>13, <1>14, <1>15, <1>17, <1>18, <1>19, <1>20, <1>21, <1>22, <1>23,
     <1>24 DEF Next, Terminated

LEMMA InitInv == Init => IInv
<1>. SUFFICES ASSUME Init PROVE IInv
  OBVIOUS
<1>1. TypeOK
  BY InitType
<1>2. Nil \notin Val /\ NoPar \notin Val
  BY ObjAssumption DEF Word
<1>3. NoDangling
  BY <1>2 DEF Init, NoDangling, Marked, HeldByCalls, HeldByMemory, HeldByPars,
              HeldByConsts, LivePlace, Live, Slot, NoRegs
<1>4. ConstsImmortal /\ NothingBeforeRun /\ ParsRun
  BY DEF Init, ConstsImmortal, NothingBeforeRun, ParsRun, Live, Glob, Place
<1>. QED  BY <1>1, <1>3, <1>4 DEF IInv

\* No word that the program may still read is a value that a collection
\* freed (collect, eval.c): whatever the constants.
THEOREM NoValueDangling == Spec => []NoDangling
<1>1. Init => IInv
  BY InitInv
<1>2. IInv /\ [Next]_vars => IInv'
  BY TypeStep, DanglingStep, ConstsStep, BeforeRunStep, ParsStep DEF IInv
<1>3. IInv => NoDangling
  BY DEF IInv
<1>. QED  BY <1>1, <1>2, <1>3, PTL DEF Spec

-----------------------------------------------------------------------------
(* The counters. *)

Begun == {"entry", "ok", "exc", "nomem", "stack", "fatal", "bad"}

LEMMA PlacesType ==
  ASSUME TypeOK
  PROVE  /\ LivePlace \subseteq Place /\ vals \subseteq Val
         /\ vals \cap LivePlace = {}
         /\ vals \cup LivePlace \in SUBSET Obj
  BY DepthAssumption, ObjAssumption
     DEF TypeOK, LivePlace, Live, Place, Slot, Obj

LEMMA PlacesKept ==
  ASSUME depth' = depth, block' = block, status \in Begun, status' \in Begun
  PROVE  LivePlace' = LivePlace
  BY DEF LivePlace, Live, Begun

\* What each step that may allocate does with the budget, told once: the
\* entry of a call, a value of the run time, a block of mem_alloc.
LEMMA EnterCases ==
  ASSUME IInv, status \in Begun, NEW regs, NEW from,
         Enter(regs, from), EnterRest
  PROVE  \/ Untouched /\ LivePlace' = LivePlace /\ status' = "stack"
         \/ \E S \in Left, p \in Place \ LivePlace :
              /\ Fits(SizeOf[p], S) /\ Taken(SizeOf[p], S)
              /\ LivePlace' = LivePlace \cup {p} /\ status' = "ok"
         \/ \E S \in Left, p \in Place :
              /\ S = Take(SizeOf[p], vals)
              /\ NoMemory(SizeOf[p], S) /\ LivePlace' = LivePlace
<1>. USE DEF IInv
<1>. DEFINE n == SizeOf[depth + 1]
            S == Take(n, vals)
<1>0. S \in Left
  BY TakeLeft DEF Left
<1>1. CASE depth >= MaxDepth
  <2>1. LivePlace' = LivePlace
    BY <1>1, PlacesKept DEF Enter, EnterRest, Begun
  <2>. QED  BY <1>1, <2>1 DEF Enter
<1>2. CASE depth < MaxDepth
  <2>1. depth \in Nat /\ ~(depth >= MaxDepth)
    BY <1>2, DepthAssumption DEF TypeOK
  <2>2. depth + 1 \in Place \ LivePlace
    BY <1>2, <2>1, DepthAssumption, ObjAssumption
       DEF Place, Slot, LivePlace, Live, Glob
  <2>3. CASE /\ Fits(n, S) /\ Taken(n, S) /\ depth' = depth + 1
             /\ block' = block /\ status' = "ok"
    <3>1. LivePlace' = LivePlace \cup {depth + 1}
      BY <2>1, <2>3 DEF LivePlace, Live, Begun
    <3>. HIDE DEF S
    <3>. QED  BY <1>0, <2>2, <2>3, <3>1
  <2>4. CASE NoMemory(n, S) /\ depth' = depth /\ block' = block
    <3>1. LivePlace' = LivePlace
      BY <2>4, PlacesKept DEF Begun, NoMemory
    <3>2. depth + 1 \in Place /\ S = Take(SizeOf[depth + 1], vals)
      BY <2>2
    <3>. HIDE DEF S
    <3>. QED  BY <1>0, <2>4, <3>1, <3>2
  <2>. QED  BY <2>1, <2>3, <2>4 DEF Enter, EnterRest
<1>. QED  BY <1>1, <1>2, DepthAssumption DEF TypeOK

LEMMA ValueCases ==
  ASSUME (\E r \in Reg : RtMake(r)) \/ TrapSaid
  PROVE  /\ LivePlace' = LivePlace
         /\ \E S0 \in BeforeValue, n \in Sizes :
              \/ \E x \in Val \ Take(n, S0) :
                   /\ SizeOf[x] = n /\ Fits(n, Take(n, S0))
                   /\ Made(x, Take(n, S0)) /\ status' \in {"ok", "exc"}
              \/ NoMemory(n, Take(n, S0))
<1>1. /\ status = "ok" /\ depth' = depth /\ block' = block
      /\ \E S0 \in BeforeValue, n \in Sizes :
           \/ \E x \in Val \ Take(n, S0) :
                /\ SizeOf[x] = n /\ Fits(n, Take(n, S0))
                /\ Made(x, Take(n, S0)) /\ status' \in {"ok", "exc"}
           \/ NoMemory(n, Take(n, S0))
  <2>1. CASE \E r \in Reg : RtMake(r)
    BY <2>1 DEF RtMake, Running, ValueRest
  <2>2. CASE TrapSaid
    BY <2>2 DEF TrapSaid, Running, ValueRest
  <2>. QED  BY <2>1, <2>2
<1>2. status' \in {"ok", "exc", "nomem"}
  BY <1>1 DEF NoMemory
<1>. QED  BY <1>1, <1>2, PlacesKept DEF Begun

\* The last of the three is the negative size.
LEMMA MemAllocCases ==
  ASSUME IInv, NEW b \in Block, MemAlloc(b)
  PROVE  \/ \E S \in Left :
              /\ b \in Place \ LivePlace
              /\ Fits(SizeOf[b], S) /\ Taken(SizeOf[b], S)
              /\ LivePlace' = LivePlace \cup {b} /\ status' = "ok"
         \/ \E S \in Left :
              /\ S = Take(SizeOf[b], vals)
              /\ NoMemory(SizeOf[b], S) /\ LivePlace' = LivePlace
         \/ /\ vals' = vals /\ used' = used /\ valbytes' = valbytes
            /\ refused' = 0 /\ LivePlace' = LivePlace
<1>. USE DEF IInv
<1>. DEFINE n == SizeOf[b]
            S == Take(n, vals)
<1>1. S \in Left /\ status = "ok" /\ depth' = depth /\ block[b] = "unused"
  BY TakeLeft DEF Left, MemAlloc, Running
<1>2. CASE /\ Fits(n, S) /\ Taken(n, S) /\ status' = status
           /\ block' = [block EXCEPT ![b] = "live"]
  <2>1. Live' = Live \cup {b}
    BY <1>2 DEF Live, TypeOK
  <2>2. LivePlace' = LivePlace \cup {b}
    BY <1>1, <1>2, <2>1 DEF LivePlace
  <2>3. b \in Place \ LivePlace
    BY <1>1, DepthAssumption, ObjAssumption
       DEF Place, LivePlace, Live, Slot, TypeOK
  <2>. HIDE DEF S
  <2>. QED  BY <1>1, <1>2, <2>2, <2>3
<1>3. CASE NoMemory(n, S) /\ block' = block
  <2>1. LivePlace' = LivePlace
    BY <1>1, <1>3, PlacesKept DEF Begun, NoMemory
  <2>2. S = Take(SizeOf[b], vals)
    OBVIOUS
  <2>. HIDE DEF S
  <2>. QED  BY <1>1, <1>3, <2>1, <2>2
<1>4. CASE /\ status' = "nomem" /\ refused' = 0
           /\ UNCHANGED <<vals, used, valbytes, block, mem>>
  <2>1. LivePlace' = LivePlace
    BY <1>1, <1>4, PlacesKept DEF Begun
  <2>. QED  BY <1>4, <2>1
<1>. QED  BY <1>2, <1>3, <1>4 DEF MemAlloc

LEMMA LeftAccounted ==
  ASSUME TypeOK, Accounted, NEW S \in Left
  PROVE  /\ UsedAt(S) = Bytes(S \cup LivePlace) % Word64
         /\ ValbytesAt(S) = Bytes(S) % Word64
<1>1. S \subseteq vals
  BY DEF Left, Kept
<1>. DEFINE T == vals \ S
            A == vals \cup LivePlace
<1>2. /\ T \in SUBSET A /\ A \in SUBSET Obj /\ A \ T = S \cup LivePlace
      /\ T \in SUBSET vals /\ vals \in SUBSET Obj /\ vals \ T = S
  BY <1>1, PlacesType
<1>. HIDE DEF T, A
<1>3. ((Bytes(A) % Word64) - Bytes(T)) % Word64 = Bytes(A \ T) % Word64
  BY <1>2, CountLess
<1>4. ((Bytes(vals) % Word64) - Bytes(T)) % Word64
        = Bytes(vals \ T) % Word64
  BY <1>2, CountLess
<1>. QED  BY <1>2, <1>3, <1>4 DEF UsedAt, ValbytesAt, Accounted, T, A

LEMMA SameAccounted ==
  ASSUME Accounted, Untouched, LivePlace' = LivePlace
  PROVE  Accounted'
<1>1. Bytes(vals' \cup LivePlace') = Bytes(vals \cup LivePlace)
      /\ Bytes(vals') = Bytes(vals)
  BY DEF Untouched
<1>. QED  BY <1>1 DEF Accounted, Untouched

LEMMA CollectedAccounted ==
  ASSUME TypeOK, Accounted, NEW S \in Left, Collected(S),
         LivePlace' = LivePlace
  PROVE  Accounted'
  BY LeftAccounted DEF Collected, Accounted

LEMMA MadeAccounted ==
  ASSUME TypeOK, Accounted, NEW S \in Left, NEW x \in Val \ S, Made(x, S),
         LivePlace' = LivePlace
  PROVE  Accounted'
<1>. DEFINE A == S \cup LivePlace
<1>1. /\ A \in SUBSET Obj /\ S \in SUBSET Obj
      /\ x \in Obj \ A /\ x \in Obj \ S
  BY PlacesType, ObjAssumption DEF Left, Kept, Obj
<1>2. ((Bytes(A) % Word64) + SizeOf[x]) % Word64 = Bytes(A \cup {x}) % Word64
  BY <1>1, CountMore
<1>3. ((Bytes(S) % Word64) + SizeOf[x]) % Word64 = Bytes(S \cup {x}) % Word64
  BY <1>1, CountMore
<1>4. vals' = S \cup {x} /\ vals' \cup LivePlace' = A \cup {x}
  BY DEF Made
<1>. QED  BY <1>2, <1>3, <1>4, LeftAccounted DEF Made, Accounted

LEMMA TakenAccounted ==
  ASSUME TypeOK, Accounted, NEW S \in Left, NEW p \in Place \ LivePlace,
         Taken(SizeOf[p], S), LivePlace' = LivePlace \cup {p}
  PROVE  Accounted'
<1>. DEFINE A == S \cup LivePlace
<1>1. A \in SUBSET Obj /\ p \in Obj \ A
  BY PlacesType, ObjAssumption DEF Left, Kept, Obj
<1>2. ((Bytes(A) % Word64) + SizeOf[p]) % Word64 = Bytes(A \cup {p}) % Word64
  BY <1>1, CountMore
<1>3. vals' = S /\ vals' \cup LivePlace' = A \cup {p}
  BY DEF Taken
<1>. QED  BY <1>2, <1>3, LeftAccounted DEF Taken, Accounted

LEMMA FreedAccounted ==
  ASSUME TypeOK, Accounted, NEW p \in LivePlace,
         vals' = vals, valbytes' = valbytes,
         used' = (used - SizeOf[p]) % Word64, LivePlace' = LivePlace \ {p}
  PROVE  Accounted'
<1>. DEFINE A == vals \cup LivePlace
<1>1. /\ A \in SUBSET Obj /\ {p} \in SUBSET A /\ p \in Obj
      /\ vals' \cup LivePlace' = A \ {p}
  BY PlacesType
<1>2. ((Bytes(A) % Word64) - Bytes({p})) % Word64 = Bytes(A \ {p}) % Word64
  BY <1>1, CountLess
<1>3. Bytes({p}) = SizeOf[p]
  BY <1>1, BytesOne
<1>. QED  BY <1>1, <1>2, <1>3 DEF Accounted

LEMMA EnterAccounted ==
  ASSUME IInv, Accounted, status \in Begun, NEW regs, NEW from,
         Enter(regs, from), EnterRest
  PROVE  Accounted'
<1>. USE DEF IInv
<1>1. CASE Untouched /\ LivePlace' = LivePlace
  BY <1>1, SameAccounted
<1>2. ASSUME NEW S \in Left, NEW p \in Place \ LivePlace,
             Taken(SizeOf[p], S), LivePlace' = LivePlace \cup {p}
      PROVE  Accounted'
  BY <1>2, TakenAccounted
<1>3. ASSUME NEW S \in Left, NEW n, NoMemory(n, S), LivePlace' = LivePlace
      PROVE  Accounted'
  BY <1>3, CollectedAccounted DEF NoMemory
<1>. QED  BY <1>1, <1>2, <1>3, EnterCases

LEMMA PopAccounted ==
  ASSUME IInv, Accounted, depth > 0, status \in Begun, status' \in Begun,
         Pop, vals' = vals, valbytes' = valbytes, block' = block
  PROVE  Accounted'
<1>. USE DEF IInv
<1>1. /\ depth \in LivePlace /\ depth' = depth - 1
      /\ used' = (used - SizeOf[depth]) % Word64
  BY DepthAssumption DEF LivePlace, Pop, TypeOK
<1>2. LivePlace' = LivePlace \ {depth}
  <2>0. depth \in 1..MaxDepth /\ depth # 0
    BY DepthAssumption DEF TypeOK
  <2>1. depth \notin Block /\ depth # Glob /\ depth \in 1..MaxDepth
    BY <2>0, ObjAssumption DEF Slot, Glob
  <2>2. 1..depth' = (1..depth) \ {depth}
    BY <1>1, <2>1, DepthAssumption
  <2>3. Live' = Live /\ depth \notin Live
    BY <2>1 DEF Live
  <2>. QED  BY <2>1, <2>2, <2>3 DEF LivePlace, Begun
<1>. QED  BY <1>1, <1>2, FreedAccounted

LEMMA BeginAccounted ==
  ASSUME IInv, Accounted, Begin
  PROVE  Accounted'
<1>. USE DEF IInv
<1>0. /\ vals = {} /\ Live = {} /\ depth = 0 /\ depth' = depth
      /\ block' = block /\ Live' = Live /\ status = "start"
  BY DEF Begin, NothingBeforeRun, Live
<1>1. CASE status' = "norun"
  <2>1. LivePlace' = LivePlace
    BY <1>0, <1>1 DEF LivePlace
  <2>. QED  BY <1>1, <2>1, SameAccounted DEF Begin, Untouched
<1>2. CASE status' = "entry" /\ InitStr
  <2>1. LivePlace' = {Glob}
    BY <1>0, <1>2 DEF LivePlace
  <2>2. PICK x \in Val :
          /\ vals' = {x}
          /\ used' = (SizeOf[Glob] + SizeOf[x]) % Word64
          /\ valbytes' = SizeOf[x] % Word64
    BY <1>2 DEF Begin
  <2>3. /\ x \in Obj /\ Glob \in Obj /\ x # Glob
        /\ {x} \in SUBSET Obj /\ {Glob} \in SUBSET Obj
        /\ {Glob} \cap {x} = {}
    BY ObjAssumption DEF Obj, Place
  <2>4. /\ Bytes({x}) = SizeOf[x] /\ Bytes({Glob}) = SizeOf[Glob]
        /\ SizeOf[x] \in Int /\ SizeOf[Glob] \in Int
    BY <2>3, BytesOne, SizeAssumption
  <2>5. Bytes({Glob} \cup {x}) = SizeOf[Glob] + SizeOf[x]
    <3>1. Bytes({Glob} \cup {x}) = Bytes({Glob}) + Bytes({x})
      BY <2>3, BytesUnion
    <3>. QED  BY <2>4, <3>1
  <2>6. vals' \cup LivePlace' = {Glob} \cup {x}
    BY <2>1, <2>2
  <2>. QED  BY <2>2, <2>4, <2>5, <2>6 DEF Accounted
<1>3. CASE status' = "entry" /\ ~InitStr
  <2>1. LivePlace = {} /\ LivePlace' = LivePlace \cup {Glob}
    BY <1>0, <1>3 DEF LivePlace
  <2>2. Taken(SizeOf[Glob], vals) /\ vals \in Left /\ Glob \in Place
    BY <1>3 DEF Begin, Left, Place
  <2>. QED  BY <2>1, <2>2, TakenAccounted
<1>. QED  BY <1>1, <1>2, <1>3 DEF Begin

\* The counters in the step of a value made by an instruction.
LEMMA ValueAccounted ==
  ASSUME TypeOK, Accounted, NEW S0 \in BeforeValue, NEW n,
         LivePlace' = LivePlace,
         \/ NoMemory(n, Take(n, S0))
         \/ \E x \in Val \ Take(n, S0) : Made(x, Take(n, S0))
  PROVE  Accounted'
<1>1. Take(n, S0) \in Left
  BY TakeLeaves
<1>. QED  BY <1>1, CollectedAccounted, MadeAccounted DEF NoMemory

LEMMA AccountedStep ==
  ASSUME IInv, Accounted, [Next]_vars
  PROVE  Accounted'
<1>. USE DEF IInv
<1>1. CASE Begin
  BY <1>1, BeginAccounted
<1>2. CASE CallEntry
  BY <1>2, EnterAccounted DEF CallEntry, Begun
<1>3. CASE ParIter
  BY <1>3, EnterAccounted DEF ParIter, InParFor, Begun
<1>4. ASSUME NEW r \in Reg, NEW a \in Reg, Call(r, a) PROVE Accounted'
  BY <1>4, EnterAccounted DEF Call, Running, Begun
<1>5. ASSUME NEW r \in Reg, NEW a \in Reg, Return(r, a) PROVE Accounted'
  BY <1>5, PopAccounted DEF Return, Running, Begun
<1>6. CASE Leave
  <2>1. status \in Begun /\ status' \in Begun
    BY <1>6 DEF Leave, NothingBeforeRun, TypeOK, Status, Begun
  <2>. QED  BY <1>6, <2>1, PopAccounted DEF Leave
<1>7. ASSUME Untouched, depth' = depth, block' = block,
             status \in Begun, status' \in Begun
      PROVE  Accounted'
  BY <1>7, PlacesKept, SameAccounted
<1>8. ASSUME NEW r \in Reg, NEW a \in Reg, Move(r, a) PROVE Accounted'
  BY <1>7, <1>8 DEF Move, Running, ValueRest, Begun
<1>9. ASSUME NEW r \in Reg, RtMake(r) PROVE Accounted'
  BY <1>9, ValueCases, ValueAccounted
<1>10. CASE TrapSaid
  BY <1>10, ValueCases, ValueAccounted
<1>11. ASSUME NEW c \in Const, NEW r \in Reg, Sconst(c, r) PROVE Accounted'
  <2>1. depth' = depth /\ block' = block /\ status = "ok" /\ status' = "ok"
    BY <1>11 DEF Sconst, Running, ValueRest
  <2>2. CASE Untouched
    BY <1>7, <2>1, <2>2 DEF Begun
  <2>3. CASE ~Untouched
    <3>1. PICK S0 \in BeforeValue, n \in Sizes :
            \E x \in Val \ Take(n, S0) : Made(x, Take(n, S0))
      BY <1>11, <2>3 DEF Sconst
    <3>2. LivePlace' = LivePlace
      BY <2>1, PlacesKept DEF Begun
    <3>. QED  BY <3>1, <3>2, ValueAccounted
  <2>. QED  BY <2>2, <2>3
<1>12. ASSUME NEW r \in Reg, NEW p \in Place, Load(r, p) PROVE Accounted'
  BY <1>7, <1>12 DEF Load, Running, MemRest, Begun
<1>13. ASSUME NEW p \in Place, NEW w, NEW ok, Write(p, w, ok)
       PROVE  Accounted'
  BY <1>7, <1>13 DEF Write, Running, MemRest, Begun
<1>14. ASSUME NEW b \in Block, MemAlloc(b) PROVE Accounted'
  <2>1. ASSUME NEW S \in Left, NoMemory(SizeOf[b], S),
               LivePlace' = LivePlace
        PROVE  Accounted'
    BY <2>1, CollectedAccounted DEF NoMemory
  <2>2. CASE /\ vals' = vals /\ used' = used /\ valbytes' = valbytes
             /\ LivePlace' = LivePlace
    <3>1. Bytes(vals' \cup LivePlace') = Bytes(vals \cup LivePlace)
          /\ Bytes(vals') = Bytes(vals)
      BY <2>2
    <3>. QED  BY <2>2, <3>1 DEF Accounted
  <2>. QED  BY <1>14, <2>1, <2>2, MemAllocCases, TakenAccounted
<1>15. ASSUME NEW b \in Block, MemFree(b) PROVE Accounted'
  <2>1. depth' = depth /\ status = "ok" /\ status' \in {"ok", "exc"}
    BY <1>15 DEF MemFree, Running
  <2>2. CASE block[b] = "live"
    <3>1. Live' = Live \ {b} /\ b \in LivePlace
      BY <1>15, <2>2 DEF MemFree, Live, LivePlace, TypeOK
    <3>2. b \notin 1..depth /\ b # Glob
      BY DepthAssumption, ObjAssumption DEF Slot, TypeOK
    <3>3. LivePlace' = LivePlace \ {b}
      BY <2>1, <3>1, <3>2 DEF LivePlace
    <3>. QED  BY <1>15, <2>2, <3>1, <3>3, FreedAccounted DEF MemFree
  <2>3. CASE block[b] # "live"
    BY <1>7, <1>15, <2>1, <2>3 DEF MemFree, Untouched, Begun
  <2>. QED  BY <2>2, <2>3
<1>16. CASE Trap \/ ParFor \/ ParEnd
  BY <1>7, <1>16 DEF Trap, ParFor, ParEnd, Running, InParFor, ExcRest, Begun
<1>17. ASSUME NEW r \in Reg, Raise(r) \/ Caught(r) PROVE Accounted'
  BY <1>7, <1>17 DEF Raise, Caught, Running, ExcRest, Begun
<1>18. CASE UNCHANGED vars
  <2>1. LivePlace' = LivePlace
    BY <1>18 DEF vars, LivePlace, Live
  <2>. QED  BY <1>18, <2>1, SameAccounted DEF vars, Untouched
<1>. QED
  BY <1>1, <1>2, <1>3, <1>4, <1>5, <1>6, <1>8, <1>9, <1>10, <1>11, <1>12,
     <1>13, <1>14, <1>15, <1>16, <1>17, <1>18
     DEF Next, Terminated, Store, Memcpy, Memset

\* e->used is what is alive, whatever order calls, returns, traps,
\* collections and frees come in: nothing leaks from the budget and nothing
\* is given back twice.
THEOREM CountersRight == Spec => []Accounted
<1>1. Init => IInv
  BY InitInv
<1>2. Init => Accounted
  <2>1. 0 % Word64 = 0
    BY SizeAssumption
  <2>2. ASSUME Init PROVE vals = {} /\ LivePlace = {}
    BY <2>2 DEF Init, LivePlace, Live
  <2>. QED  BY <2>1, <2>2, BytesEmpty DEF Init, Accounted
<1>3. IInv /\ [Next]_vars => IInv'
  BY TypeStep, DanglingStep, ConstsStep, BeforeRunStep, ParsStep DEF IInv
<1>4. IInv /\ Accounted /\ [Next]_vars => Accounted'
  BY AccountedStep
<1>. QED  BY <1>1, <1>2, <1>3, <1>4, PTL DEF Spec

-----------------------------------------------------------------------------
(* The budget. *)

\* What is alive fits in the budget.
Within == Bytes(vals \cup LivePlace) <= Budget

LEMMA BytesFewer ==
  ASSUME NEW S \in SUBSET Obj, NEW T \in SUBSET S
  PROVE  Bytes(T) \in Nat /\ Bytes(S) \in Nat /\ Bytes(T) <= Bytes(S)
<1>1. T \in SUBSET Obj /\ S \ T \in SUBSET Obj
  OBVIOUS
<1>2. Bytes(T) \in Nat /\ Bytes(S) \in Nat /\ Bytes(S \ T) \in Nat
  BY <1>1, BytesFinite
<1>3. Bytes(S \ T) = Bytes(S) - Bytes(T)
  BY BytesMinus
<1>. QED  BY <1>2, <1>3

\* Words that do not wrap: what is below the limit is itself.
LEMMA RoomLeft ==
  ASSUME NEW w \in Nat \ {0}, NEW b \in 0..(w - 1), NEW a \in 0..b
  PROVE  a % w = a /\ (b - (a % w)) % w = b - a
<1>1. a \in 0..(w - 1) /\ b - a \in 0..(w - 1)
  OBVIOUS
<1>2. a % w = a /\ (b - a) % w = b - a
  BY <1>1, WordSame
<1>. QED  BY <1>2

\* While what is left fits, the test of take and take_val is that n more
\* bytes do.
LEMMA FitsSays ==
  ASSUME TypeOK, Accounted, NEW S \in Left, Bytes(S \cup LivePlace) <= Budget,
         NEW n \in Int
  PROVE  /\ Bytes(S \cup LivePlace) \in Nat
         /\ Fits(n, S) <=> Bytes(S \cup LivePlace) + n <= Budget
<1>. DEFINE a == Bytes(S \cup LivePlace)
<1>1. S \cup LivePlace \in SUBSET Obj
  BY PlacesType DEF Left, Kept
<1>2. a \in Nat
  BY <1>1, BytesFinite
<1>3. UsedAt(S) = a % Word64
  BY LeftAccounted
<1>4. a \in 0..Budget /\ Budget \in Int
  BY <1>2, SizeAssumption
<1>. HIDE DEF a
<1>5. (Budget - (a % Word64)) % Word64 = Budget - a
  BY <1>4, RoomLeft, SizeAssumption
<1>6. Fits(n, S) <=> n <= Budget - a
  BY <1>3, <1>5 DEF Fits
<1>7. Fits(n, S) <=> a + n <= Budget
  BY <1>4, <1>6
<1>. QED  BY <1>2, <1>7 DEF a

\* What is left of what fits, fits.
LEMMA LeftWithin ==
  ASSUME TypeOK, Within, NEW S \in Left
  PROVE  Bytes(S \cup LivePlace) <= Budget
<1>1. /\ vals \cup LivePlace \in SUBSET Obj
      /\ S \cup LivePlace \in SUBSET (vals \cup LivePlace)
  BY PlacesType DEF Left, Kept
<1>. QED  BY <1>1, BytesFewer, SizeAssumption DEF Within

LEMMA FewerWithin ==
  ASSUME TypeOK, Within,
         vals' \cup LivePlace' \in SUBSET (vals \cup LivePlace)
  PROVE  Within'
<1>1. vals \cup LivePlace \in SUBSET Obj
  BY PlacesType
<1>2. Bytes(vals' \cup LivePlace') <= Bytes(vals \cup LivePlace)
      /\ Bytes(vals' \cup LivePlace') \in Nat
      /\ Bytes(vals \cup LivePlace) \in Nat
  BY <1>1, BytesFewer
<1>. QED  BY <1>2, SizeAssumption DEF Within

LEMMA CollectedWithin ==
  ASSUME TypeOK, Within, NEW S \in Left, Collected(S), LivePlace' = LivePlace
  PROVE  Within'
  BY FewerWithin, LeftType DEF Collected

\* One object more, for which there was room.
LEMMA OneMoreFits ==
  ASSUME TypeOK, Accounted, Within, NEW S \in Left,
         NEW o \in Obj \ (S \cup LivePlace), Fits(SizeOf[o], S),
         vals' \cup LivePlace' = (S \cup LivePlace) \cup {o}
  PROVE  Within'
<1>. DEFINE A == S \cup LivePlace
<1>1. A \in SUBSET Obj /\ {o} \in SUBSET Obj /\ A \cap {o} = {}
  BY PlacesType DEF Left, Kept
<1>2. Bytes({o}) = SizeOf[o] /\ SizeOf[o] \in Int
  BY BytesOne, SizeAssumption
<1>3. Bytes(A) <= Budget
  BY LeftWithin
<1>4. Bytes(A) + SizeOf[o] <= Budget
  BY <1>2, <1>3, FitsSays
<1>5. Bytes(A \cup {o}) = Bytes(A) + SizeOf[o]
  BY <1>1, <1>2, BytesUnion
<1>. QED  BY <1>4, <1>5 DEF Within

LEMMA MadeWithin ==
  ASSUME TypeOK, Accounted, Within, NEW S \in Left, NEW x \in Val \ S,
         Fits(SizeOf[x], S), Made(x, S), LivePlace' = LivePlace
  PROVE  Within'
<1>1. x \in Obj \ (S \cup LivePlace)
  BY PlacesType, ObjAssumption DEF Obj
<1>2. vals' \cup LivePlace' = (S \cup LivePlace) \cup {x}
  BY DEF Made
<1>. QED  BY <1>1, <1>2, OneMoreFits

LEMMA TakenWithin ==
  ASSUME TypeOK, Accounted, Within, NEW S \in Left,
         NEW p \in Place \ LivePlace, Fits(SizeOf[p], S),
         Taken(SizeOf[p], S), LivePlace' = LivePlace \cup {p}
  PROVE  Within'
<1>1. p \in Obj \ (S \cup LivePlace)
  BY ObjAssumption, LeftType DEF Obj
<1>2. vals' \cup LivePlace' = (S \cup LivePlace) \cup {p}
  BY DEF Taken
<1>. QED  BY <1>1, <1>2, OneMoreFits

LEMMA EnterWithin ==
  ASSUME IInv, Accounted, Within, status \in Begun, NEW regs, NEW from,
         Enter(regs, from), EnterRest
  PROVE  Within'
<1>. USE DEF IInv
<1>1. CASE Untouched /\ LivePlace' = LivePlace
  BY <1>1, FewerWithin DEF Untouched
<1>2. ASSUME NEW S \in Left, NEW p \in Place \ LivePlace,
             Fits(SizeOf[p], S), Taken(SizeOf[p], S),
             LivePlace' = LivePlace \cup {p}
      PROVE  Within'
  BY <1>2, TakenWithin
<1>3. ASSUME NEW S \in Left, NEW n, NoMemory(n, S), LivePlace' = LivePlace
      PROVE  Within'
  BY <1>3, CollectedWithin DEF NoMemory
<1>. QED  BY <1>1, <1>2, <1>3, EnterCases

\* A value of an instruction: made where there is room, or not made.
LEMMA ValueWithin ==
  ASSUME TypeOK, Accounted, Within, NEW S0 \in BeforeValue, NEW n,
         LivePlace' = LivePlace,
         \/ \E x \in Val \ Take(n, S0) :
              /\ SizeOf[x] = n /\ Fits(n, Take(n, S0))
              /\ Made(x, Take(n, S0))
         \/ NoMemory(n, Take(n, S0))
  PROVE  Within'
<1>1. Take(n, S0) \in Left
  BY TakeLeaves
<1>. QED  BY <1>1, CollectedWithin, MadeWithin DEF NoMemory

LEMMA PopWithin ==
  ASSUME TypeOK, Within, status \in Begun, status' \in Begun, Pop,
         vals' = vals, block' = block
  PROVE  Within'
<1>1. 1..depth' \subseteq 1..depth
  BY DepthAssumption DEF Pop, TypeOK
<1>2. LivePlace' \subseteq LivePlace
  BY <1>1 DEF LivePlace, Live, Begun
<1>. QED  BY <1>2, FewerWithin

LEMMA BeginWithin ==
  ASSUME IInv, Accounted, Within, Begin, immortal' = {}
  PROVE  Within'
<1>. USE DEF IInv
<1>0. /\ depth = 0 /\ depth' = depth /\ vals = {}
      /\ block' = block /\ Live' = Live /\ Live = {} /\ status = "start"
  BY DEF Begin, NothingBeforeRun, Live
<1>1. CASE status' = "norun"
  <2>1. LivePlace' = LivePlace /\ vals' = vals
    BY <1>0, <1>1 DEF LivePlace, Begin
  <2>. QED  BY <2>1, FewerWithin
<1>2. CASE status' = "entry"
  <2>1. Fits(SizeOf[Glob], vals) /\ Taken(SizeOf[Glob], vals)
    BY <1>2 DEF Begin
  <2>2. LivePlace = {} /\ LivePlace' = LivePlace \cup {Glob}
    BY <1>0, <1>2 DEF LivePlace
  <2>3. vals \in Left /\ Glob \in Place
    BY DEF Left, Place
  <2>. QED  BY <2>1, <2>2, <2>3, TakenWithin
<1>. QED  BY <1>1, <1>2 DEF Begin

LEMMA WithinStep ==
  ASSUME IInv, Accounted, Within, [Next]_vars, immortal' = {}
  PROVE  Within'
<1>. USE DEF IInv
<1>1. CASE Begin
  BY <1>1, BeginWithin
<1>2. CASE CallEntry
  BY <1>2, EnterWithin DEF CallEntry, Begun
<1>3. CASE ParIter
  BY <1>3, EnterWithin DEF ParIter, InParFor, Begun
<1>4. ASSUME NEW r \in Reg, NEW a \in Reg, Call(r, a) PROVE Within'
  BY <1>4, EnterWithin DEF Call, Running, Begun
<1>5. ASSUME NEW r \in Reg, NEW a \in Reg, Return(r, a) PROVE Within'
  BY <1>5, PopWithin DEF Return, Running, Begun
<1>6. CASE Leave
  <2>1. status \in Begun /\ status' \in Begun
    BY <1>6 DEF Leave, NothingBeforeRun, TypeOK, Status, Begun
  <2>. QED  BY <1>6, <2>1, PopWithin DEF Leave
<1>7. ASSUME Untouched, depth' = depth, block' = block,
             status \in Begun, status' \in Begun
      PROVE  Within'
  BY <1>7, PlacesKept, FewerWithin DEF Untouched
<1>8. ASSUME NEW r \in Reg, NEW a \in Reg, Move(r, a) PROVE Within'
  BY <1>7, <1>8 DEF Move, Running, ValueRest, Begun
<1>9. ASSUME NEW r \in Reg, RtMake(r) PROVE Within'
  BY <1>9, ValueCases, ValueWithin
<1>10. CASE TrapSaid
  BY <1>10, ValueCases, ValueWithin
<1>11. ASSUME NEW c \in Const, NEW r \in Reg, Sconst(c, r) PROVE Within'
  <2>1. Untouched
    BY <1>11 DEF Sconst
  <2>. QED  BY <1>7, <1>11, <2>1 DEF Sconst, Running, ValueRest, Begun
<1>12. ASSUME NEW r \in Reg, NEW p \in Place, Load(r, p) PROVE Within'
  BY <1>7, <1>12 DEF Load, Running, MemRest, Begun
<1>13. ASSUME NEW p \in Place, NEW w, NEW ok, Write(p, w, ok)
       PROVE  Within'
  BY <1>7, <1>13 DEF Write, Running, MemRest, Begun
<1>14. ASSUME NEW b \in Block, MemAlloc(b) PROVE Within'
  <2>1. CASE vals' = vals /\ LivePlace' = LivePlace
    BY <2>1, FewerWithin
  <2>. QED  BY <1>14, <2>1, MemAllocCases, TakenWithin, CollectedWithin
            DEF NoMemory
<1>15. ASSUME NEW b \in Block, MemFree(b) PROVE Within'
  <2>1. /\ depth' = depth /\ vals' = vals /\ status = "ok"
        /\ status' \in {"ok", "exc"}
        /\ block' = block \/ block' = [block EXCEPT ![b] = "freed"]
    BY <1>15 DEF MemFree, Running
  <2>2. LivePlace' \subseteq LivePlace
    BY <2>1 DEF LivePlace, Live, TypeOK
  <2>. QED  BY <2>1, <2>2, FewerWithin
<1>16. CASE Trap \/ ParFor \/ ParEnd
  BY <1>7, <1>16 DEF Trap, ParFor, ParEnd, Running, InParFor, ExcRest, Begun
<1>17. ASSUME NEW r \in Reg, Raise(r) \/ Caught(r) PROVE Within'
  BY <1>7, <1>17 DEF Raise, Caught, Running, ExcRest, Begun
<1>18. CASE UNCHANGED vars
  <2>1. LivePlace' = LivePlace /\ vals' = vals
    BY <1>18 DEF vars, LivePlace, Live
  <2>. QED  BY <2>1, FewerWithin
<1>. QED
  BY <1>1, <1>2, <1>3, <1>4, <1>5, <1>6, <1>8, <1>9, <1>10, <1>11, <1>12,
     <1>13, <1>14, <1>15, <1>16, <1>17, <1>18
     DEF Next, Terminated, Store, Memcpy, Memset

\* No step takes a value from the immortal ones.
LEMMA ImmortalStep ==
  ASSUME IInv, [Next]_vars
  PROVE  immortal \subseteq immortal'
<1>1. Begin => immortal = {}
  BY DEF IInv, NothingBeforeRun, TypeOK, Begin
<1>. QED
  BY <1>1 DEF Next, vars, CallEntry, ParIter, Call, Return, Leave, Move,
     RtMake, TrapSaid, Sconst, Load, Store, Memcpy, Memset, Write, MemAlloc,
     MemFree, Trap, Raise, Caught, ParFor, ParEnd, EnterRest, ValueRest,
     MemRest, ExcRest, Terminated

LEMMA AllInv == Spec => [](IInv /\ Accounted)
<1>1. Spec => []IInv
  <2>1. Init => IInv
    BY InitInv
  <2>2. IInv /\ [Next]_vars => IInv'
    BY TypeStep, DanglingStep, ConstsStep, BeforeRunStep, ParsStep DEF IInv
  <2>. QED  BY <2>1, <2>2, PTL DEF Spec
<1>. QED  BY <1>1, CountersRight, PTL

\* take and take_val give nothing past the budget: as long as no value was
\* made for the module, whatever its order, what is alive fits.
THEOREM BudgetIsKept == Spec => []BudgetKept
<1>1. Init => BudgetKept
  <2>1. ASSUME Init PROVE vals \cup LivePlace = {}
    BY <2>1 DEF Init, LivePlace, Live
  <2>2. Init => Bytes(vals \cup LivePlace) = 0
    BY <2>1, BytesEmpty
  <2>3. 0 <= Budget
    BY SizeAssumption
  <2>. QED  BY <2>2, <2>3 DEF BudgetKept
<1>2. IInv /\ Accounted /\ BudgetKept /\ [Next]_vars => BudgetKept'
  <2>. SUFFICES ASSUME IInv, Accounted, BudgetKept, [Next]_vars,
                       immortal' = {}
                PROVE  Within'
    BY DEF BudgetKept, Within
  <2>1. immortal = {}
    BY ImmortalStep
  <2>2. Within
    BY <2>1 DEF BudgetKept, Within
  <2>. QED  BY <2>2, WithinStep
<1>. QED  BY <1>1, <1>2, AllInv, PTL DEF Spec

-----------------------------------------------------------------------------
(* NOMEM. *)

\* What does not fit in what a collection leaves passes the budget.
LEMMA NoRoom ==
  ASSUME TypeOK, Accounted, NEW S0 \in Left, NEW n \in 1..MaxSize,
         ~Fits(n, Take(n, S0))
  PROVE  /\ Take(n, S0) = Kept
         /\ Bytes(Kept \cup LivePlace) + n > Budget
<1>1. Take(n, S0) = Kept
  BY DEF Take
<1>2. Kept \in Left /\ n \in Int /\ n > 0
  BY SizeAssumption DEF Left
<1>3. Bytes(Kept \cup LivePlace) \in Nat
  <2>1. Kept \cup LivePlace \in SUBSET Obj
    BY PlacesType DEF Kept
  <2>. QED  BY <2>1, BytesFinite
<1>4. Budget \in Int
  BY SizeAssumption
<1>5. CASE Bytes(Kept \cup LivePlace) <= Budget
  <2>1. ~(Bytes(Kept \cup LivePlace) + n <= Budget)
    BY <1>1, <1>2, <1>5, FitsSays
  <2>. QED  BY <1>1, <1>2, <1>3, <1>4, <2>1
<1>6. CASE Bytes(Kept \cup LivePlace) > Budget
  BY <1>1, <1>2, <1>3, <1>4, <1>6
<1>. QED  BY <1>3, <1>4, <1>5, <1>6

Full ==
  refused' # 0
    => vals' = Kept /\ Bytes(vals' \cup LivePlace) + refused' > Budget

LEMMA NoMemoryFull ==
  ASSUME TypeOK, Accounted, NEW S0 \in Left, NEW n \in 1..MaxSize,
         NoMemory(n, Take(n, S0))
  PROVE  Full
<1>1. CASE Fits(n, Take(n, S0))
  BY <1>1 DEF NoMemory, Full
<1>2. CASE ~Fits(n, Take(n, S0))
  <2>1. vals' = Kept /\ refused' = n
    BY <1>2, NoRoom DEF NoMemory, Collected
  <2>. QED  BY <1>2, <2>1, NoRoom DEF Full
<1>. QED  BY <1>1, <1>2

LEMMA EnterFull ==
  ASSUME IInv, Accounted, status \in Begun, NEW regs, NEW from,
         Enter(regs, from), EnterRest, status' = "nomem"
  PROVE  Full
<1>1. PICK p \in Place : NoMemory(SizeOf[p], Take(SizeOf[p], vals))
  BY EnterCases
<1>2. SizeOf[p] \in 1..MaxSize /\ vals \in Left
  BY SizeAssumption DEF Obj, Left
<1>. QED  BY <1>1, <1>2, NoMemoryFull DEF IInv

LEMMA FullStep ==
  ASSUME IInv, Accounted, Next, status # "nomem", status' = "nomem"
  PROVE  Full
<1>. USE DEF IInv
<1>1. CASE CallEntry
  BY <1>1, EnterFull DEF CallEntry, Begun
<1>2. CASE ParIter
  BY <1>2, EnterFull DEF ParIter, InParFor, Begun
<1>3. ASSUME NEW r \in Reg, NEW a \in Reg, Call(r, a) PROVE Full
  BY <1>3, EnterFull DEF Call, Running, Begun
<1>4. CASE (\E r \in Reg : RtMake(r)) \/ TrapSaid
  <2>1. PICK S0 \in BeforeValue, n \in Sizes : NoMemory(n, Take(n, S0))
    BY <1>4, ValueCases
  <2>2. S0 \in Left /\ n \in 1..MaxSize
    BY SizeAssumption DEF BeforeValue, Left, Sizes, Obj
  <2>. QED  BY <2>1, <2>2, NoMemoryFull
<1>5. ASSUME NEW b \in Block, MemAlloc(b) PROVE Full
  <2>1. NoMemory(SizeOf[b], Take(SizeOf[b], vals)) \/ refused' = 0
    BY <1>5, MemAllocCases
  <2>2. SizeOf[b] \in 1..MaxSize /\ vals \in Left
    BY SizeAssumption DEF Obj, Left, Place
  <2>3. refused' = 0 => Full
    BY DEF Full
  <2>. QED  BY <2>1, <2>2, <2>3, NoMemoryFull
<1>. QED
  BY <1>1, <1>2, <1>3, <1>4, <1>5
     DEF Next, Begin, Return, Move, Raise, Caught, Sconst, Load, Store,
         Memcpy, Memset, Write, MemFree, Trap, Leave, ParFor, ParEnd,
         Terminated, vars, Running, InParFor

\* take refuses only when what is held leaves no room: whichever of
\* str_alloc, big_box, call and mem_alloc asked, no garbage is left, and the
\* bytes asked for with those alive pass the budget.  A negative size of
\* mem_alloc and a host without memory are NOMEM too, and nothing is said of
\* them: refused is 0.
THEOREM NomemOnlyWhenFull == Spec => NomemWhenFull
<1>1. IInv /\ Accounted /\ [Next]_vars
        => [status # "nomem" /\ status' = "nomem" /\ refused' # 0
            => /\ vals' = Kept
               /\ Bytes(vals' \cup LivePlace) + refused' > Budget]_vars
  BY FullStep DEF Full
<1>. QED  BY <1>1, AllInv, PTL DEF Spec, NomemWhenFull
=============================================================================
