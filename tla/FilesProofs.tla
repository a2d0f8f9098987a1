----------------------------- MODULE FilesProofs -----------------------------
(***************************************************************************)
(* What Files keeps for every size of the buffer and of the table, every   *)
(* set of bytes and every bound: the types, that no byte written is lost   *)
(* and none read is skipped, when a buffer is written, and that the end of *)
(* a file and a handle closed are final.                                   *)
(***************************************************************************)
EXTENDS Files, SequenceTheorems, TLAPS

-----------------------------------------------------------------------------
(* The inductive invariant                                                 *)

Results == {"ok", "handle", "io", "notfound", "denied", "cannot", "toomany"}
PlaceRec == [handle : Nat, mode : Mode, end : BOOLEAN,
             buf : Seq(Byte), at : Nat]
EndRec == [all : Seq(Byte), src : Seq(Byte), got : Seq(Byte),
           ended : BOOLEAN, acc : Seq(Byte), out : Seq(Byte), mark : Nat]
CallRec ==
  [op : {"none"}, res : Results] \cup
  [op : {"write"}, at : Place, data : Seq(Byte)] \cup
  [op : {"read"}, at : Place, n : Nat, d : Seq(Byte)] \cup
  [op : {"line"}, at : Place, d : Seq(Byte)]

\* What the call c has read for the place i and not yet given.
Partial(c, i) == IF c.op \in {"read", "line"} /\ c.at = i THEN c.d ELSE <<>>

\* A place of the table is free, or has a handle given and a buffer that
\* is not full for long.
PlaceOK(f, n) ==
  /\ f \in PlaceRec /\ f.handle < n
  /\ f.at <= Len(f.buf) /\ Len(f.buf) <= FilesBuf
  /\ f.mode # 0 => ~f.end /\ f.at = 0 /\ Len(f.buf) < FilesBuf
  /\ f.handle = 0 => f = Free

\* A call writes to an open file written, and reads from one read, no more
\* than it asks.
CallOK(c, fs) ==
  /\ c \in CallRec
  /\ c.op # "none" => /\ fs[c.at].handle # 0
                      /\ c.op = "write" <=> fs[c.at].mode # 0
  /\ c.op = "read" => Len(c.d) <= c.n

\* What the place f, its other end x and the bytes d of the call running
\* say of each other: of a file written, what it was given is what went out
\* and what is in the buffer; of a file read, what there is to read is what
\* was given, what the call has, what is in the buffer and what is to come,
\* and once its end was told none of it is left to give.
Agree(f, x, d) ==
  IF f.mode # 0
  THEN /\ x.out \o f.buf = x.acc
       /\ Len(f.buf) = (Len(x.acc) - x.mark) % FilesBuf
  ELSE /\ x.out = x.acc
       /\ x.got \o d \o Unread(f) \o x.src = x.all
       /\ x.ended => AtEnd(f) /\ d = <<>>

\* The table fs, the other ends ss of the handles below n and the call c.
Table(fs, n, c, ss) ==
  /\ n \in Nat \ {0}
  /\ fs \in [Place -> PlaceRec] /\ \A i \in Place : PlaceOK(fs[i], n)
  /\ \A i \in Place, j \in Place :
       fs[i].handle = fs[j].handle /\ fs[i].handle # 0 => i = j
  /\ ss \in [1..(n - 1) -> EndRec]
  /\ \A h \in 1..(n - 1) : ss[h].mark <= Len(ss[h].acc)
  /\ CallOK(c, fs)
  /\ \A i \in Place : fs[i].handle # 0 =>
       Agree(fs[i], ss[fs[i].handle], Partial(c, i))
  /\ \A h \in 1..(n - 1) :
       (\A i \in Place : fs[i].handle # h) => ss[h].out = ss[h].acc

IInv ==
  /\ Table(files, next, call, sys)
  /\ next <= MaxOpens + 1 /\ calls \in 0..MaxCalls
  /\ status \in {"run", "ok", "halt", "error", "io"}

-----------------------------------------------------------------------------
(* Sequences of bytes                                                      *)

Bytes == Seq(Byte)

LEMMA Joined ==
  ASSUME NEW p \in Bytes, NEW q \in Bytes
  PROVE  p \o q \in Bytes /\ Len(p \o q) = Len(p) + Len(q)
  BY ConcatProperties DEF Bytes

LEMMA JoinedEmpty ==
  /\ <<>> \in Bytes /\ Len(<<>>) = 0
  /\ \A q \in Bytes : q \o <<>> = q /\ <<>> \o q = q
  BY EmptySeq, ConcatEmptySeq DEF Bytes

LEMMA JoinedTwice ==
  ASSUME NEW p \in Bytes, NEW q \in Bytes, NEW r \in Bytes
  PROVE  (p \o q) \o r = p \o (q \o r)
  BY ConcatAssociative DEF Bytes

LEMMA LenNat ==
  ASSUME NEW q \in Bytes
  PROVE  Len(q) \in Nat /\ (Len(q) = 0 <=> q = <<>>)
  BY EmptySeq, LenProperties DEF Bytes

\* A sequence cut in two.
LEMMA Cut ==
  ASSUME NEW q \in Bytes, NEW k \in 0..Len(q)
  PROVE  /\ First(q, k) \in Bytes /\ Len(First(q, k)) = k
         /\ Rest(q, k) \in Bytes /\ Len(Rest(q, k)) = Len(q) - k
         /\ First(q, k) \o Rest(q, k) = q
<1>1. /\ Len(q) \in Nat /\ k \in Int
      /\ \A j \in 1..k : q[j] \in Byte
      /\ \A j \in (k + 1)..Len(q) : q[j] \in Byte
  BY LenProperties DEF Bytes
<1>2. /\ First(q, k) \in Seq(Byte)
      /\ Len(First(q, k)) = IF 1 <= k THEN k - 1 + 1 ELSE 0
  BY <1>1, SubSeqProperties DEF First
<1>3. /\ Rest(q, k) \in Seq(Byte)
      /\ Len(Rest(q, k)) = IF k + 1 <= Len(q) THEN Len(q) - (k + 1) + 1 ELSE 0
  BY <1>1, SubSeqProperties DEF Rest
<1>4. First(q, k) \o Rest(q, k) = SubSeq(q, 1, Len(q))
  <2>1. /\ 1 \in 1..(Len(q) + 1) /\ k \in (1 - 1)..Len(q)
        /\ Len(q) \in k..Len(q)
    BY <1>1
  <2>. QED  BY <2>1, ConcatAdjacentSubSeq DEF First, Rest, Bytes
<1>. QED  BY <1>1, <1>2, <1>3, <1>4, SubSeqFull DEF Bytes

LEMMA CutNone ==
  ASSUME NEW q \in Bytes
  PROVE  Rest(q, 0) = q /\ Rest(q, Len(q)) = <<>>
<1>1. Len(q) \in Nat
  BY LenNat
<1>2. Rest(q, Len(q)) = <<>>
  BY <1>1, SubSeqEmpty DEF Rest
<1>3. Rest(q, 0) = q
  BY SubSeqFull DEF Rest, Bytes
<1>. QED  BY <1>2, <1>3

LEMMA RestAt ==
  ASSUME NEW q \in Bytes, NEW m \in 0..Len(q), NEW j \in 1..(Len(q) - m)
  PROVE  Rest(q, m)[j] = q[m + j]
<1>1. /\ m + 1 \in Int /\ Len(q) \in Int
      /\ \A l \in (m + 1)..Len(q) : q[l] \in Byte
  BY LenProperties DEF Bytes
<1>2. \A l \in 1..(Len(q) - (m + 1) + 1) :
        SubSeq(q, m + 1, Len(q))[l] = q[(m + 1) + l - 1]
  BY <1>1, SubSeqProperties
<1>3. j \in 1..(Len(q) - (m + 1) + 1) /\ (m + 1) + j - 1 = m + j
  BY <1>1
<1>. QED  BY <1>2, <1>3 DEF Rest

\* What is left after two cuts.
LEMMA CutMore ==
  ASSUME NEW q \in Bytes, NEW a \in 0..Len(q), NEW k \in 0..(Len(q) - a)
  PROVE  /\ Rest(q, a) \in Bytes /\ Len(Rest(q, a)) = Len(q) - a
         /\ First(Rest(q, a), k) \in Bytes /\ Rest(q, a + k) \in Bytes
         /\ First(Rest(q, a), k) \o Rest(q, a + k) = Rest(q, a)
<1>. DEFINE r == Rest(q, a)
            s == Rest(r, k)
            t == Rest(q, a + k)
<1>1. Len(q) \in Nat /\ a \in Int /\ k \in Int /\ a + k \in 0..Len(q)
  BY LenNat
<1>2. /\ r \in Bytes /\ Len(r) = Len(q) - a
      /\ t \in Bytes /\ Len(t) = Len(q) - (a + k)
  BY <1>1, Cut
<1>. HIDE DEF r, t
<1>3. /\ First(r, k) \in Bytes /\ First(r, k) \o s = r
      /\ s \in Bytes /\ Len(s) = Len(r) - k
  BY <1>1, <1>2, Cut
<1>4. ASSUME NEW j \in 1..Len(s)
      PROVE  s[j] = t[j]
  <2>1. /\ j \in 1..(Len(r) - k) /\ k \in 0..Len(r)
        /\ k + j \in 1..(Len(q) - a) /\ j \in 1..(Len(q) - (a + k))
        /\ a + (k + j) = (a + k) + j
    BY <1>1, <1>2, <1>3
  <2>2. s[j] = r[k + j]
    BY <1>2, <2>1, RestAt
  <2>3. r[k + j] = q[a + (k + j)]
    BY <2>1, RestAt DEF r
  <2>4. t[j] = q[(a + k) + j]
    BY <1>1, <2>1, RestAt DEF t
  <2>. QED  BY <2>1, <2>2, <2>3, <2>4
<1>. HIDE DEF s
<1>5. s = t
  <2>1. Len(s) = Len(t)
    BY <1>1, <1>2, <1>3
  <2>. QED  BY <1>2, <1>3, <1>4, <2>1, SeqEqual DEF Bytes
<1>. QED  BY <1>2, <1>3, <1>5 DEF r, t

-----------------------------------------------------------------------------
(* The remainder that tells how much a buffer has                          *)

LEMMA RemainderOf ==
  ASSUME NEW w \in Nat \ {0}, NEW q1 \in Int, NEW q2 \in Int,
         NEW r1 \in 0..(w - 1), NEW r2 \in 0..(w - 1),
         q1 * w + r1 = q2 * w + r2
  PROVE  r1 = r2
<1>1. (q1 - q2) * w = r2 - r1
  OBVIOUS
<1>2. CASE q1 = q2
  BY <1>2
<1>3. CASE q1 > q2
  <2>1. q1 - q2 >= 1
    BY <1>3
  <2>2. (q1 - q2) * w >= w
    BY <2>1
  <2>. QED  BY <1>1, <2>2
<1>4. CASE q1 < q2
  <2>1. q2 - q1 >= 1
    BY <1>4
  <2>2. (q2 - q1) * w >= w
    BY <2>1
  <2>3. (q2 - q1) * w = r1 - r2
    BY <1>1
  <2>. QED  BY <2>2, <2>3
<1>. QED  BY <1>2, <1>3, <1>4

\* It goes on with the buffer, and starts over where the buffer is full.
LEMMA RemainderMore ==
  ASSUME NEW w \in Nat \ {0}, NEW a \in Int, NEW k \in Nat,
         (a % w) + k <= w
  PROVE  (a + k) % w = IF (a % w) + k = w THEN 0 ELSE (a % w) + k
<1>. DEFINE b == a + k
            q1 == a \div w
            r1 == a % w
            q2 == b \div w
            r2 == b % w
<1>1. q1 \in Int /\ r1 \in 0..(w - 1) /\ a = q1 * w + r1
  OBVIOUS
<1>2. b \in Int
  OBVIOUS
<1>. HIDE DEF b
<1>3. q2 \in Int /\ r2 \in 0..(w - 1) /\ b = q2 * w + r2
  BY <1>2
<1>. HIDE DEF q1, r1, q2, r2
<1>4. b = q1 * w + (r1 + k)
  BY <1>1 DEF b
<1>5. CASE r1 + k = w
  <2>1. b = (q1 + 1) * w + 0
    BY <1>1, <1>4, <1>5
  <2>2. q1 + 1 \in Int /\ 0 \in 0..(w - 1)
    BY <1>1
  <2>3. r2 = 0
    BY <1>3, <2>1, <2>2, RemainderOf
  <2>. QED  BY <1>5, <2>3 DEF b, r1, r2
<1>6. CASE r1 + k < w
  <2>1. r1 + k \in 0..(w - 1)
    BY <1>1, <1>6
  <2>2. r2 = r1 + k
    BY <1>1, <1>3, <1>4, <2>1, RemainderOf
  <2>. QED  BY <1>1, <1>6, <2>2 DEF b, r1, r2
<1>7. r1 + k <= w
  BY DEF r1
<1>. QED  BY <1>1, <1>5, <1>6, <1>7

LEMMA RemainderNone ==
  ASSUME NEW w \in Nat \ {0}, NEW a \in Int
  PROVE  (a - a) % w = 0
<1>1. a - a = 0
  OBVIOUS
<1>2. 0 % w = 0
  OBVIOUS
<1>. QED  BY <1>1, <1>2

-----------------------------------------------------------------------------
(* The other end of a handle                                               *)

\* What is known once out went to the system.
LEMMA SentFields ==
  ASSUME NEW x \in EndRec, NEW out \in Bytes, NEW well \in BOOLEAN
  PROVE  /\ Sent(x, out, well) \in EndRec
         /\ Sent(x, out, well).out = x.out \o out
         /\ Sent(x, out, well).acc = IF well THEN x.acc ELSE x.out \o out
         /\ Sent(x, out, well).all = x.all /\ Sent(x, out, well).src = x.src
         /\ Sent(x, out, well).got = x.got
         /\ Sent(x, out, well).ended = x.ended
         /\ Sent(x, out, well).mark = x.mark
<1>1. x.out \o out \in Bytes /\ x.acc \in Bytes
  <2>1. x.out \in Bytes /\ x.acc \in Bytes
    BY DEF EndRec, Bytes
  <2>. QED  BY <2>1, Joined
<1>2. \A o \in Bytes, a \in Bytes :
        LET y == [x EXCEPT !.out = o, !.acc = a]
        IN /\ y \in EndRec /\ y.out = o /\ y.acc = a
           /\ y.all = x.all /\ y.src = x.src /\ y.got = x.got
           /\ y.ended = x.ended /\ y.mark = x.mark
  BY DEF EndRec, Bytes
<1>. DEFINE o == x.out \o out
            a == IF well THEN x.acc ELSE x.out \o out
            y == [x EXCEPT !.out = o, !.acc = a]
<1>3. o \in Bytes /\ a \in Bytes
  BY <1>1
<1>4. Sent(x, out, well) = y
  BY DEF Sent
<1>. HIDE DEF o, a
<1>5. /\ y \in EndRec /\ y.out = o /\ y.acc = a
      /\ y.all = x.all /\ y.src = x.src /\ y.got = x.got
      /\ y.ended = x.ended /\ y.mark = x.mark
  BY <1>2, <1>3
<1>. HIDE DEF y
<1>. QED  BY <1>4, <1>5 DEF o, a

LEMMA FlushedFields ==
  ASSUME NEW x \in EndRec, NEW out \in Bytes, NEW well \in BOOLEAN
  PROVE  /\ Flushed(x, out, well) \in EndRec
         /\ Flushed(x, out, well).out = x.out \o out
         /\ Flushed(x, out, well).acc = IF well THEN x.acc ELSE x.out \o out
         /\ Flushed(x, out, well).all = x.all
         /\ Flushed(x, out, well).src = x.src
         /\ Flushed(x, out, well).got = x.got
         /\ Flushed(x, out, well).ended = x.ended
         /\ Flushed(x, out, well).mark = Len(Flushed(x, out, well).acc)
<1>. DEFINE y == Sent(x, out, well)
<1>1. /\ y \in EndRec /\ y.out = x.out \o out
      /\ y.acc = IF well THEN x.acc ELSE x.out \o out
      /\ y.all = x.all /\ y.src = x.src /\ y.got = x.got
      /\ y.ended = x.ended
  BY SentFields
<1>. HIDE DEF y
<1>2. y.acc \in Bytes /\ Len(y.acc) \in Nat
  <2>1. y.acc \in Bytes
    BY <1>1 DEF EndRec, Bytes
  <2>. QED  BY <2>1, LenNat
<1>3. \A m \in Nat :
        LET z == [y EXCEPT !.mark = m]
        IN /\ z \in EndRec /\ z.mark = m /\ z.out = y.out /\ z.acc = y.acc
           /\ z.all = y.all /\ z.src = y.src /\ z.got = y.got
           /\ z.ended = y.ended
  BY <1>1 DEF EndRec
<1>. DEFINE z == [y EXCEPT !.mark = Len(y.acc)]
<1>4. /\ z \in EndRec /\ z.mark = Len(y.acc) /\ z.out = y.out /\ z.acc = y.acc
      /\ z.all = y.all /\ z.src = y.src /\ z.got = y.got
      /\ z.ended = y.ended
  BY <1>2, <1>3
<1>5. Flushed(x, out, well) = z
  BY DEF Flushed, y
<1>. HIDE DEF z
<1>. QED  BY <1>1, <1>4, <1>5

\* What may come of writing a buffer.
LEMMA PutOf ==
  ASSUME NEW q \in Bytes, NEW d \in Put(q)
  PROVE  /\ d.out \in Bytes /\ d.ok \in BOOLEAN
         /\ d.ok => d.out = q
<1>1. CASE d \in {[out |-> q, ok |-> TRUE]}
  <2>1. d = [out |-> q, ok |-> TRUE]
    BY <1>1
  <2>2. d.out = q /\ d.ok = TRUE
    BY <2>1
  <2>. QED  BY <2>2
<1>2. CASE d \in {[out |-> First(q, n), ok |-> FALSE] : n \in 0..(Len(q) - 1)}
  <2>1. PICK n \in 0..(Len(q) - 1) : d = [out |-> First(q, n), ok |-> FALSE]
    BY <1>2
  <2>2. n \in 0..Len(q)
    BY LenNat
  <2>3. First(q, n) \in Bytes
    BY <2>2, Cut
  <2>. QED  BY <2>1, <2>3
<1>. QED  BY <1>1, <1>2 DEF Put

LEMMA DrainOf ==
  ASSUME NEW f \in PlaceRec, NEW d \in Drain(f)
  PROVE  /\ d.out \in Bytes /\ d.ok \in BOOLEAN
         /\ f.mode = 0 => d.out = <<>>
         /\ f.mode # 0 /\ d.ok => d.out = f.buf
<1>1. f.buf \in Bytes
  BY DEF PlaceRec, Bytes
<1>2. CASE f.mode = 0
  <2>1. d = [out |-> <<>>, ok |-> TRUE]
    BY <1>2 DEF Drain
  <2>2. d.out = <<>> /\ d.ok = TRUE
    BY <2>1
  <2>. QED  BY <1>2, <2>2, JoinedEmpty
<1>3. CASE f.mode # 0
  <2>1. d \in Put(f.buf)
    BY <1>3 DEF Drain
  <2>. QED  BY <1>1, <1>3, <2>1, PutOf
<1>. QED  BY <1>2, <1>3

\* A buffer written leaves nothing to write: all of it went out, or an
\* error tells of what did not.
LEMMA DrainSent ==
  ASSUME NEW f \in PlaceRec, NEW x \in EndRec, NEW p, Agree(f, x, p),
         NEW d \in Drain(f), NEW well \in BOOLEAN, well => d.ok
  PROVE  /\ Flushed(x, d.out, well) \in EndRec
         /\ Flushed(x, d.out, well).out = Flushed(x, d.out, well).acc
         /\ Flushed(x, d.out, well).mark = Len(Flushed(x, d.out, well).acc)
         /\ Flushed(x, d.out, well).got = x.got
         /\ Flushed(x, d.out, well).ended = x.ended
         /\ Flushed(x, d.out, well).all = x.all
         /\ Flushed(x, d.out, well).src = x.src
<1>1. /\ d.out \in Bytes
      /\ f.mode = 0 => d.out = <<>>
      /\ f.mode # 0 /\ well => d.out = f.buf
  BY DrainOf
<1>2. x.out \in Bytes
  BY DEF EndRec, Bytes
<1>3. well => x.out \o d.out = x.acc
  <2>1. CASE f.mode = 0
    BY <1>1, <1>2, <2>1, JoinedEmpty DEF Agree
  <2>2. CASE f.mode # 0
    BY <1>1, <2>2 DEF Agree
  <2>. QED  BY <2>1, <2>2
<1>. DEFINE y == Flushed(x, d.out, well)
<1>4. /\ y \in EndRec /\ y.out = x.out \o d.out
      /\ y.acc = IF well THEN x.acc ELSE x.out \o d.out
      /\ y.all = x.all /\ y.src = x.src /\ y.got = x.got
      /\ y.ended = x.ended /\ y.mark = Len(y.acc)
  BY <1>1, FlushedFields
<1>. HIDE DEF y
<1>5. y.out = y.acc
  BY <1>3, <1>4
<1>. QED  BY <1>4, <1>5 DEF y

LEMMA ShutOf ==
  ASSUME NEW f, NEW d \in Shut(f)
  PROVE  \E e \in Drain(f), c \in BOOLEAN : d = [out |-> e.out, ok |-> e.ok /\ c]
  BY DEF Shut

-----------------------------------------------------------------------------
(* What a step changes                                                     *)

\* The end of a file is met where nothing is left, an end the program was
\* told of is final, and a handle closed names no file again.
Steady ==
  /\ \A i \in Place :
       files'[i].end /\ ~files[i].end => sys[files[i].handle].src = <<>>
  /\ \A h \in 1..(next - 1) : sys[h].ended => sys'[h].got = sys[h].got
  /\ \A h \in 1..(next - 1) :
       (\A i \in Place : files[i].handle # h) =>
         \A i \in Place : files'[i].handle # h

\* What a step may make of the place f with the other end x.
Moves(f, x, g, y) ==
  /\ y \in EndRec /\ y.mark <= Len(y.acc)
  /\ g.handle \in {0, f.handle}
  /\ g.handle = 0 => y.out = y.acc
  /\ g.end /\ ~f.end => x.src = <<>>
  /\ x.ended => y.got = x.got

LEMMA AtPlace ==
  ASSUME IInv, NEW i \in Place, files[i].handle # 0
  PROVE  /\ files[i] \in PlaceRec /\ PlaceOK(files[i], next)
         /\ files[i].handle \in 1..(next - 1)
         /\ sys[files[i].handle] \in EndRec
         /\ sys[files[i].handle].mark <= Len(sys[files[i].handle].acc)
         /\ Agree(files[i], sys[files[i].handle], Partial(call, i))
         /\ \A j \in Place \ {i} : files[j].handle # files[i].handle
<1>1. files[i] \in PlaceRec /\ PlaceOK(files[i], next) /\ next \in Nat
  BY DEF IInv, Table
<1>2. files[i].handle \in 1..(next - 1)
  <2>1. files[i].handle \in Nat /\ files[i].handle < next
    BY <1>1 DEF PlaceOK, PlaceRec
  <2>. QED  BY <1>1, <2>1
<1>. QED  BY <1>1, <1>2 DEF IInv, Table

\* The place i and its other end become g and y.
Turns(i, g, y) ==
  /\ PlaceOK(g, next) /\ Moves(files[i], sys[files[i].handle], g, y)
  /\ files' = [files EXCEPT ![i] = g]
  /\ sys' = [sys EXCEPT ![files[i].handle] = y]
  /\ next' = next /\ CallOK(call', files')
  /\ \A j \in Place \ {i} : Partial(call', j) = Partial(call, j)
  /\ g.handle # 0 => Agree(g, y, Partial(call', i))

LEMMA OneChanges ==
  ASSUME IInv, NEW i \in Place, files[i].handle # 0,
         NEW g, NEW y, Turns(i, g, y)
  PROVE  Table(files', next', call', sys') /\ Steady
<1>. DEFINE h == files[i].handle
<1>0. /\ PlaceOK(g, next) /\ Moves(files[i], sys[files[i].handle], g, y)
      /\ files' = [files EXCEPT ![i] = g]
      /\ sys' = [sys EXCEPT ![files[i].handle] = y]
      /\ next' = next /\ CallOK(call', files')
      /\ \A j \in Place \ {i} : Partial(call', j) = Partial(call, j)
      /\ g.handle # 0 => Agree(g, y, Partial(call', i))
  BY DEF Turns
<1>1. /\ h \in 1..(next - 1) /\ next \in Nat \ {0}
      /\ \A j \in Place \ {i} : files[j].handle # h
  BY AtPlace DEF IInv, Table
<1>2. /\ files \in [Place -> PlaceRec] /\ sys \in [1..(next - 1) -> EndRec]
      /\ g \in PlaceRec
  BY <1>0 DEF IInv, Table, PlaceOK
<1>3. /\ y \in EndRec /\ y.mark <= Len(y.acc)
      /\ g.handle \in {0, h}
      /\ g.handle = 0 => y.out = y.acc
      /\ g.end /\ ~files[i].end => sys[h].src = <<>>
      /\ sys[h].ended => y.got = sys[h].got
  BY <1>0 DEF Moves
<1>4. /\ files' \in [Place -> PlaceRec] /\ files'[i] = g
      /\ \A j \in Place \ {i} : files'[j] = files[j]
  BY <1>0, <1>2
<1>. HIDE DEF h
<1>5. /\ sys' \in [1..(next - 1) -> EndRec] /\ sys'[h] = y
      /\ \A k \in (1..(next - 1)) \ {h} : sys'[k] = sys[k]
  <2>1. sys' = [sys EXCEPT ![h] = y]
    BY <1>0 DEF h
  <2>. QED  BY <1>1, <1>2, <1>3, <2>1
<1>6. ASSUME NEW j \in Place
      PROVE  PlaceOK(files'[j], next)
  BY <1>0, <1>4 DEF IInv, Table
<1>7. ASSUME NEW j \in Place, NEW k \in Place,
             files'[j].handle = files'[k].handle, files'[j].handle # 0
      PROVE  j = k
  <2>1. CASE j # i /\ k # i
    BY <1>4, <1>7, <2>1 DEF IInv, Table
  <2>2. CASE j = i /\ k # i
    BY <1>1, <1>3, <1>4, <1>7, <2>2
  <2>3. CASE j # i /\ k = i
    BY <1>1, <1>3, <1>4, <1>7, <2>3
  <2>. QED  BY <2>1, <2>2, <2>3
<1>8. ASSUME NEW k \in 1..(next - 1)
      PROVE  sys'[k].mark <= Len(sys'[k].acc)
  BY <1>3, <1>5 DEF IInv, Table
<1>9. ASSUME NEW j \in Place, files'[j].handle # 0
      PROVE  Agree(files'[j], sys'[files'[j].handle], Partial(call', j))
  <2>1. CASE j = i
    BY <1>0, <1>3, <1>4, <1>5, <1>9, <2>1
  <2>2. CASE j # i
    <3>1. /\ files'[j] = files[j] /\ files[j].handle # 0
          /\ Partial(call', j) = Partial(call, j)
      BY <1>0, <1>4, <1>9, <2>2
    <3>2. files[j].handle \in 1..(next - 1) /\ files[j].handle # h
      BY <1>1, <2>2, <3>1, AtPlace
    <3>3. Agree(files[j], sys[files[j].handle], Partial(call, j))
      BY <3>1, AtPlace
    <3>. QED  BY <1>5, <3>1, <3>2, <3>3
  <2>. QED  BY <2>1, <2>2
<1>10. ASSUME NEW k \in 1..(next - 1),
              \A j \in Place : files'[j].handle # k
       PROVE  sys'[k].out = sys'[k].acc
  <2>1. CASE k = h
    BY <1>3, <1>4, <1>5, <1>10, <2>1
  <2>2. CASE k # h
    <3>1. \A j \in Place : files[j].handle # k
      BY <1>4, <1>10, <2>2 DEF h
    <3>. QED  BY <1>5, <2>2, <3>1 DEF IInv, Table
  <2>. QED  BY <2>1, <2>2
<1>11. Table(files', next', call', sys')
  BY <1>0, <1>1, <1>4, <1>5, <1>6, <1>7, <1>8, <1>9, <1>10 DEF Table
<1>12. Steady
  <2>1. ASSUME NEW j \in Place, files'[j].end, ~files[j].end
        PROVE  sys[files[j].handle].src = <<>>
    BY <1>3, <1>4, <2>1 DEF h
  <2>2. ASSUME NEW k \in 1..(next - 1), sys[k].ended
        PROVE  sys'[k].got = sys[k].got
    BY <1>3, <1>5, <2>2
  <2>3. ASSUME NEW k \in 1..(next - 1), \A j \in Place : files[j].handle # k,
               NEW j \in Place
        PROVE  files'[j].handle # k
    BY <1>1, <1>3, <1>4, <2>3 DEF h
  <2>. QED  BY <2>1, <2>2, <2>3 DEF Steady
<1>. QED  BY <1>11, <1>12

\* Only the call changes.
LEMMA CallChanges ==
  ASSUME IInv, UNCHANGED <<files, next, sys>>, CallOK(call', files),
         \A j \in Place : Partial(call', j) = Partial(call, j)
  PROVE  Table(files', next', call', sys') /\ Steady
<1>1. Table(files', next', call', sys')
  BY DEF IInv, Table
<1>2. Steady
  BY DEF Steady
<1>. QED  BY <1>1, <1>2

\* A call ends, with a result.
LEMMA EndsCall ==
  ASSUME NEW res \in Results, Ends(res)
  PROVE  /\ call'.op = "none" /\ \A fs : CallOK(call', fs)
         /\ \A j \in Place : Partial(call', j) = <<>>
<1>1. call' = [op |-> "none", res |-> res]
  BY DEF Ends
<1>2. call' \in [op : {"none"}, res : Results]
  BY <1>1
<1>3. call'.op = "none"
  BY <1>1
<1>. QED  BY <1>2, <1>3 DEF CallOK, CallRec, Partial

\* No call runs.
LEMMA NoPartial ==
  ASSUME Called
  PROVE  \A j \in Place : Partial(call, j) = <<>>
  BY DEF Called, Partial

\* A call counts the next one, and leaves the rest of the invariant.
LEMMA Counted ==
  ASSUME IInv, Called, next' = next
  PROVE  next' <= MaxOpens + 1 /\ calls' \in 0..MaxCalls
         /\ status' \in {"run", "ok", "halt", "error", "io"}
  BY FilesAssumption DEF IInv, Called

\* A place with another buffer.
LEMMA BufSet ==
  ASSUME NEW f \in PlaceRec, NEW b \in Bytes
  PROVE  /\ [f EXCEPT !.buf = b] \in PlaceRec
         /\ [f EXCEPT !.buf = b].buf = b
         /\ [f EXCEPT !.buf = b].handle = f.handle
         /\ [f EXCEPT !.buf = b].mode = f.mode
         /\ [f EXCEPT !.buf = b].end = f.end
         /\ [f EXCEPT !.buf = b].at = f.at
  BY DEF PlaceRec, Bytes

-----------------------------------------------------------------------------
(* The steps of a file written                                             *)

\* An end with nothing left to write agrees with an empty buffer.
LEMMA AgreeEmpty ==
  ASSUME NEW f, NEW y \in EndRec, NEW p, f.mode # 0, f.buf = <<>>,
         y.out = y.acc, y.mark = Len(y.acc)
  PROVE  Agree(f, y, p)
<1>1. y.out \in Bytes /\ y.acc \in Bytes
  BY DEF EndRec, Bytes
<1>2. Len(y.acc) \in Int /\ FilesBuf \in Nat \ {0}
  BY <1>1, LenNat, FilesAssumption
<1>3. (Len(y.acc) - y.mark) % FilesBuf = 0
  BY <1>2, RemainderNone
<1>. QED  BY <1>1, <1>3, JoinedEmpty DEF Agree

LEMMA FlushStep ==
  ASSUME IInv, NEW h, Flush(h)
  PROVE  IInv' /\ Steady
<1>0. PICK i \in Find(h) : \E d \in Drain(files[i]) :
        /\ Called /\ Ends(Result(d.ok))
        /\ sys' = [sys EXCEPT ![h] = Flushed(@, d.out, d.ok)]
        /\ files' = [files EXCEPT ![i].buf = IF files[i].mode = 0 THEN @ ELSE <<>>]
        /\ UNCHANGED next
  BY DEF Flush
<1>1. PICK d \in Drain(files[i]) :
        /\ Called /\ Ends(Result(d.ok))
        /\ sys' = [sys EXCEPT ![h] = Flushed(@, d.out, d.ok)]
        /\ files' = [files EXCEPT ![i].buf = IF files[i].mode = 0 THEN @ ELSE <<>>]
        /\ UNCHANGED next
  BY <1>0
<1>. DEFINE f == files[i]
            x == sys[files[i].handle]
            b == IF f.mode = 0 THEN f.buf ELSE <<>>
            g == [f EXCEPT !.buf = b]
            y == Flushed(x, d.out, d.ok)
<1>2. i \in Place /\ f.handle # 0 /\ f.handle = h
  BY DEF Find
<1>3. /\ f \in PlaceRec /\ x \in EndRec /\ PlaceOK(f, next)
      /\ Agree(f, x, Partial(call, i)) /\ Partial(call, i) = <<>>
  BY <1>1, <1>2, AtPlace, NoPartial
<1>4. d.ok \in BOOLEAN
  BY <1>3, DrainOf
<1>5. files' = [files EXCEPT ![i] = g] /\ sys' = [sys EXCEPT ![files[i].handle] = y]
  BY <1>1, <1>2
<1>6. /\ call'.op = "none" /\ \A fs : CallOK(call', fs)
      /\ \A j \in Place : Partial(call', j) = <<>>
  <2>1. Result(d.ok) \in Results
    BY DEF Result, Results
  <2>. QED  BY <1>1, <2>1, EndsCall
<1>7. /\ y \in EndRec /\ y.out = y.acc /\ y.mark = Len(y.acc)
      /\ y.got = x.got /\ y.ended = x.ended /\ y.all = x.all /\ y.src = x.src
  BY <1>3, <1>4, DrainSent
<1>8. b \in Bytes
  BY <1>3, JoinedEmpty DEF PlaceRec, Bytes
<1>. HIDE DEF x, y, b
<1>9. /\ g \in PlaceRec /\ g.buf = b /\ g.handle = f.handle /\ g.mode = f.mode
      /\ g.end = f.end /\ g.at = f.at
  BY <1>3, <1>8, BufSet
<1>. HIDE DEF f, g
<1>10. PlaceOK(g, next)
  <2>1. CASE f.mode = 0
    BY <1>2, <1>3, <1>9, <2>1 DEF PlaceOK, b
  <2>2. CASE f.mode # 0
    <3>1. b = <<>> /\ Len(b) = 0 /\ FilesBuf \in Nat \ {0}
      BY <2>2, JoinedEmpty, FilesAssumption DEF b
    <3>. QED  BY <1>2, <1>3, <1>9, <2>2, <3>1 DEF PlaceOK
  <2>. QED  BY <2>1, <2>2
<1>11. Agree(g, y, <<>>)
  <2>1. CASE f.mode = 0
    BY <1>3, <1>7, <1>9, <2>1 DEF Agree, AtEnd, Unread, b
  <2>2. CASE f.mode # 0
    BY <1>7, <1>9, <2>2, AgreeEmpty DEF b
  <2>. QED  BY <2>1, <2>2
<1>12. Moves(f, x, g, y)
  <2>1. y.mark <= Len(y.acc)
    BY <1>7, LenNat DEF EndRec, Bytes
  <2>. QED  BY <1>7, <1>9, <2>1 DEF Moves
<1>13. \A j \in Place : Partial(call, j) = <<>>
  BY <1>1, NoPartial
<1>14. Turns(i, g, y)
  BY <1>1, <1>2, <1>5, <1>6, <1>10, <1>11, <1>12, <1>13 DEF f, x, Turns
<1>15. Table(files', next', call', sys') /\ Steady
  BY <1>2, <1>14, OneChanges DEF f
<1>. QED  BY <1>1, <1>15, Counted DEF IInv

LEMMA FreePlace ==
  /\ Free \in PlaceRec /\ Free.handle = 0 /\ ~Free.end /\ Free.mode = 0
  /\ Free.buf = <<>> /\ Free.at = 0
  /\ \A n \in Nat \ {0} : PlaceOK(Free, n)
<1>1. /\ Free \in PlaceRec /\ Free.handle = 0 /\ ~Free.end /\ Free.mode = 0
      /\ Free.buf = <<>> /\ Free.at = 0
  BY FilesAssumption, JoinedEmpty DEF Free, PlaceRec, Bytes
<1>2. FilesBuf \in Nat
  BY FilesAssumption
<1>. QED  BY <1>1, <1>2, JoinedEmpty DEF PlaceOK

LEMMA CloseStep ==
  ASSUME IInv, NEW h, Close(h)
  PROVE  IInv' /\ Steady
<1>0. PICK i \in Find(h) : \E d \in Shut(files[i]) :
        /\ Called /\ Ends(Result(d.ok))
        /\ sys' = [sys EXCEPT ![h] = Flushed(@, d.out, d.ok)]
        /\ files' = [files EXCEPT ![i] = Free]
        /\ UNCHANGED next
  BY DEF Close
<1>1. PICK d \in Shut(files[i]) :
        /\ Called /\ Ends(Result(d.ok))
        /\ sys' = [sys EXCEPT ![h] = Flushed(@, d.out, d.ok)]
        /\ files' = [files EXCEPT ![i] = Free]
        /\ UNCHANGED next
  BY <1>0
<1>2. PICK e \in Drain(files[i]), c \in BOOLEAN :
        d = [out |-> e.out, ok |-> e.ok /\ c]
  BY ShutOf
<1>. DEFINE f == files[i]
            x == sys[files[i].handle]
            y == Flushed(x, e.out, d.ok)
<1>3. i \in Place /\ f.handle # 0 /\ f.handle = h
  BY DEF Find
<1>4. /\ f \in PlaceRec /\ x \in EndRec /\ Agree(f, x, Partial(call, i))
  BY <1>3, AtPlace
<1>5. d.ok \in BOOLEAN /\ (d.ok => e.ok) /\ d.out = e.out
  BY <1>2, <1>4, DrainOf
<1>6. /\ y \in EndRec /\ y.out = y.acc /\ y.mark = Len(y.acc)
      /\ y.got = x.got /\ y.ended = x.ended
  BY <1>4, <1>5, DrainSent
<1>7. sys' = [sys EXCEPT ![files[i].handle] = y]
  BY <1>1, <1>3, <1>5
<1>8. /\ call'.op = "none" /\ \A fs : CallOK(call', fs)
      /\ \A j \in Place : Partial(call', j) = <<>>
  <2>1. Result(d.ok) \in Results
    BY DEF Result, Results
  <2>. QED  BY <1>1, <2>1, EndsCall
<1>. HIDE DEF f, x, y
<1>9. PlaceOK(Free, next)
  BY FreePlace DEF IInv, Table
<1>10. Moves(f, x, Free, y)
  <2>1. y.mark <= Len(y.acc)
    BY <1>6, LenNat DEF EndRec, Bytes
  <2>. QED  BY <1>6, <2>1, FreePlace DEF Moves
<1>11. \A j \in Place : Partial(call, j) = <<>>
  BY <1>1, NoPartial
<1>12. Turns(i, Free, y)
  BY <1>1, <1>7, <1>8, <1>9, <1>10, <1>11, FreePlace DEF f, x, Turns
<1>13. Table(files', next', call', sys') /\ Steady
  BY <1>3, <1>12, OneChanges DEF f
<1>. QED  BY <1>1, <1>13, Counted DEF IInv

\* A call that only ends, or one that begins and has read nothing.
LEMMA Idle ==
  ASSUME IInv, Called, UNCHANGED <<files, next, sys>>,
         NEW res \in Results, Ends(res)
  PROVE  IInv' /\ Steady
<1>1. /\ CallOK(call', files)
      /\ \A j \in Place : Partial(call', j) = Partial(call, j)
  BY EndsCall, NoPartial
<1>2. Table(files', next', call', sys') /\ Steady
  BY <1>1, CallChanges
<1>. QED  BY <1>2, Counted DEF IInv

LEMMA Begins ==
  ASSUME IInv, Called, UNCHANGED <<files, next, sys>>,
         NEW i \in Place, files[i].handle # 0,
         call' \in CallRec, call'.op # "none", call'.at = i,
         call'.op = "write" <=> files[i].mode # 0,
         call'.op # "write" => call'.d = <<>>
  PROVE  IInv' /\ Steady
<1>1. CallOK(call', files)
  <2>1. call'.op = "read" => call'.n \in Nat
    BY DEF CallRec
  <2>. QED  BY <2>1, JoinedEmpty DEF CallOK
<1>2. ASSUME NEW j \in Place
      PROVE  Partial(call', j) = Partial(call, j)
  <2>1. Partial(call, j) = <<>>
    BY NoPartial
  <2>2. Partial(call', j) = <<>>
    BY DEF Partial
  <2>. QED  BY <2>1, <2>2
<1>3. Table(files', next', call', sys') /\ Steady
  BY <1>1, <1>2, CallChanges
<1>. QED  BY <1>3, Counted DEF IInv

LEMMA BadHandleStep ==
  ASSUME IInv, NEW h, BadHandle(h)
  PROVE  IInv' /\ Steady
<1>1. "handle" \in Results
  BY DEF Results
<1>. QED  BY <1>1, Idle DEF BadHandle

LEMMA WriteStep ==
  ASSUME IInv, NEW h, NEW data \in Data, Write(h, data)
  PROVE  IInv' /\ Steady
<1>1. PICK i \in Find(h) :
        /\ Called
        /\ IF files[i].mode = 0 THEN Ends("io")
           ELSE call' = [op |-> "write", at |-> i, data |-> data]
        /\ UNCHANGED <<files, next, sys>>
  BY DEF Write
<1>2. i \in Place /\ files[i].handle # 0
  BY DEF Find
<1>3. CASE files[i].mode = 0
  <2>1. "io" \in Results
    BY DEF Results
  <2>. QED  BY <1>1, <1>3, <2>1, Idle
<1>4. CASE files[i].mode # 0
  <2>1. data \in Seq(Byte)
    BY FilesAssumption
  <2>2. call' = [op |-> "write", at |-> i, data |-> data]
    BY <1>1, <1>4
  <2>3. call' \in CallRec /\ call'.op = "write" /\ call'.at = i
    BY <1>2, <2>1, <2>2 DEF CallRec
  <2>. QED  BY <1>1, <1>2, <1>4, <2>3, Begins
<1>. QED  BY <1>3, <1>4

LEMMA ReadStep ==
  ASSUME IInv, NEW h, NEW n \in 0..MaxLen, Read(h, n)
  PROVE  IInv' /\ Steady
<1>1. PICK i \in Find(h) :
        /\ Called
        /\ IF files[i].mode # 0 THEN Ends("io")
           ELSE call' = [op |-> "read", at |-> i, n |-> n, d |-> <<>>]
        /\ UNCHANGED <<files, next, sys>>
  BY DEF Read
<1>2. i \in Place /\ files[i].handle # 0
  BY DEF Find
<1>3. CASE files[i].mode # 0
  <2>1. "io" \in Results
    BY DEF Results
  <2>. QED  BY <1>1, <1>3, <2>1, Idle
<1>4. CASE files[i].mode = 0
  <2>1. n \in Nat /\ <<>> \in Seq(Byte)
    BY FilesAssumption, EmptySeq
  <2>2. call' = [op |-> "read", at |-> i, n |-> n, d |-> <<>>]
    BY <1>1, <1>4
  <2>3. /\ call' \in CallRec /\ call'.op = "read" /\ call'.at = i
        /\ call'.d = <<>>
    BY <1>2, <2>1, <2>2 DEF CallRec
  <2>. QED  BY <1>1, <1>2, <1>4, <2>3, Begins
<1>. QED  BY <1>3, <1>4

LEMMA ReadLineStep ==
  ASSUME IInv, NEW h, ReadLine(h)
  PROVE  IInv' /\ Steady
<1>1. PICK i \in Find(h) :
        /\ Called
        /\ IF files[i].mode # 0 THEN Ends("io")
           ELSE call' = [op |-> "line", at |-> i, d |-> <<>>]
        /\ UNCHANGED <<files, next, sys>>
  BY DEF ReadLine
<1>2. i \in Place /\ files[i].handle # 0
  BY DEF Find
<1>3. CASE files[i].mode # 0
  <2>1. "io" \in Results
    BY DEF Results
  <2>. QED  BY <1>1, <1>3, <2>1, Idle
<1>4. CASE files[i].mode = 0
  <2>1. <<>> \in Seq(Byte)
    BY EmptySeq
  <2>2. call' = [op |-> "line", at |-> i, d |-> <<>>]
    BY <1>1, <1>4
  <2>3. /\ call' \in CallRec /\ call'.op = "line" /\ call'.at = i
        /\ call'.d = <<>>
    BY <1>2, <2>1, <2>2 DEF CallRec
  <2>. QED  BY <1>1, <1>2, <1>4, <2>3, Begins
<1>. QED  BY <1>3, <1>4

LEMMA LeastOf ==
  ASSUME NEW a \in Nat, NEW b \in Nat
  PROVE  /\ Least(a, b) \in 0..b /\ Least(a, b) <= a
         /\ Least(a, b) \in {a, b}
  BY DEF Least

\* A call that writes; one that reads.
LEMMA CallWrite ==
  ASSUME IInv, call.op = "write"
  PROVE  /\ call \in [op : {"write"}, at : Place, data : Seq(Byte)]
         /\ files[call.at].handle # 0 /\ files[call.at].mode # 0
         /\ \A j \in Place : Partial(call, j) = <<>>
<1>1. CallOK(call, files)
  BY DEF IInv, Table
<1>2. call \in [op : {"write"}, at : Place, data : Seq(Byte)]
  BY <1>1 DEF CallOK, CallRec
<1>. QED  BY <1>1, <1>2 DEF CallOK, Partial

LEMMA CallReads ==
  ASSUME IInv, Reading
  PROVE  /\ call \in [op : {"read"}, at : Place, n : Nat, d : Seq(Byte)] \cup
                     [op : {"line"}, at : Place, d : Seq(Byte)]
         /\ call.at \in Place /\ call.d \in Bytes
         /\ files[call.at].handle # 0 /\ files[call.at].mode = 0
         /\ call.op = "read" => Len(call.d) <= call.n
         /\ Partial(call, call.at) = call.d
         /\ \A j \in Place \ {call.at} : Partial(call, j) = <<>>
<1>1. CallOK(call, files) /\ call.op \in {"read", "line"}
  BY DEF IInv, Table, Reading
<1>2. call \in [op : {"read"}, at : Place, n : Nat, d : Seq(Byte)] \cup
               [op : {"line"}, at : Place, d : Seq(Byte)]
  BY <1>1 DEF CallOK, CallRec
<1>3. call.at \in Place /\ call.d \in Bytes
  BY <1>2 DEF Bytes
<1>4. /\ files[call.at].handle # 0 /\ files[call.at].mode = 0
      /\ call.op = "read" => Len(call.d) <= call.n
  BY <1>1 DEF CallOK
<1>. QED  BY <1>1, <1>2, <1>3, <1>4 DEF Partial

LEMMA AccSet ==
  ASSUME NEW x \in EndRec, NEW a \in Bytes
  PROVE  /\ [x EXCEPT !.acc = a] \in EndRec
         /\ [x EXCEPT !.acc = a].acc = a
         /\ [x EXCEPT !.acc = a].out = x.out
         /\ [x EXCEPT !.acc = a].mark = x.mark
         /\ [x EXCEPT !.acc = a].got = x.got
         /\ [x EXCEPT !.acc = a].ended = x.ended
  BY DEF EndRec, Bytes

\* What goes into a buffer that then is not full, or that is full and
\* written.
LEMMA Taken ==
  ASSUME NEW f \in PlaceRec, NEW x \in EndRec, NEW p, f.mode # 0,
         Agree(f, x, p), x.mark <= Len(x.acc), NEW q \in Bytes,
         Len(f.buf) + Len(q) <= FilesBuf
  PROVE  LET buf == f.buf \o q
             acc == x.acc \o q
         IN /\ buf \in Bytes /\ acc \in Bytes
            /\ Len(buf) = Len(f.buf) + Len(q) /\ Len(buf) \in Nat
            /\ x.mark <= Len(acc)
            /\ x.out \o buf = acc
            /\ (Len(acc) - x.mark) % FilesBuf =
                 IF Len(buf) = FilesBuf THEN 0 ELSE Len(buf)
<1>. DEFINE buf == f.buf \o q
            acc == x.acc \o q
            w == FilesBuf
            a == Len(x.acc) - x.mark
            k == Len(q)
<1>1. /\ f.buf \in Bytes /\ x.acc \in Bytes /\ x.out \in Bytes /\ x.mark \in Nat
  BY DEF PlaceRec, EndRec, Bytes
<1>2. /\ Len(f.buf) \in Nat /\ Len(x.acc) \in Nat /\ k \in Nat
      /\ FilesBuf \in Nat \ {0}
  BY <1>1, LenNat, FilesAssumption
<1>3. /\ buf \in Bytes /\ acc \in Bytes
      /\ Len(buf) = Len(f.buf) + k /\ Len(acc) = Len(x.acc) + k
  BY <1>1, Joined
<1>4. x.out \o f.buf = x.acc /\ Len(f.buf) = a % w
  BY DEF Agree
<1>5. x.out \o buf = acc
  <2>1. (x.out \o f.buf) \o q = x.out \o (f.buf \o q)
    BY <1>1, JoinedTwice
  <2>. QED  BY <1>4, <2>1
<1>6. Len(acc) - x.mark = a + k /\ a \in Int
  BY <1>1, <1>2, <1>3
<1>. HIDE DEF buf, acc, k, w, a
<1>7. (a + k) % w = IF (a % w) + k = w THEN 0 ELSE (a % w) + k
  <2>1. w \in Nat \ {0} /\ k \in Nat /\ (a % w) + k <= w
    BY <1>2, <1>4 DEF w, k
  <2>. QED  BY <1>6, <2>1, RemainderMore
<1>8. x.mark <= Len(acc) /\ Len(buf) \in Nat
  BY <1>1, <1>2, <1>3
<1>9. (Len(acc) - x.mark) % FilesBuf = IF Len(buf) = FilesBuf THEN 0 ELSE Len(buf)
  BY <1>3, <1>4, <1>6, <1>7 DEF w
<1>. QED  BY <1>3, <1>5, <1>8, <1>9 DEF buf, acc, k

LEMMA WriteOnStep ==
  ASSUME IInv, WriteOn
  PROVE  IInv' /\ Steady
<1>. DEFINE i == call.at
            f == files[i]
            h == f.handle
            x == sys[h]
            k == Least(FilesBuf - Len(f.buf), Len(call.data))
            q == First(call.data, k)
            buf == f.buf \o q
            given == [x EXCEPT !.acc = @ \o q]
            left == [call EXCEPT !.data = Rest(@, k)]
<1>1. /\ call.op = "write" /\ next' = next /\ calls' = calls /\ status' = status
  BY DEF WriteOn
<1>2. /\ call \in [op : {"write"}, at : Place, data : Seq(Byte)]
      /\ i \in Place /\ h # 0 /\ f.mode # 0
      /\ \A j \in Place : Partial(call, j) = <<>>
  BY <1>1, CallWrite
<1>3. /\ f \in PlaceRec /\ PlaceOK(f, next) /\ x \in EndRec
      /\ x.mark <= Len(x.acc) /\ Agree(f, x, <<>>)
  BY <1>2, AtPlace
<1>4. /\ f.at = 0 /\ ~f.end /\ Len(f.buf) < FilesBuf /\ Len(f.buf) \in Nat
      /\ f.buf \in Bytes
  <2>1. f.buf \in Bytes
    BY <1>3 DEF PlaceRec, Bytes
  <2>. QED  BY <1>2, <1>3, <2>1, LenNat DEF PlaceOK
<1>5. k \in 0..Len(call.data) /\ Len(f.buf) + k <= FilesBuf
  <2>1. call.data \in Bytes
    BY <1>2 DEF Bytes
  <2>2. Len(call.data) \in Nat /\ FilesBuf - Len(f.buf) \in Nat
    <3>1. Len(call.data) \in Nat
      BY <2>1, LenNat
    <3>2. FilesBuf \in Nat
      BY FilesAssumption
    <3>3. \A a \in Nat, b \in Nat : a < b => b - a \in Nat
      OBVIOUS
    <3>. QED  BY <1>4, <3>1, <3>2, <3>3
  <2>3. k \in 0..Len(call.data) /\ k <= FilesBuf - Len(f.buf)
    BY <2>2, LeastOf
  <2>. HIDE DEF k
  <2>. QED  BY <1>4, <2>3, FilesAssumption
<1>6. q \in Bytes /\ Len(q) = k /\ Rest(call.data, k) \in Bytes
  <2>1. call.data \in Bytes
    BY <1>2 DEF Bytes
  <2>. QED  BY <1>5, <2>1, Cut
<1>. DEFINE acc == x.acc \o q
<1>7. /\ buf \in Bytes /\ acc \in Bytes
      /\ Len(buf) = Len(f.buf) + k /\ Len(buf) \in Nat
      /\ x.mark <= Len(acc)
      /\ x.out \o buf = acc
      /\ (Len(acc) - x.mark) % FilesBuf =
           IF Len(buf) = FilesBuf THEN 0 ELSE Len(buf)
  <2>. HIDE DEF f, x, q
  <2>. QED  BY <1>2, <1>3, <1>5, <1>6, Taken
<1>8. \/ call.data = <<>> /\ Ends("ok") /\ UNCHANGED <<files, sys>>
      \/ /\ ~Full(buf) /\ call' = left
         /\ files' = [files EXCEPT ![i].buf = buf]
         /\ sys' = [sys EXCEPT ![h] = given]
      \/ /\ Full(buf)
         /\ \E d \in Put(buf) :
              /\ IF d.ok THEN call' = left ELSE Ends("io")
              /\ files' = [files EXCEPT ![i].buf = <<>>]
              /\ sys' = [sys EXCEPT ![h] =
                   IF d.ok THEN Sent(given, d.out, TRUE)
                   ELSE Flushed(given, d.out, FALSE)]
  BY DEF WriteOn
<1>9. /\ left \in [op : {"write"}, at : Place, data : Seq(Byte)]
      /\ left.op = "write" /\ left.at = i
  BY <1>2, <1>6 DEF Bytes
<1>10. /\ given \in EndRec /\ given.acc = acc /\ given.out = x.out
       /\ given.mark = x.mark /\ given.got = x.got /\ given.ended = x.ended
  <2>. HIDE DEF x, q
  <2>. QED  BY <1>3, <1>7, AccSet
<1>. HIDE DEF x, k, q, buf, given, left, acc
<1>11. \A b \in Bytes :
         LET g == [f EXCEPT !.buf = b]
         IN /\ g \in PlaceRec /\ g.buf = b /\ g.handle = h /\ g.mode = f.mode
            /\ g.end = f.end /\ g.at = f.at
  BY <1>3, BufSet
<1>12. ASSUME NEW b \in Bytes, Len(b) < FilesBuf,
              files' = [files EXCEPT ![i] = [f EXCEPT !.buf = b]],
              NEW y \in EndRec, y.mark <= Len(y.acc), y.got = x.got,
              Agree([f EXCEPT !.buf = b], y, <<>>),
              sys' = [sys EXCEPT ![h] = y],
              call' = left \/ \E res \in Results : Ends(res)
       PROVE  IInv' /\ Steady
  <2>. DEFINE g == [f EXCEPT !.buf = b]
  <2>1. /\ g \in PlaceRec /\ g.buf = b /\ g.handle = h /\ g.mode = f.mode
        /\ g.end = f.end /\ g.at = f.at
    BY <1>11
  <2>2. files'[i].handle = h /\ files'[i].mode = f.mode
    BY <1>2, <1>12, <2>1 DEF IInv, Table
  <2>3. CallOK(call', files') /\ \A j \in Place : Partial(call', j) = <<>>
    <3>1. CASE call' = left
      BY <1>2, <1>9, <2>2, <3>1 DEF CallOK, CallRec, Partial
    <3>2. CASE \E res \in Results : Ends(res)
      BY <3>2, EndsCall
    <3>. QED  BY <1>12, <3>1, <3>2
  <2>. HIDE DEF g
  <2>4. PlaceOK(g, next)
    <3>1. Len(b) \in Nat
      BY LenNat
    <3>. QED  BY <1>2, <1>3, <1>4, <1>12, <2>1, <3>1, FilesAssumption DEF PlaceOK
  <2>5. Moves(f, x, g, y)
    BY <1>2, <1>12, <2>1 DEF Moves
  <2>6. Turns(i, g, y)
    BY <1>1, <1>2, <1>12, <2>3, <2>4, <2>5 DEF Turns, g, x
  <2>7. Table(files', next', call', sys') /\ Steady
    BY <1>2, <2>6, OneChanges
  <2>. QED  BY <1>1, <2>7 DEF IInv
<1>13. CASE call.data = <<>> /\ Ends("ok") /\ UNCHANGED <<files, sys>>
  <2>1. "ok" \in Results
    BY DEF Results
  <2>2. Table(files', next', call', sys') /\ Steady
    BY <1>1, <1>2, <1>13, <2>1, EndsCall, CallChanges
  <2>. QED  BY <1>1, <2>2 DEF IInv
<1>14. CASE /\ ~Full(buf) /\ call' = left
            /\ files' = [files EXCEPT ![i].buf = buf]
            /\ sys' = [sys EXCEPT ![h] = given]
  <2>1. Len(buf) # FilesBuf /\ Len(buf) < FilesBuf
    BY <1>4, <1>5, <1>7, <1>14, FilesAssumption DEF Full
  <2>2. Agree([f EXCEPT !.buf = buf], given, <<>>)
    <3>1. /\ [f EXCEPT !.buf = buf].buf = buf
          /\ [f EXCEPT !.buf = buf].mode = f.mode
      BY <1>7, <1>11
    <3>. QED  BY <1>2, <1>7, <1>10, <2>1, <3>1 DEF Agree
  <2>3. given.mark <= Len(given.acc)
    BY <1>7, <1>10
  <2>4. files' = [files EXCEPT ![i] = [f EXCEPT !.buf = buf]]
    BY <1>14
  <2>. QED  BY <1>7, <1>10, <1>12, <1>14, <2>1, <2>2, <2>3, <2>4
<1>15. CASE /\ Full(buf)
            /\ \E d \in Put(buf) :
                 /\ IF d.ok THEN call' = left ELSE Ends("io")
                 /\ files' = [files EXCEPT ![i].buf = <<>>]
                 /\ sys' = [sys EXCEPT ![h] =
                      IF d.ok THEN Sent(given, d.out, TRUE)
                      ELSE Flushed(given, d.out, FALSE)]
  <2>1. PICK d \in Put(buf) :
          /\ IF d.ok THEN call' = left ELSE Ends("io")
          /\ files' = [files EXCEPT ![i].buf = <<>>]
          /\ sys' = [sys EXCEPT ![h] =
               IF d.ok THEN Sent(given, d.out, TRUE)
               ELSE Flushed(given, d.out, FALSE)]
    BY <1>15
  <2>. DEFINE y == IF d.ok THEN Sent(given, d.out, TRUE)
                   ELSE Flushed(given, d.out, FALSE)
              g == [f EXCEPT !.buf = <<>>]
  <2>2. d.out \in Bytes /\ d.ok \in BOOLEAN /\ (d.ok => d.out = buf)
    BY <1>7, PutOf
  <2>3. /\ g.buf = <<>> /\ g.mode = f.mode
        /\ <<>> \in Bytes /\ Len(<<>>) < FilesBuf
    BY <1>11, JoinedEmpty, FilesAssumption
  <2>4. Len(buf) = FilesBuf
    BY <1>15 DEF Full
  <2>. HIDE DEF g
  <2>5. y \in EndRec /\ y.mark <= Len(y.acc) /\ y.got = x.got /\ Agree(g, y, <<>>)
    <3>1. CASE d.ok
      <4>. DEFINE z == Sent(given, d.out, TRUE)
      <4>1. /\ z \in EndRec /\ z.out = given.out \o d.out /\ z.acc = given.acc
            /\ z.got = given.got /\ z.mark = given.mark
        BY <1>10, <2>2, SentFields
      <4>2. y = z
        BY <3>1
      <4>. HIDE DEF y, z
      <4>3. z.out = acc /\ z.acc = acc /\ z.mark = x.mark
        BY <1>7, <1>10, <2>2, <3>1, <4>1
      <4>4. acc \o <<>> = acc
        BY <1>7, JoinedEmpty
      <4>5. Agree(g, z, <<>>)
        BY <1>2, <1>7, <2>3, <2>4, <4>3, <4>4, JoinedEmpty DEF Agree
      <4>. QED  BY <1>7, <1>10, <4>1, <4>2, <4>3, <4>5
    <3>2. CASE ~d.ok
      <4>. DEFINE z == Flushed(given, d.out, FALSE)
      <4>1. /\ z \in EndRec /\ z.out = z.acc /\ z.got = given.got
            /\ z.mark = Len(z.acc)
        <5>1. given \in EndRec /\ d.out \in Bytes /\ FALSE \in BOOLEAN
          BY <1>10, <2>2
        <5>2. /\ z \in EndRec /\ z.out = given.out \o d.out
              /\ z.acc = IF FALSE THEN given.acc ELSE given.out \o d.out
              /\ z.got = given.got /\ z.mark = Len(z.acc)
          BY <5>1, FlushedFields
        <5>. HIDE DEF z
        <5>. QED  BY <5>2
      <4>2. y = z
        BY <3>2
      <4>. HIDE DEF y, z
      <4>3. Agree(g, z, <<>>)
        BY <1>2, <2>3, <4>1, AgreeEmpty
      <4>4. z.mark <= Len(z.acc)
        BY <4>1, LenNat DEF EndRec, Bytes
      <4>. QED  BY <1>10, <4>1, <4>2, <4>3, <4>4
    <3>. QED  BY <3>1, <3>2
  <2>6. call' = left \/ \E res \in Results : Ends(res)
    <3>1. "io" \in Results
      BY DEF Results
    <3>. QED  BY <2>1, <3>1
  <2>7. files' = [files EXCEPT ![i] = g] /\ sys' = [sys EXCEPT ![h] = y]
    BY <2>1 DEF g
  <2>. HIDE DEF y
  <2>. QED  BY <1>12, <2>3, <2>5, <2>6, <2>7 DEF g
<1>. QED  BY <1>8, <1>13, <1>14, <1>15

-----------------------------------------------------------------------------
(* The steps of a file read                                                *)

LEMMA GotSet ==
  ASSUME NEW x \in EndRec, NEW r \in Bytes
  PROVE  LET y == [x EXCEPT !.got = r]
         IN /\ y \in EndRec /\ y.got = r /\ y.ended = x.ended
            /\ y.acc = x.acc /\ y.out = x.out /\ y.mark = x.mark
            /\ y.all = x.all /\ y.src = x.src
  BY DEF EndRec, Bytes

LEMMA SrcSet ==
  ASSUME NEW x \in EndRec, NEW r \in Bytes
  PROVE  LET y == [x EXCEPT !.src = r]
         IN /\ y \in EndRec /\ y.src = r /\ y.got = x.got /\ y.ended = x.ended
            /\ y.acc = x.acc /\ y.out = x.out /\ y.mark = x.mark
            /\ y.all = x.all
  BY DEF EndRec, Bytes

LEMMA ReadDoneStep ==
  ASSUME IInv, ReadDone
  PROVE  IInv' /\ Steady
<1>. DEFINE i == call.at
            f == files[i]
            h == f.handle
            x == sys[h]
            told == ~Sated /\ (call.op = "read" \/ call.d = <<>>)
            r == x.got \o call.d
            e == x.ended \/ told
            y == [x EXCEPT !.got = r, !.ended = e]
<1>1. /\ Reading /\ (Sated \/ AtEnd(f)) /\ Ends("ok")
      /\ sys' = [sys EXCEPT ![h].got = @ \o call.d, ![h].ended = @ \/ told]
      /\ files' = files /\ next' = next /\ calls' = calls /\ status' = status
  BY DEF ReadDone
<1>2. /\ i \in Place /\ call.d \in Bytes /\ h # 0 /\ f.mode = 0
      /\ Partial(call, i) = call.d
      /\ \A j \in Place \ {i} : Partial(call, j) = <<>>
  BY <1>1, CallReads
<1>3. /\ f \in PlaceRec /\ PlaceOK(f, next) /\ x \in EndRec
      /\ x.mark <= Len(x.acc) /\ Agree(f, x, call.d)
      /\ h \in 1..(next - 1)
  BY <1>2, AtPlace
<1>4. x.got \in Bytes /\ r \in Bytes /\ e \in BOOLEAN
  <2>1. x.got \in Bytes /\ x.ended \in BOOLEAN
    BY <1>3 DEF EndRec, Bytes
  <2>. QED  BY <1>2, <2>1, Joined
<1>5. sys' = [sys EXCEPT ![h] = y]
  <2>1. sys \in [1..(next - 1) -> EndRec]
    BY DEF IInv, Table
  <2>. HIDE DEF told, h
  <2>. QED  BY <1>1, <1>3, <2>1 DEF EndRec
<1>. HIDE DEF x, told
<1>6. /\ y \in EndRec /\ y.got = r /\ y.ended = e
      /\ y.acc = x.acc /\ y.out = x.out /\ y.mark = x.mark
      /\ y.all = x.all /\ y.src = x.src
  <2>. HIDE DEF r, e
  <2>1. x \in EndRec
    BY <1>3
  <2>. QED  BY <1>4, <2>1 DEF EndRec, Bytes
<1>7. /\ call'.op = "none" /\ \A fs : CallOK(call', fs)
      /\ \A j \in Place : Partial(call', j) = <<>>
  <2>1. "ok" \in Results
    BY DEF Results
  <2>. QED  BY <1>1, <2>1, EndsCall
<1>. HIDE DEF y
<1>8. x.ended => r = x.got
  BY <1>2, <1>3, <1>4, JoinedEmpty DEF Agree
<1>9. e => AtEnd(f)
  BY <1>1, <1>2, <1>3 DEF Agree, told
<1>10. Agree(f, y, <<>>)
  <2>1. r \o <<>> = r
    BY <1>4, JoinedEmpty
  <2>. QED  BY <1>2, <1>3, <1>6, <1>9, <2>1 DEF Agree
<1>11. Turns(i, f, y)
  <2>1. files' = [files EXCEPT ![i] = f]
    BY <1>1, <1>2 DEF IInv, Table
  <2>2. Moves(f, x, f, y)
    BY <1>2, <1>3, <1>6, <1>8 DEF Moves
  <2>. QED  BY <1>1, <1>2, <1>3, <1>5, <1>7, <1>10, <2>1, <2>2 DEF Turns, x
<1>12. Table(files', next', call', sys') /\ Steady
  BY <1>2, <1>11, OneChanges
<1>. QED  BY <1>1, <1>12 DEF IInv

\* The place of the call that reads and its other end become g and y.
ReadTurns(g, y) ==
  /\ files' = [files EXCEPT ![call.at] = g]
  /\ sys' = [sys EXCEPT ![files[call.at].handle] = y]
  /\ next' = next /\ calls' = calls /\ status' = status
  /\ g \in PlaceRec /\ g.handle = files[call.at].handle /\ g.mode = 0
  /\ g.at <= Len(g.buf) /\ Len(g.buf) <= FilesBuf
  /\ g.end /\ ~files[call.at].end => sys[files[call.at].handle].src = <<>>
  /\ y \in EndRec /\ y.mark <= Len(y.acc)
  /\ CallOK(call', files') /\ Agree(g, y, Partial(call', call.at))
  /\ \A j \in Place \ {call.at} : Partial(call', j) = <<>>

LEMMA ReadTurn ==
  ASSUME IInv, Reading, ~sys[files[call.at].handle].ended,
         NEW g, NEW y, ReadTurns(g, y)
  PROVE  IInv' /\ Steady
<1>1. /\ call.at \in Place /\ files[call.at].handle # 0
      /\ \A j \in Place \ {call.at} : Partial(call, j) = <<>>
  BY CallReads
<1>2. PlaceOK(files[call.at], next)
  BY <1>1, AtPlace
<1>3. PlaceOK(g, next)
  BY <1>1, <1>2 DEF PlaceOK, ReadTurns
<1>4. Moves(files[call.at], sys[files[call.at].handle], g, y)
  BY <1>1 DEF Moves, ReadTurns
<1>5. Turns(call.at, g, y)
  BY <1>1, <1>3, <1>4 DEF Turns, ReadTurns
<1>6. Table(files', next', call', sys') /\ Steady
  BY <1>1, <1>5, OneChanges
<1>. QED  BY <1>6 DEF IInv, ReadTurns

LEMMA FillStep ==
  ASSUME IInv, Fill
  PROVE  IInv' /\ Steady
<1>. DEFINE i == call.at
            f == files[i]
            h == f.handle
            x == sys[h]
            f2 == [f EXCEPT !.buf = <<>>, !.at = 0]
            room == Least(FilesBuf, Len(x.src))
<1>1. /\ Reading /\ ~AtEnd(f) /\ f.at = Len(f.buf)
      /\ next' = next /\ calls' = calls /\ status' = status
  BY DEF Fill
<1>2. /\ i \in Place /\ call.d \in Bytes /\ h # 0 /\ f.mode = 0
      /\ Partial(call, i) = call.d
      /\ \A j \in Place \ {i} : Partial(call, j) = <<>>
  BY <1>1, CallReads
<1>3. /\ f \in PlaceRec /\ x \in EndRec
      /\ x.mark <= Len(x.acc) /\ Agree(f, x, call.d)
  BY <1>2, AtPlace
<1>4. /\ f2 \in PlaceRec /\ f2.buf = <<>> /\ f2.at = 0 /\ f2.end = f.end
      /\ f2.handle = h /\ f2.mode = 0
  BY <1>2, <1>3, JoinedEmpty DEF PlaceRec, Bytes
<1>5. x.src \in Bytes /\ x.got \in Bytes /\ Len(x.src) \in Nat
  <2>1. x.src \in Bytes /\ x.got \in Bytes
    BY <1>3 DEF EndRec, Bytes
  <2>. QED  BY <2>1, LenNat
<1>6. room \in 0..Len(x.src) /\ room <= FilesBuf /\ room \in {FilesBuf, Len(x.src)}
  <2>1. FilesBuf \in Nat
    BY FilesAssumption
  <2>. QED  BY <1>5, <2>1, LeastOf
<1>7. Unread(f) = <<>>
  <2>1. f.buf \in Bytes
    BY <1>3 DEF PlaceRec, Bytes
  <2>. QED  BY <1>1, <2>1, CutNone DEF Unread
<1>8. /\ x.out = x.acc /\ ~x.ended
      /\ (x.got \o call.d) \o x.src = x.all
  <2>1. /\ x.out = x.acc /\ (x.ended => AtEnd(f))
        /\ ((x.got \o call.d) \o Unread(f)) \o x.src = x.all
    BY <1>2, <1>3 DEF Agree
  <2>2. x.got \o call.d \in Bytes
    BY <1>2, <1>5, Joined
  <2>3. (x.got \o call.d) \o <<>> = x.got \o call.d
    BY <2>2, JoinedEmpty
  <2>. QED  BY <1>1, <1>7, <2>1, <2>3
<1>9. \/ \E n \in (IF room = 0 THEN {0} ELSE 1..room) :
           /\ files' = [files EXCEPT ![i] =
                [f2 EXCEPT !.buf = @ \o First(x.src, n), !.end = @ \/ n = 0]]
           /\ sys' = [sys EXCEPT ![h].src = Rest(@, n)]
           /\ UNCHANGED call
      \/ /\ files' = [files EXCEPT ![i] = f2] /\ Ends("io")
         /\ sys' = [sys EXCEPT ![h].got = @ \o call.d]
  <2>1. Emptied(f) = f2
    BY <1>1 DEF Emptied
  <2>2. FilesBuf - Len(f2.buf) = FilesBuf
    <3>1. Len(f2.buf) = 0
      BY <1>4, JoinedEmpty
    <3>. QED  BY <3>1, FilesAssumption
  <2>3. \/ \E n \in (IF Least(FilesBuf - Len(f2.buf), Len(x.src)) = 0 THEN {0}
                     ELSE 1..Least(FilesBuf - Len(f2.buf), Len(x.src))) :
             /\ files' = [files EXCEPT ![i] =
                  [f2 EXCEPT !.buf = @ \o First(x.src, n), !.end = @ \/ n = 0]]
             /\ sys' = [sys EXCEPT ![h].src = Rest(@, n)]
             /\ UNCHANGED call
        \/ /\ files' = [files EXCEPT ![i] = f2] /\ Ends("io")
           /\ sys' = [sys EXCEPT ![h].got = @ \o call.d]
    <3>. HIDE DEF f2
    <3>. QED  BY <2>1 DEF Fill
  <2>. HIDE DEF f2
  <2>. QED  BY <2>2, <2>3
<1>10. CASE \E n \in (IF room = 0 THEN {0} ELSE 1..room) :
           /\ files' = [files EXCEPT ![i] =
                [f2 EXCEPT !.buf = @ \o First(x.src, n), !.end = @ \/ n = 0]]
           /\ sys' = [sys EXCEPT ![h].src = Rest(@, n)]
           /\ UNCHANGED call
  <2>1. PICK n \in (IF room = 0 THEN {0} ELSE 1..room) :
           /\ files' = [files EXCEPT ![i] =
                [f2 EXCEPT !.buf = @ \o First(x.src, n), !.end = @ \/ n = 0]]
           /\ sys' = [sys EXCEPT ![h].src = Rest(@, n)]
           /\ UNCHANGED call
    BY <1>10
  <2>. DEFINE b == First(x.src, n)
              s == Rest(x.src, n)
              e == f.end \/ n = 0
              g == [f2 EXCEPT !.buf = b, !.end = e]
              y == [x EXCEPT !.src = s]
  <2>. HIDE DEF room
  <2>2. n \in 0..Len(x.src) /\ n <= FilesBuf /\ (n = 0 => room = 0)
    BY <1>5, <1>6, FilesAssumption
  <2>3. n = 0 => x.src = <<>>
    <3>1. room = 0 => Len(x.src) = 0
      BY <1>6, FilesAssumption
    <3>. QED  BY <1>5, <2>2, <3>1, LenNat
  <2>4. b \in Bytes /\ s \in Bytes /\ Len(b) = n /\ b \o s = x.src
    BY <1>5, <2>2, Cut
  <2>5. files' = [files EXCEPT ![i] = g] /\ sys' = [sys EXCEPT ![h] = y]
    <3>1. f2.buf \o b = b
      BY <1>4, <2>4, JoinedEmpty
    <3>. HIDE DEF b, f2
    <3>. QED  BY <1>4, <2>1, <3>1 DEF b
  <2>. HIDE DEF b, s, x
  <2>6. /\ y \in EndRec /\ y.src = s /\ y.got = x.got /\ y.ended = x.ended
        /\ y.acc = x.acc /\ y.out = x.out /\ y.mark = x.mark
        /\ y.all = x.all
    BY <1>3, <2>4, SrcSet
  <2>. HIDE DEF y
  <2>7. e \in BOOLEAN
    <3>1. f.end \in BOOLEAN
      BY <1>3 DEF PlaceRec
    <3>. QED  BY <3>1
  <2>. HIDE DEF e
  <2>8. /\ g \in PlaceRec /\ g.buf = b /\ g.at = 0 /\ g.end = e
        /\ g.handle = h /\ g.mode = 0
    <3>. HIDE DEF f2
    <3>. QED  BY <1>4, <2>4, <2>7 DEF PlaceRec, Bytes
  <2>. HIDE DEF f2, g
  <2>9. Unread(g) = b
    BY <2>4, <2>8, CutNone DEF Unread
  <2>10. Agree(g, y, call.d)
    <3>1. ((x.got \o call.d) \o b) \o s = (x.got \o call.d) \o (b \o s)
      <4>1. x.got \o call.d \in Bytes
        BY <1>2, <1>5, Joined
      <4>. QED  BY <2>4, <4>1, JoinedTwice
    <3>2. ((y.got \o call.d) \o Unread(g)) \o y.src = y.all
      BY <1>8, <2>4, <2>6, <2>9, <3>1
    <3>. QED  BY <1>8, <2>6, <2>8, <3>2 DEF Agree
  <2>11. CallOK(call', files')
    <3>1. files'[i].handle # 0 /\ files'[i].mode = 0
      BY <1>2, <2>5, <2>8 DEF IInv, Table
    <3>2. CallOK(call, files)
      BY DEF IInv, Table
    <3>. QED  BY <1>2, <2>1, <3>1, <3>2 DEF CallOK
  <2>12. /\ g.at <= Len(g.buf) /\ Len(g.buf) <= FilesBuf
         /\ g.end /\ ~f.end => x.src = <<>>
    <3>1. e /\ ~f.end => n = 0
      BY DEF e
    <3>. QED  BY <2>2, <2>3, <2>4, <2>8, <3>1
  <2>13. ReadTurns(g, y)
    BY <1>1, <1>2, <1>3, <1>8, <2>1, <2>5, <2>6, <2>8, <2>10, <2>11, <2>12
       DEF x, ReadTurns
  <2>. QED  BY <1>1, <1>8, <2>13, ReadTurn DEF x
<1>11. CASE /\ files' = [files EXCEPT ![i] = f2] /\ Ends("io")
            /\ sys' = [sys EXCEPT ![h].got = @ \o call.d]
  <2>. DEFINE r == x.got \o call.d
              y == [x EXCEPT !.got = r]
  <2>1. r \in Bytes
    BY <1>2, <1>5, Joined
  <2>2. sys' = [sys EXCEPT ![h] = y]
    BY <1>11
  <2>. HIDE DEF x, r
  <2>3. /\ y \in EndRec /\ y.got = r /\ y.ended = x.ended
        /\ y.acc = x.acc /\ y.out = x.out /\ y.mark = x.mark
        /\ y.all = x.all /\ y.src = x.src
    BY <1>3, <2>1, GotSet
  <2>. HIDE DEF y
  <2>. HIDE DEF f2
  <2>5. Unread(f2) = <<>>
    BY <1>4, CutNone, JoinedEmpty DEF Unread
  <2>6. /\ call'.op = "none" /\ \A fs : CallOK(call', fs)
        /\ \A j \in Place : Partial(call', j) = <<>>
    <3>1. "io" \in Results
      BY DEF Results
    <3>. QED  BY <1>11, <3>1, EndsCall
  <2>7. Agree(f2, y, <<>>)
    <3>1. r \o <<>> = r
      BY <2>1, JoinedEmpty
    <3>2. r \o x.src = x.all
      BY <1>8 DEF r
    <3>. QED  BY <1>4, <1>8, <2>3, <2>5, <3>1, <3>2 DEF Agree
  <2>8. f2.at <= Len(f2.buf) /\ Len(f2.buf) <= FilesBuf
    BY <1>4, JoinedEmpty, FilesAssumption
  <2>9. ReadTurns(f2, y)
    BY <1>1, <1>2, <1>3, <1>4, <1>11, <2>2, <2>3, <2>6, <2>7, <2>8
       DEF x, ReadTurns
  <2>. QED  BY <1>1, <1>8, <2>9, ReadTurn DEF x
<1>. QED  BY <1>9, <1>10, <1>11

LEMMA CopyStep ==
  ASSUME IInv, Copy
  PROVE  IInv' /\ Steady
<1>. DEFINE i == call.at
            f == files[i]
            h == f.handle
            x == sys[h]
            u == Unread(f)
            k == IF call.op = "line" THEN 1
                 ELSE Least(Len(u), call.n - Len(call.d))
            q == First(u, k)
            d == call.d \o q
            g == [f EXCEPT !.at = @ + k]
            c == [call EXCEPT !.d = d]
<1>1. /\ Reading /\ ~Sated /\ f.at < Len(f.buf)
      /\ call' = c /\ files' = [files EXCEPT ![i] = g]
      /\ sys' = sys /\ next' = next /\ calls' = calls /\ status' = status
  BY DEF Copy, Past
<1>2. /\ i \in Place /\ call.d \in Bytes /\ h # 0 /\ f.mode = 0
      /\ call \in [op : {"read"}, at : Place, n : Nat, d : Seq(Byte)] \cup
                  [op : {"line"}, at : Place, d : Seq(Byte)]
      /\ call.op = "read" => Len(call.d) <= call.n
      /\ Partial(call, i) = call.d
      /\ \A j \in Place \ {i} : Partial(call, j) = <<>>
  BY <1>1, CallReads
<1>3. /\ f \in PlaceRec /\ PlaceOK(f, next) /\ x \in EndRec
      /\ x.mark <= Len(x.acc) /\ Agree(f, x, call.d)
      /\ h \in 1..(next - 1)
  BY <1>2, AtPlace
<1>4. /\ f.buf \in Bytes /\ f.at \in 0..Len(f.buf)
      /\ Len(f.buf) \in Nat /\ Len(f.buf) <= FilesBuf
  <2>1. f.buf \in Bytes /\ f.at \in Nat /\ f.at <= Len(f.buf)
        /\ Len(f.buf) <= FilesBuf
    BY <1>3 DEF PlaceRec, PlaceOK, Bytes
  <2>2. Len(f.buf) \in Nat
    BY <2>1, LenNat
  <2>. QED  BY <2>1, <2>2
<1>5. u \in Bytes /\ Len(u) = Len(f.buf) - f.at
  BY <1>4, Cut DEF Unread
<1>6. k \in 0..(Len(f.buf) - f.at) /\ (call.op = "read" => k <= call.n - Len(call.d))
  <2>1. CASE call.op = "line"
    BY <1>1, <1>4, <2>1
  <2>2. CASE call.op = "read"
    <3>1. call.n \in Nat
      BY <1>2, <2>2
    <3>2. Len(call.d) \in Nat /\ Len(call.d) <= call.n
      BY <1>2, <2>2, LenNat
    <3>3. call.n - Len(call.d) \in Nat /\ Len(u) \in Nat
      BY <1>5, <3>1, <3>2, LenNat
    <3>4. k = Least(Len(u), call.n - Len(call.d))
      BY <2>2
    <3>. HIDE DEF k, u
    <3>5. k <= call.n - Len(call.d) /\ k <= Len(u) /\ k \in Nat
      BY <3>3, <3>4, LeastOf
    <3>. QED  BY <1>4, <1>5, <3>5
  <2>. QED  BY <1>2, <2>1, <2>2
<1>. HIDE DEF x, k
<1>7. /\ q \in Bytes /\ Rest(f.buf, f.at + k) \in Bytes
      /\ q \o Rest(f.buf, f.at + k) = u
  BY <1>4, <1>6, CutMore DEF Unread
<1>8. Len(q) = k
  BY <1>5, <1>6, Cut
<1>9. /\ g \in PlaceRec /\ g.at = f.at + k /\ g.buf = f.buf /\ g.end = f.end
      /\ g.handle = h /\ g.mode = 0
  <2>1. f.at + k \in Nat
    BY <1>4, <1>6
  <2>. QED  BY <1>2, <1>3, <2>1 DEF PlaceRec
<1>. HIDE DEF g, u, q
<1>10. d \in Bytes /\ Len(d) = Len(call.d) + k
  BY <1>2, <1>7, <1>8, Joined
<1>. HIDE DEF d
<1>11. /\ c \in CallRec /\ c.op = call.op /\ c.at = i /\ c.d = d
       /\ call.op = "read" => c.n = call.n
       /\ call.op \in {"read", "line"}
  BY <1>2, <1>10 DEF CallRec, Bytes
<1>. HIDE DEF c
<1>12. ~x.ended
  <2>1. ~AtEnd(f)
    BY <1>1, <1>4 DEF AtEnd
  <2>. QED  BY <1>2, <1>3, <2>1 DEF Agree
<1>13. Agree(g, x, d)
  <2>1. /\ x.out = x.acc
        /\ ((x.got \o call.d) \o u) \o x.src = x.all
    BY <1>2, <1>3 DEF Agree, u
  <2>2. x.got \in Bytes
    BY <1>3 DEF EndRec, Bytes
  <2>3. (x.got \o d) \o Rest(f.buf, f.at + k) = (x.got \o call.d) \o u
    <3>1. x.got \o d = (x.got \o call.d) \o q
      <4>1. (x.got \o call.d) \o q = x.got \o (call.d \o q)
        BY <1>2, <1>7, <2>2, JoinedTwice
      <4>. QED  BY <4>1 DEF d
    <3>2. x.got \o call.d \in Bytes
      BY <1>2, <2>2, Joined
    <3>3. ((x.got \o call.d) \o q) \o Rest(f.buf, f.at + k)
            = (x.got \o call.d) \o (q \o Rest(f.buf, f.at + k))
      BY <1>7, <3>2, JoinedTwice
    <3>. QED  BY <1>7, <3>1, <3>3
  <2>4. Unread(g) = Rest(f.buf, f.at + k)
    BY <1>9 DEF Unread
  <2>. QED  BY <1>9, <1>12, <2>1, <2>3, <2>4 DEF Agree
<1>14. CallOK(call', files')
  <2>1. files'[i].handle # 0 /\ files'[i].mode = 0
    BY <1>1, <1>2, <1>9 DEF IInv, Table
  <2>2. call.op = "read" => Len(d) <= call.n
    <3>1. call.op = "read" => call.n \in Nat
      BY <1>2
    <3>2. Len(call.d) \in Nat
      BY <1>2, LenNat
    <3>. QED  BY <1>4, <1>6, <1>10, <3>1, <3>2
  <2>. QED  BY <1>1, <1>11, <2>1, <2>2 DEF CallOK
<1>15. /\ Partial(call', i) = d
       /\ \A j \in Place \ {i} : Partial(call', j) = <<>>
  BY <1>1, <1>11 DEF Partial
<1>16. sys' = [sys EXCEPT ![h] = x]
  BY <1>1, <1>3 DEF IInv, Table, x
<1>17. g.at <= Len(g.buf)
  BY <1>4, <1>6, <1>9
<1>18. ReadTurns(g, x)
  BY <1>1, <1>3, <1>4, <1>9, <1>13, <1>14, <1>15, <1>16, <1>17
     DEF x, ReadTurns
<1>. QED  BY <1>1, <1>12, <1>18, ReadTurn DEF x

LEMMA GrowStep ==
  ASSUME IInv, NEW h, NEW b \in Byte, Grow(h, b)
  PROVE  IInv' /\ Steady
<1>1. PICK i \in Find(h) : files[i].mode = 0
  BY DEF Grow
<1>. DEFINE f == files[i]
            x == sys[h]
            s == Append(x.src, b)
            a == Append(x.all, b)
            y == [x EXCEPT !.src = s, !.all = a]
            p == Partial(call, i)
<1>2. /\ sys' = [sys EXCEPT ![h].src = Append(@, b), ![h].all = Append(@, b)]
      /\ files' = files /\ next' = next /\ call' = call
      /\ calls' = calls /\ status' = status
  BY DEF Grow
<1>3. i \in Place /\ f.handle # 0 /\ f.handle = h /\ f.mode = 0
  BY <1>1 DEF Find
<1>4. /\ f \in PlaceRec /\ PlaceOK(f, next) /\ x \in EndRec
      /\ x.mark <= Len(x.acc) /\ Agree(f, x, p)
      /\ h \in 1..(next - 1)
  BY <1>3, AtPlace
<1>5. /\ x.src \in Bytes /\ x.all \in Bytes /\ x.got \in Bytes
      /\ s \in Bytes /\ a \in Bytes
      /\ <<b>> \in Bytes /\ s = x.src \o <<b>> /\ a = x.all \o <<b>>
  <2>1. x.src \in Bytes /\ x.all \in Bytes /\ x.got \in Bytes
    BY <1>4 DEF EndRec, Bytes
  <2>2. s \in Bytes /\ a \in Bytes
    BY <2>1, AppendProperties DEF Bytes
  <2>3. s = x.src \o <<b>> /\ a = x.all \o <<b>>
    BY <2>1, AppendIsConcat DEF Bytes
  <2>4. <<b>> \in Bytes
    BY DEF Bytes
  <2>. QED  BY <2>1, <2>2, <2>3, <2>4
<1>6. sys' = [sys EXCEPT ![h] = y]
  <2>1. sys \in [1..(next - 1) -> EndRec]
    BY DEF IInv, Table
  <2>. QED  BY <1>2, <1>4, <2>1 DEF EndRec
<1>. HIDE DEF x, s, a
<1>7. /\ y \in EndRec /\ y.src = s /\ y.all = a
      /\ y.got = x.got /\ y.ended = x.ended
      /\ y.acc = x.acc /\ y.out = x.out /\ y.mark = x.mark
  <2>1. x \in EndRec
    BY <1>4
  <2>. QED  BY <1>5, <2>1 DEF EndRec, Bytes
<1>. HIDE DEF y
<1>8. p \in Bytes
  <2>1. CallOK(call, files)
    BY DEF IInv, Table
  <2>. QED  BY <2>1, JoinedEmpty DEF CallOK, CallRec, Partial, Bytes
<1>9. Unread(f) \in Bytes
  <2>1. f.buf \in Bytes /\ f.at \in Nat /\ f.at <= Len(f.buf)
    BY <1>4 DEF PlaceRec, PlaceOK, Bytes
  <2>2. f.at \in 0..Len(f.buf)
    BY <2>1, LenNat
  <2>. QED  BY <2>1, <2>2, Cut DEF Unread
<1>. HIDE DEF p
<1>10. Agree(f, y, p)
  <2>. DEFINE r == (x.got \o p) \o Unread(f)
  <2>1. r \in Bytes
    BY <1>5, <1>8, <1>9, Joined
  <2>2. x.out = x.acc /\ r \o x.src = x.all /\ (x.ended => AtEnd(f) /\ p = <<>>)
    BY <1>3, <1>4 DEF Agree
  <2>. HIDE DEF r
  <2>3. (r \o x.src) \o <<b>> = r \o (x.src \o <<b>>)
    <3>1. x.src \in Bytes /\ <<b>> \in Bytes
      BY <1>5
    <3>. QED  BY <2>1, <3>1, JoinedTwice
  <2>4. r \o y.src = y.all
    BY <1>5, <1>7, <2>2, <2>3
  <2>. QED  BY <1>3, <1>7, <2>2, <2>4 DEF Agree, r
<1>11. Moves(f, x, f, y)
  BY <1>4, <1>7, <1>3 DEF Moves
<1>12. Turns(i, f, y)
  <2>1. files' = [files EXCEPT ![i] = f]
    BY <1>2, <1>3 DEF IInv, Table
  <2>2. CallOK(call', files')
    BY <1>2 DEF IInv, Table
  <2>. QED  BY <1>2, <1>3, <1>4, <1>6, <1>10, <1>11, <2>1, <2>2
            DEF Turns, x, p
<1>13. Table(files', next', call', sys') /\ Steady
  BY <1>3, <1>12, OneChanges
<1>. QED  BY <1>2, <1>13 DEF IInv

-----------------------------------------------------------------------------
(* A file opened, and the end of the run                                   *)

LEMMA Anew ==
  ASSUME NEW mode \in Mode, NEW c \in Bytes, NEW n \in Nat \ {0}
  PROVE  LET g == [Free EXCEPT !.handle = n, !.mode = mode]
             y == Opened(c)
         IN /\ g \in PlaceRec /\ g.handle = n /\ g.mode = mode /\ ~g.end
            /\ PlaceOK(g, n + 1) /\ y \in EndRec /\ y.mark <= Len(y.acc)
            /\ Agree(g, y, <<>>)
<1>. DEFINE g == [Free EXCEPT !.handle = n, !.mode = mode]
            y == Opened(c)
<1>1. ASSUME NEW f \in PlaceRec
      PROVE  LET z == [f EXCEPT !.handle = n, !.mode = mode]
             IN /\ z \in PlaceRec /\ z.handle = n /\ z.mode = mode
                /\ z.end = f.end /\ z.buf = f.buf /\ z.at = f.at
  BY DEF PlaceRec
<1>2. /\ g \in PlaceRec /\ g.handle = n /\ g.mode = mode /\ ~g.end
      /\ g.buf = <<>> /\ g.at = 0
  BY <1>1, FreePlace
<1>. HIDE DEF g
<1>3. FilesBuf \in Nat \ {0} /\ Len(<<>>) = 0 /\ n < n + 1
  BY FilesAssumption, EmptySeq
<1>4. PlaceOK(g, n + 1)
  BY <1>2, <1>3 DEF PlaceOK
<1>5. /\ y \in EndRec /\ y.all = c /\ y.src = c /\ y.got = <<>> /\ ~y.ended
      /\ y.acc = <<>> /\ y.out = <<>> /\ y.mark = 0
  BY JoinedEmpty DEF Opened, EndRec, Bytes
<1>. HIDE DEF y
<1>6. CASE mode # 0
  <2>1. y.out = y.acc /\ y.mark = Len(y.acc)
    BY <1>3, <1>5
  <2>2. Agree(g, y, <<>>)
    BY <1>2, <1>5, <1>6, <2>1, AgreeEmpty
  <2>. QED  BY <1>2, <1>3, <1>4, <1>5, <2>2 DEF g, y
<1>7. CASE mode = 0
  <2>1. Unread(g) = <<>>
    BY <1>2, JoinedEmpty, CutNone DEF Unread
  <2>2. ((<<>> \o <<>>) \o <<>>) \o c = c
    BY JoinedEmpty
  <2>3. Agree(g, y, <<>>)
    BY <1>2, <1>5, <1>7, <2>1, <2>2 DEF Agree
  <2>. QED  BY <1>2, <1>3, <1>4, <1>5, <2>3 DEF g, y
<1>. QED  BY <1>6, <1>7

LEMMA OpenStep ==
  ASSUME IInv, NEW mode \in Mode, Open(mode)
  PROVE  IInv' /\ Steady
<1>. DEFINE free == {i \in Place : files[i].handle = 0}
<1>1. Called /\ next <= MaxOpens
  BY DEF Open
<1>2. CASE \E res \in Results : Ends(res) /\ UNCHANGED <<files, next, sys>>
  BY <1>1, <1>2, Idle
<1>3. CASE \E i \in free, c \in IF mode = 0 THEN Content ELSE {<<>>} :
          /\ files' = [files EXCEPT ![i] =
                         [Free EXCEPT !.handle = NextHandle, !.mode = mode]]
          /\ sys' = [h \in DOMAIN sys \cup {NextHandle} |->
                       IF h = NextHandle THEN Opened(c) ELSE sys[h]]
          /\ next' = next + 1 /\ Ends("ok")
  <2>1. PICK i \in free, c \in IF mode = 0 THEN Content ELSE {<<>>} :
          /\ files' = [files EXCEPT ![i] =
                         [Free EXCEPT !.handle = NextHandle, !.mode = mode]]
          /\ sys' = [h \in DOMAIN sys \cup {NextHandle} |->
                       IF h = NextHandle THEN Opened(c) ELSE sys[h]]
          /\ next' = next + 1 /\ Ends("ok")
    BY <1>3
  <2>. DEFINE n == next
              g == [Free EXCEPT !.handle = n, !.mode = mode]
              y == Opened(c)
  <2>2. c \in Bytes
    BY FilesAssumption, JoinedEmpty DEF Bytes
  <2>3. /\ n \in Nat \ {0} /\ files \in [Place -> PlaceRec]
        /\ sys \in [1..(n - 1) -> EndRec] /\ DOMAIN sys = 1..(n - 1)
        /\ i \in Place /\ files[i].handle = 0
        /\ \A j \in Place : PlaceOK(files[j], n)
    BY DEF IInv, Table
  <2>4. /\ g \in PlaceRec /\ g.handle = n /\ ~g.end /\ PlaceOK(g, n + 1)
        /\ y \in EndRec /\ y.mark <= Len(y.acc) /\ Agree(g, y, <<>>)
    BY <2>2, <2>3, Anew
  <2>5. /\ files' = [files EXCEPT ![i] = g] /\ next' = n + 1
        /\ sys' = [h \in (1..(n - 1)) \cup {n} |-> IF h = n THEN y ELSE sys[h]]
    BY <2>1, <2>3 DEF NextHandle
  <2>. HIDE DEF n, g, y
  <2>6. /\ files' \in [Place -> PlaceRec] /\ files'[i] = g
        /\ \A j \in Place \ {i} : files'[j] = files[j]
    BY <2>3, <2>4, <2>5
  <2>7. (1..(n - 1)) \cup {n} = 1..n /\ n \notin 1..(n - 1)
    BY <2>3
  <2>8. /\ sys' \in [1..n -> EndRec] /\ sys'[n] = y
        /\ \A h \in 1..(n - 1) : sys'[h] = sys[h]
    <3>1. sys' = [h \in 1..n |-> IF h = n THEN y ELSE sys[h]]
      BY <2>5, <2>7
    <3>2. \A h \in 1..n : h = n \/ h \in 1..(n - 1)
      BY <2>3
    <3>3. \A h \in 1..(n - 1) : h \in 1..n /\ h # n
      BY <2>3
    <3>4. n \in 1..n
      BY <2>3
    <3>. QED  BY <2>3, <2>4, <3>1, <3>2, <3>3, <3>4
  <2>9. \A j \in Place : files[j].handle \in Nat /\ files[j].handle < n
    BY <2>3 DEF PlaceOK, PlaceRec
  <2>10. ASSUME NEW j \in Place
         PROVE  PlaceOK(files'[j], n + 1)
    <3>1. PlaceOK(files[j], n)
      BY <2>3
    <3>2. files[j].handle < n + 1
      BY <2>3, <2>9
    <3>3. PlaceOK(files[j], n + 1)
      BY <3>1, <3>2 DEF PlaceOK
    <3>. QED  BY <2>4, <2>6, <3>3
  <2>11. ASSUME NEW j \in Place, NEW k \in Place,
                files'[j].handle = files'[k].handle, files'[j].handle # 0
         PROVE  j = k
    <3>1. CASE j # i /\ k # i
      BY <2>6, <2>11, <3>1 DEF IInv, Table
    <3>2. CASE j = i /\ k # i
      BY <2>3, <2>4, <2>6, <2>9, <2>11, <3>2
    <3>3. CASE j # i /\ k = i
      BY <2>3, <2>4, <2>6, <2>9, <2>11, <3>3
    <3>. QED  BY <3>1, <3>2, <3>3
  <2>12. ASSUME NEW h \in 1..n
         PROVE  sys'[h].mark <= Len(sys'[h].acc)
    <3>1. CASE h = n
      BY <2>4, <2>8, <3>1
    <3>2. CASE h # n
      <4>1. h \in 1..(next - 1)
        BY <2>3, <3>2 DEF n
      <4>2. sys[h].mark <= Len(sys[h].acc)
        BY <4>1 DEF IInv, Table
      <4>. QED  BY <2>8, <4>1, <4>2 DEF n
    <3>. QED  BY <3>1, <3>2
  <2>13. /\ call'.op = "none" /\ \A fs : CallOK(call', fs)
         /\ \A j \in Place : Partial(call', j) = <<>> /\ Partial(call, j) = <<>>
    <3>1. "ok" \in Results
      BY DEF Results
    <3>. QED  BY <1>1, <2>1, <3>1, EndsCall, NoPartial
  <2>14. ASSUME NEW j \in Place, files'[j].handle # 0
         PROVE  Agree(files'[j], sys'[files'[j].handle], Partial(call', j))
    <3>1. CASE j = i
      BY <2>4, <2>6, <2>8, <2>13, <3>1
    <3>2. CASE j # i
      <4>1. files'[j] = files[j] /\ files[j].handle # 0
        BY <2>6, <2>14, <3>2
      <4>2. /\ files[j].handle \in 1..(n - 1)
            /\ Agree(files[j], sys[files[j].handle], Partial(call, j))
        BY <4>1, AtPlace DEF n
      <4>. QED  BY <2>8, <2>13, <4>1, <4>2
    <3>. QED  BY <3>1, <3>2
  <2>15. ASSUME NEW h \in 1..n, \A j \in Place : files'[j].handle # h
         PROVE  sys'[h].out = sys'[h].acc
    <3>1. h # n
      BY <2>3, <2>4, <2>6, <2>15
    <3>2. h \in 1..(next - 1)
      BY <2>3, <3>1 DEF n
    <3>3. \A j \in Place : files[j].handle # h
      BY <2>3, <2>6, <2>15, <3>2
    <3>4. sys[h].out = sys[h].acc
      BY <3>2, <3>3 DEF IInv, Table
    <3>. QED  BY <2>8, <3>2, <3>4 DEF n
  <2>16. Table(files', next', call', sys')
    <3>1. n + 1 \in Nat \ {0} /\ (n + 1) - 1 = n
      BY <2>3
    <3>. QED  BY <2>5, <2>6, <2>8, <2>10, <2>11, <2>12, <2>13, <2>14, <2>15, <3>1
              DEF Table
  <2>17. Steady
    <3>1. ASSUME NEW j \in Place, files'[j].end, ~files[j].end
          PROVE  sys[files[j].handle].src = <<>>
      BY <2>4, <2>6, <3>1
    <3>2. ASSUME NEW h \in 1..(next - 1)
          PROVE  sys'[h].got = sys[h].got
      BY <2>8 DEF n
    <3>3. ASSUME NEW h \in 1..(next - 1), \A j \in Place : files[j].handle # h,
                 NEW j \in Place
          PROVE  files'[j].handle # h
      BY <2>3, <2>4, <2>6, <2>7, <3>3 DEF n
    <3>. QED  BY <3>1, <3>2, <3>3 DEF Steady
  <2>18. /\ next' <= MaxOpens + 1 /\ calls' \in 0..MaxCalls
         /\ status' \in {"run", "ok", "halt", "error", "io"}
    <3>1. next' <= MaxOpens + 1
      BY <1>1, <2>3, <2>5, FilesAssumption DEF n
    <3>. QED  BY <1>1, <3>1, FilesAssumption DEF IInv, Called
  <2>. QED  BY <2>16, <2>18, <2>17 DEF IInv
<1>4. "toomany" \in Results /\ {"notfound", "denied", "cannot"} \subseteq Results
  BY DEF Results
<1>. QED  BY <1>2, <1>3, <1>4 DEF Open

LEMMA EndRunStep ==
  ASSUME IInv, NEW own \in {"ok", "halt", "error"}, EndRun(own)
  PROVE  IInv' /\ Steady
<1>. DEFINE open == {i \in Place : files[i].handle # 0}
            S == [open -> [out : UNION {{x.out : x \in Shut(files[i])} : i \in open},
                           ok : BOOLEAN]]
            given(h) == \E i \in open : files[i].handle = h
            at(h) == CHOOSE j \in open : files[j].handle = h
<1>1. PICK d \in S :
        /\ \A i \in open : d[i] \in Shut(files[i])
        /\ status' = IF Tells(own) /\ \E i \in open : ~d[i].ok THEN "io" ELSE own
        /\ sys' = [h \in DOMAIN sys |->
             IF given(h)
             THEN Flushed(sys[h], d[at(h)].out, status' \notin {"io", "error"})
             ELSE sys[h]]
  BY DEF EndRun
<1>2. /\ call.op = "none" /\ files' = [i \in Place |-> Free]
      /\ next' = next /\ call' = call /\ calls' = calls
  BY DEF EndRun
<1>. DEFINE well == status' \notin {"io", "error"}
<1>3. \A i \in open : well => d[i].ok
  BY <1>1 DEF Tells
<1>. HIDE DEF S
<1>4. ASSUME NEW h \in 1..(next - 1)
      PROVE  /\ sys'[h] \in EndRec /\ sys'[h].mark <= Len(sys'[h].acc)
             /\ sys'[h].out = sys'[h].acc /\ sys'[h].got = sys[h].got
  <2>1. /\ sys \in [1..(next - 1) -> EndRec] /\ DOMAIN sys = 1..(next - 1)
        /\ sys[h] \in EndRec /\ sys[h].mark <= Len(sys[h].acc)
    BY DEF IInv, Table
  <2>2. CASE given(h)
    <3>. DEFINE i == at(h)
    <3>1. i \in open /\ files[i].handle = h
      BY <2>2
    <3>. HIDE DEF at
    <3>2. PICK e \in Drain(files[i]), c \in BOOLEAN :
            d[i] = [out |-> e.out, ok |-> e.ok /\ c]
      <4>1. d[i] \in Shut(files[i])
        BY <1>1, <3>1
      <4>. QED  BY <4>1, ShutOf
    <3>3. sys'[h] = Flushed(sys[h], e.out, well)
      <4>1. sys'[h] = Flushed(sys[h], d[i].out, well)
        BY <1>1, <2>1, <2>2
      <4>2. d[i].out = e.out
        BY <3>2
      <4>. QED  BY <4>1, <4>2
    <3>4. well => e.ok
      <4>1. i \in open
        BY <3>1
      <4>2. d[i].ok => e.ok
        <5>1. d[i].ok = (e.ok /\ c)
          BY <3>2
        <5>. QED  BY <5>1
      <4>. QED  BY <1>3, <4>1, <4>2
    <3>5. /\ files[i] \in PlaceRec
          /\ Agree(files[i], sys[h], Partial(call, i))
      BY <3>1, AtPlace
    <3>6. well \in BOOLEAN
      OBVIOUS
    <3>. HIDE DEF i, well
    <3>7. /\ sys'[h] \in EndRec /\ sys'[h].out = sys'[h].acc
          /\ sys'[h].mark = Len(sys'[h].acc) /\ sys'[h].got = sys[h].got
      BY <2>1, <3>3, <3>4, <3>5, <3>6, DrainSent
    <3>8. sys'[h].mark <= Len(sys'[h].acc)
      BY <3>7, LenNat DEF EndRec, Bytes
    <3>. QED  BY <3>7, <3>8
  <2>3. CASE ~given(h)
    <3>1. sys'[h] = sys[h]
      BY <1>1, <2>1, <2>3
    <3>2. \A i \in Place : files[i].handle # h
      BY <2>3
    <3>3. sys[h].out = sys[h].acc
      BY <3>2 DEF IInv, Table
    <3>. QED  BY <2>1, <3>1, <3>3
  <2>. QED  BY <2>2, <2>3
<1>5. sys' \in [1..(next - 1) -> EndRec]
  <2>1. DOMAIN sys = 1..(next - 1)
    BY DEF IInv, Table
  <2>2. sys' = [h \in 1..(next - 1) |-> sys'[h]]
    BY <1>1, <2>1
  <2>. QED  BY <1>4, <2>2
<1>6. /\ files' \in [Place -> PlaceRec]
      /\ \A i \in Place : files'[i] = Free
  BY <1>2, FreePlace
<1>7. /\ CallOK(call', files')
      /\ next \in Nat \ {0} /\ \A i \in Place : PlaceOK(files'[i], next)
  BY <1>2, <1>6, FreePlace DEF IInv, Table, CallOK
<1>8. Table(files', next', call', sys')
  BY <1>2, <1>4, <1>5, <1>6, <1>7, FreePlace DEF Table
<1>9. Steady
  BY <1>4, <1>6, FreePlace DEF Steady
<1>10. status' \in {"run", "ok", "halt", "error", "io"}
  BY <1>1
<1>. QED  BY <1>2, <1>8, <1>9, <1>10 DEF IInv

-----------------------------------------------------------------------------
(* The invariant is inductive                                              *)

LEMMA InitInv == Init => IInv
<1>. SUFFICES ASSUME Init PROVE IInv
  OBVIOUS
<1>1. \A i \in Place : files[i] = Free
  BY DEF Init
<1>2. files \in [Place -> PlaceRec] /\ next = 1 /\ call = NoCall
  BY FreePlace DEF Init
<1>3. \A h \in 1..(next - 1) : FALSE
  BY <1>2
<1>4. sys \in [1..(next - 1) -> EndRec]
  BY <1>2, <1>3 DEF Init
<1>5. call \in CallRec /\ call.op = "none"
  BY <1>2 DEF NoCall, CallRec, Results
<1>6. Table(files, next, call, sys)
  BY <1>1, <1>2, <1>3, <1>4, <1>5, FreePlace DEF Table, CallOK
<1>. QED  BY <1>2, <1>6, FilesAssumption DEF IInv, Init

LEMMA NextInv == IInv /\ [Next]_vars => IInv' /\ (Steady \/ UNCHANGED vars)
<1>. SUFFICES ASSUME IInv, [Next]_vars
              PROVE  IInv' /\ (Steady \/ UNCHANGED vars)
  OBVIOUS
<1>1. CASE \E mode \in Mode : Open(mode)
  BY <1>1, OpenStep
<1>2. CASE \E h \in 0..(MaxOpens + 1) : BadHandle(h) \/ Flush(h) \/ Close(h)
  BY <1>2, BadHandleStep, FlushStep, CloseStep
<1>3. CASE \E h \in Handle, data \in Data : Write(h, data)
  BY <1>3, WriteStep
<1>4. CASE \E h \in Handle, n \in 0..MaxLen : Read(h, n)
  BY <1>4, ReadStep
<1>5. CASE \E h \in Handle : ReadLine(h)
  BY <1>5, ReadLineStep
<1>6. CASE \E h \in Handle, b \in Byte : Grow(h, b)
  BY <1>6, GrowStep
<1>7. CASE Step
  BY <1>7, WriteOnStep, ReadDoneStep, FillStep, CopyStep DEF Step
<1>8. CASE \E own \in {"ok", "halt", "error"} : EndRun(own)
  BY <1>8, EndRunStep
<1>9. CASE UNCHANGED vars
  BY <1>9 DEF IInv, vars
<1>. QED  BY <1>1, <1>2, <1>3, <1>4, <1>5, <1>6, <1>7, <1>8, <1>9 DEF Next

LEMMA InvHolds == Spec => []IInv
<1>1. Init => IInv
  BY InitInv
<1>2. IInv /\ [Next]_vars => IInv'
  BY NextInv
<1>. QED  BY <1>1, <1>2, PTL DEF Spec

-----------------------------------------------------------------------------
(* The theorems                                                            *)

\* The table of efiles, the handles and the call stay what the code takes
\* them for: in particular at never passes the bytes of the buffer, and the
\* buffer of a file written is never left full.
THEOREM TypeCorrect == Spec => []TypeOK
<1>1. IInv => TypeOK
  <2>. SUFFICES ASSUME IInv PROVE TypeOK
    OBVIOUS
  <2>1. next \in 1..(MaxOpens + 1) /\ calls \in 0..MaxCalls
    BY FilesAssumption DEF IInv, Table
  <2>2. DOMAIN sys = 1..(next - 1)
    BY DEF IInv, Table
  <2>3. ASSUME NEW i \in Place
        PROVE  LET f == files[i] IN
               /\ f.handle \in 0..(next - 1) /\ f.mode \in Mode
               /\ f.end \in BOOLEAN
               /\ f.at \in 0..Len(f.buf) /\ Len(f.buf) <= FilesBuf
               /\ f.mode # 0 => ~f.end /\ f.at = 0 /\ Len(f.buf) < FilesBuf
    <3>1. PlaceOK(files[i], next)
      BY DEF IInv, Table
    <3>2. /\ files[i].handle \in Nat /\ files[i].handle < next
          /\ files[i].mode \in Mode /\ files[i].end \in BOOLEAN
          /\ files[i].buf \in Bytes /\ files[i].at \in Nat
          /\ files[i].at <= Len(files[i].buf)
      BY <3>1 DEF PlaceOK, PlaceRec, Bytes
    <3>3. files[i].handle \in 0..(next - 1)
      BY <2>1, <3>2
    <3>4. files[i].at \in 0..Len(files[i].buf)
      BY <3>2, LenNat
    <3>. QED  BY <3>1, <3>2, <3>3, <3>4 DEF PlaceOK
  <2>4. call.op = "none" => call.res \in Results
    BY DEF IInv, Table, CallOK, CallRec
  <2>. QED  BY <2>1, <2>2, <2>3, <2>4 DEF TypeOK, IInv, Results
<1>. QED  BY <1>1, InvHolds, PTL

\* Every byte given to files_write is in the buffer of its file, or went to
\* the system in order, or was dropped by an error the program or the end
\* of the run told of, for every size of the buffer and every way the
\* system cuts a write.
THEOREM NothingIsLost == Spec => []NothingLost
<1>1. IInv => NothingLost
  <2>. SUFFICES ASSUME IInv, NEW h \in DOMAIN sys
                PROVE  sys[h].out \o Pending(h) = sys[h].acc
    BY DEF NothingLost
  <2>1. /\ h \in 1..(next - 1) /\ sys[h] \in EndRec
    BY DEF IInv, Table
  <2>2. sys[h].out \in Bytes
    BY <2>1 DEF EndRec, Bytes
  <2>. DEFINE open == {i \in Find(h) : files[i].mode # 0}
  <2>3. CASE open = {}
    <3>1. Pending(h) = <<>>
      BY <2>3 DEF Pending
    <3>2. sys[h].out = sys[h].acc
      <4>1. CASE \A i \in Place : files[i].handle # h
        BY <2>1, <4>1 DEF IInv, Table
      <4>2. CASE \E i \in Place : files[i].handle = h
        <5>1. PICK i \in Place : files[i].handle = h
          BY <4>2
        <5>2. files[i].mode = 0 /\ files[i].handle # 0
          BY <2>1, <2>3, <5>1 DEF Find
        <5>3. Agree(files[i], sys[h], Partial(call, i))
          BY <5>1, <5>2, AtPlace
        <5>. QED  BY <5>2, <5>3 DEF Agree
      <4>. QED  BY <4>1, <4>2
    <3>. QED  BY <2>2, <3>1, <3>2, JoinedEmpty
  <2>4. CASE open # {}
    <3>. DEFINE i == CHOOSE j \in open : TRUE
    <3>1. i \in open
      BY <2>4
    <3>2. Pending(h) = files[i].buf
      BY <2>4 DEF Pending
    <3>. HIDE DEF i
    <3>3. /\ i \in Place /\ files[i].handle # 0 /\ files[i].handle = h
          /\ files[i].mode # 0
      BY <3>1 DEF Find
    <3>4. Agree(files[i], sys[h], Partial(call, i))
      BY <3>3, AtPlace
    <3>. QED  BY <3>2, <3>3, <3>4 DEF Agree
  <2>. QED  BY <2>3, <2>4
<1>. QED  BY <1>1, InvHolds, PTL

\* The buffer of files_write goes out when it is full, at a flush and at a
\* close, never before, whatever its size and however the calls cut their
\* bytes.
THEOREM WrittenOnlyWhenFull == Spec => []WrittenWhenFull
<1>1. IInv => WrittenWhenFull
  <2>. SUFFICES ASSUME IInv, NEW i \in Place, files[i].handle # 0,
                       files[i].mode # 0
                PROVE  Len(files[i].buf) =
                         (Len(sys[files[i].handle].acc)
                            - sys[files[i].handle].mark) % FilesBuf
    BY DEF WrittenWhenFull
  <2>1. Agree(files[i], sys[files[i].handle], Partial(call, i))
    BY AtPlace
  <2>. QED  BY <2>1 DEF Agree
<1>. QED  BY <1>1, InvHolds, PTL

\* files_read and files_read_line skip no byte of a file and give none
\* twice, whatever the system gives at a time.
THEOREM NothingIsSkipped == Spec => []NothingSkipped
<1>1. IInv => NothingSkipped
  <2>. SUFFICES ASSUME IInv, NEW i \in Place, files[i].handle # 0,
                       files[i].mode = 0
                PROVE  LET x == sys[files[i].handle]
                           d == IF Reading /\ call.at = i THEN call.d ELSE <<>>
                       IN x.got \o d \o Unread(files[i]) \o x.src = x.all
    BY DEF NothingSkipped
  <2>1. Agree(files[i], sys[files[i].handle], Partial(call, i))
    BY AtPlace
  <2>. QED  BY <2>1 DEF Agree, Partial, Reading
<1>. QED  BY <1>1, InvHolds, PTL

\* fill marks the end of a file only where a read of the system gave
\* nothing because nothing was left.
THEOREM EndIsMet == Spec => EndMet
<1>1. IInv /\ [Next]_vars =>
        [\A i \in Place :
           files'[i].end /\ ~files[i].end => sys[files[i].handle].src = <<>>]_vars
  BY NextInv DEF Steady
<1>. QED  BY <1>1, InvHolds, PTL DEF Spec, EndMet

\* Once a read told the program of the end of a file, no later read of the
\* handle gives a byte, also of a file that grew.
THEOREM EndIsFinal == Spec => EndFinal
<1>1. IInv /\ [Next]_vars =>
        [\A h \in DOMAIN sys : sys[h].ended => sys'[h].got = sys[h].got]_vars
  <2>1. IInv => DOMAIN sys = 1..(next - 1)
    BY DEF IInv, Table
  <2>. QED  BY <2>1, NextInv DEF Steady
<1>. QED  BY <1>1, InvHolds, PTL DEF Spec, EndFinal

\* The handle of a file closed is never given again, and names no file.
THEOREM HandleIsOnce == Spec => HandleOnce
<1>1. IInv /\ [Next]_vars =>
        [\A h \in 1..(next - 1) : Find(h) = {} => Find(h)' = {}]_vars
  <2>. SUFFICES ASSUME IInv, [Next]_vars, ~UNCHANGED vars,
                       NEW h \in 1..(next - 1), Find(h) = {}
                PROVE  Find(h)' = {}
    OBVIOUS
  <2>1. Steady /\ h > 0
    BY NextInv DEF IInv, Table
  <2>2. \A i \in Place : files[i].handle # h
    BY <2>1 DEF Find
  <2>3. \A i \in Place : files'[i].handle # h
    BY <2>1, <2>2 DEF Steady
  <2>. QED  BY <2>3 DEF Find
<1>. QED  BY <1>1, InvHolds, PTL DEF Spec, HandleOnce

=============================================================================
