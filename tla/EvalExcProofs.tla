---------------------------- MODULE EvalExcProofs ----------------------------
(***************************************************************************)
(* What EvalExc keeps for every depth, number of steps and set of indices, *)
(* positions and messages: the types, that nothing of an exception dealt   *)
(* with is left, the places of the par_for running, that what no handler   *)
(* may catch stops the run, and that the run implements Occurrences for    *)
(* the programs that Regular names.                                        *)
(***************************************************************************)
EXTENDS EvalExc, FiniteSetTheorems, SequenceTheorems, TLAPS

-----------------------------------------------------------------------------
(* The inductive invariant                                                 *)

\* The calls of fs that run a par_for.
Loops(fs) == {d \in 1..Len(fs) : fs[d].par # NoPar}

\* The par_for of the calls fs keep their messages in msgs, one each, the
\* outermost first.
Slots(fs, msgs) ==
  /\ \A d \in Loops(fs) :
       fs[d].par.slot \in 1..Len(msgs) /\ fs[d].par.slot <= d
  /\ \A d \in Loops(fs), e \in Loops(fs) :
       d < e => fs[d].par.slot < fs[e].par.slot
  /\ \A k \in 1..Len(msgs) : \E d \in Loops(fs) : fs[d].par.slot = k

\* A par_for goes on while its index is one of those asked, it has one for
\* the call it runs, its position is that of an instruction, and what it
\* keeps of an exception is one.
Kept(fs, msgs) ==
  \A d \in Loops(fs) :
    /\ fs[d].par.more => fs[d].par.i <= fs[d].par.hi
    /\ d < Len(fs) => fs[d].par.more
    /\ fs[d].inst \in InstPos
    /\ fs[d].par.raised =>
         fs[d].par.code \in Code /\ msgs[fs[d].par.slot] \in Msg

\* The state of calls and messages.
Shape(fs, msgs) ==
  /\ fs \in Seq(Frame) /\ Len(fs) <= MaxDepth /\ msgs \in Seq(Str)
  /\ Slots(fs, msgs) /\ Kept(fs, msgs)

\* The fields of an exception; those of one that is on its way.
Fields == [status : Status, code : Code \cup {0}, pos : Pos,
           pos_given : BOOLEAN, exc_msg : Str]
Failures ==
  {x \in Fields :
     /\ x.status # "ok"
     /\ x.status = "trap" => x.code \in Code
     /\ x.pos_given =>
          /\ x.status = "trap"
          /\ x.exc_msg = Nil => <<x.code, Nil>> \in Raises}

\* No call that x leaves gives it a position, unless an instruction has none.
Placed(x) ==
  x.status = "trap" => x.pos # 0 \/ x.pos_given \/ 0 \in InstPos

\* Nothing failed, and no field is left of what did; or something did, and
\* the call that it leaves runs no par_for.
Settled(fs, x, well) ==
  IF well THEN x = NoExc
  ELSE x \in Failures /\ (fs # <<>> => fs[Len(fs)].par = NoPar /\ Placed(x))

IInv ==
  /\ Shape(frames, par_msgs)
  /\ exc \in Fields /\ ok \in BOOLEAN /\ steps \in 0..MaxSteps
  /\ got \in {None} \cup [id : Code, pos : Pos, msg : Str]
  /\ phase \in {"start", "run", "end"}
  /\ phase # "end" => Settled(frames, exc, ok)
  /\ phase = "start" => frames = <<>> /\ ok
  /\ phase = "end" => frames = <<>>

-----------------------------------------------------------------------------
(* Calls and the messages of their par_for, as sequences                   *)

Outer(s) == SubSeq(s, 1, Len(s) - 1)

LEMMA OuterSeq ==
  ASSUME NEW S, NEW s \in Seq(S), s # <<>>
  PROVE  /\ Outer(s) \in Seq(S) /\ Len(Outer(s)) = Len(s) - 1
         /\ Len(s) \in Nat \ {0} /\ s[Len(s)] \in S
         /\ \A i \in 1..(Len(s) - 1) : Outer(s)[i] = s[i]
<1>1. Len(s) \in Nat \ {0}
  BY EmptySeq
<1>2. \A i \in 1..(Len(s) - 1) : s[i] \in S
  BY <1>1, ElementOfSeq
<1>3. s[Len(s)] \in S
  BY <1>1, ElementOfSeq
<1>4. /\ Outer(s) \in Seq(S)
      /\ Len(Outer(s)) = IF 1 <= Len(s) - 1 THEN Len(s) - 1 - 1 + 1 ELSE 0
      /\ \A i \in 1..(Len(s) - 1 - 1 + 1) : Outer(s)[i] = s[1 + i - 1]
  BY <1>1, <1>2, SubSeqProperties, Z3 DEF Outer
<1>5. ASSUME NEW i \in 1..(Len(s) - 1)
      PROVE  Outer(s)[i] = s[i]
  <2>1. i \in 1..(Len(s) - 1 - 1 + 1) /\ 1 + i - 1 = i
    BY <1>1
  <2>2. Outer(s)[i] = s[1 + i - 1]
    BY <1>4, <2>1
  <2>. QED  BY <2>1, <2>2
<1>6. Len(Outer(s)) = Len(s) - 1
  <2>1. \A n \in Nat \ {0} : n - 1 = IF 1 <= n - 1 THEN n - 1 - 1 + 1 ELSE 0
    OBVIOUS
  <2>. QED  BY <1>1, <1>4, <2>1
<1>. QED  BY <1>1, <1>3, <1>4, <1>5, <1>6

LEMMA TopSeq ==
  ASSUME NEW S, NEW s \in Seq(S), s # <<>>, NEW e \in S
  PROVE  /\ SetTop(s, e) \in Seq(S) /\ Len(SetTop(s, e)) = Len(s)
         /\ SetTop(s, e) # <<>>
         /\ SetTop(s, e)[Len(s)] = e
         /\ \A i \in 1..(Len(s) - 1) : SetTop(s, e)[i] = s[i]
<1>1. Len(s) \in Nat \ {0}
  BY EmptySeq
<1>. QED  BY <1>1, ExceptSeq, EmptySeq DEF SetTop

\* What Occurrences sees of a par_for with message m, and of all of them.
Seen(par, m) ==
  [todo  |-> IF par.more THEN par.i..par.hi ELSE {},
   first |-> IF par.raised
             THEN [id |-> par.code, pos |-> par.pos, msg |-> m]
             ELSE None]
ParOf(fs, k) ==
  LET d == CHOOSE d \in 1..Len(fs) :
             fs[d].par # NoPar /\ fs[d].par.slot = k
  IN  fs[d].par
AllSeen(fs, msgs) == [k \in 1..Len(msgs) |-> Seen(ParOf(fs, k), msgs[k])]

LEMMA FrameType ==
  ASSUME NEW fs \in Seq(Frame), NEW d \in 1..Len(fs)
  PROVE  /\ fs[d] \in Frame /\ fs[d].handler \in BOOLEAN /\ fs[d].inst \in Pos
         /\ fs[d].par # NoPar => fs[d].par \in ParFrame
         /\ fs[d] = [handler |-> fs[d].handler, inst |-> fs[d].inst, par |-> fs[d].par]
<1>1. fs[d] \in Frame
  BY ElementOfSeq
<1>. QED  BY <1>1 DEF Frame

\* The places are those of the par_for: each has one.
LEMMA ParOfSlot ==
  ASSUME NEW fs, NEW msgs, Shape(fs, msgs), NEW d \in Loops(fs)
  PROVE  ParOf(fs, fs[d].par.slot) = fs[d].par
<1>. DEFINE k == fs[d].par.slot
            c == CHOOSE e \in 1..Len(fs) : fs[e].par # NoPar /\ fs[e].par.slot = k
<1>1. c \in Loops(fs) /\ fs[c].par.slot = k
  BY DEF Loops
<1>2. Len(fs) \in Nat
  BY LenProperties DEF Shape
<1>3. c = d
  <2>1. k \in Int
    <3>1. fs[d].par \in ParFrame
      BY FrameType DEF Loops, Shape
    <3>. QED  BY <3>1 DEF ParFrame
  <2>2. c \in Int /\ d \in Int
    BY <1>1, <1>2 DEF Loops
  <2>3. ~(c < d) /\ ~(d < c)
    BY <1>1, <2>1 DEF Shape, Slots
  <2>. QED  BY <2>2, <2>3
<1>. QED  BY <1>3 DEF ParOf

\* What is seen of a par_for.
View == [todo : SUBSET Int,
         first : {None} \cup [id : Code, pos : Pos, msg : Str]]

LEMMA SeenType ==
  ASSUME NEW fs, NEW msgs, Shape(fs, msgs), NEW d \in Loops(fs)
  PROVE  Seen(fs[d].par, msgs[fs[d].par.slot]) \in View
<1>1. fs[d].par \in ParFrame
  BY FrameType DEF Loops, Shape
<1>. DEFINE par == fs[d].par
            m == msgs[par.slot]
<1>2. par.raised => par.code \in Code /\ m \in Msg
  BY DEF Shape, Kept
<1>3. par.lo \in Int /\ par.i \in Int /\ par.hi \in Int /\ par.pos \in Pos
  BY <1>1, LimitAssumption DEF ParFrame, Index
<1>. HIDE DEF par, m
<1>4. (IF par.more THEN par.i..par.hi ELSE {}) \in SUBSET Int
  BY <1>3
<1>5. (IF par.raised
       THEN [id |-> par.code, pos |-> par.pos, msg |-> m]
       ELSE None) \in {None} \cup [id : Code, pos : Pos, msg : Str]
  BY <1>2, <1>3 DEF Str
<1>6. Seen(par, m) \in View
  BY <1>4, <1>5 DEF Seen, View
<1>. QED  BY <1>6 DEF par, m

\* How to tell what is seen.
LEMMA SeenOf ==
  ASSUME NEW fs, NEW msgs, Shape(fs, msgs)
  PROVE  /\ AllSeen(fs, msgs) \in Seq(View)
         /\ Len(AllSeen(fs, msgs)) = Len(msgs)
         /\ \A d \in Loops(fs) :
              AllSeen(fs, msgs)[fs[d].par.slot] = Seen(fs[d].par, msgs[fs[d].par.slot])
<1>1. Len(msgs) \in Nat
  BY LenProperties DEF Shape
<1>2. ASSUME NEW k \in 1..Len(msgs)
      PROVE  Seen(ParOf(fs, k), msgs[k]) \in View
  <2>1. PICK d \in Loops(fs) : fs[d].par.slot = k
    BY <1>2 DEF Shape, Slots
  <2>. QED  BY <2>1, ParOfSlot, SeenType
<1>3. AllSeen(fs, msgs) \in [1..Len(msgs) -> View]
  BY <1>2 DEF AllSeen
<1>4. AllSeen(fs, msgs) \in Seq(View)
  BY <1>1, <1>3, SeqDef
<1>5. Len(AllSeen(fs, msgs)) = Len(msgs)
  BY <1>1, <1>3, <1>4, LenProperties
<1>6. ASSUME NEW d \in Loops(fs)
      PROVE  AllSeen(fs, msgs)[fs[d].par.slot] = Seen(fs[d].par, msgs[fs[d].par.slot])
  BY <1>6, ParOfSlot DEF AllSeen, Shape, Slots
<1>. QED  BY <1>4, <1>5, <1>6

\* P has what every par_for of fs shows.
Shows(P, fs, msgs) ==
  /\ P \in Seq(View) /\ Len(P) = Len(msgs)
  /\ \A d \in Loops(fs) :
       P[fs[d].par.slot] = Seen(fs[d].par, msgs[fs[d].par.slot])

LEMMA SeenIs ==
  ASSUME NEW fs, NEW msgs, Shape(fs, msgs), NEW P, Shows(P, fs, msgs)
  PROVE  AllSeen(fs, msgs) = P
<1>1. /\ P \in Seq(View) /\ Len(P) = Len(msgs)
      /\ \A d \in Loops(fs) :
           P[fs[d].par.slot] = Seen(fs[d].par, msgs[fs[d].par.slot])
  BY DEF Shows
<1>2. AllSeen(fs, msgs) \in Seq(View) /\ Len(AllSeen(fs, msgs)) = Len(msgs)
  BY SeenOf
<1>3. ASSUME NEW k \in 1..Len(msgs)
      PROVE  AllSeen(fs, msgs)[k] = P[k]
  <2>1. PICK d \in Loops(fs) : fs[d].par.slot = k
    BY <1>3 DEF Shape, Slots
  <2>2. AllSeen(fs, msgs)[k] = Seen(fs[d].par, msgs[k])
    BY <2>1, SeenOf
  <2>. QED  BY <1>1, <2>1, <2>2
<1>. QED  BY <1>1, <1>2, <1>3, SeqEqual

-----------------------------------------------------------------------------
(* What each change of the calls does to their par_for                     *)

\* The par_for after the innermost call changes, one is entered, one leaves.
LEMMA SetLoops ==
  ASSUME NEW fs \in Seq(Frame), fs # <<>>, NEW f \in Frame
  PROVE  /\ SetTop(fs, f) \in Seq(Frame) /\ SetTop(fs, f) # <<>>
         /\ Len(SetTop(fs, f)) = Len(fs)
         /\ SetTop(fs, f)[Len(fs)] = f
         /\ f.par = NoPar => Loops(SetTop(fs, f)) = Loops(fs) \ {Len(fs)}
         /\ f.par # NoPar => Loops(SetTop(fs, f)) = Loops(fs) \cup {Len(fs)}
         /\ \A d \in Loops(fs) \ {Len(fs)} : SetTop(fs, f)[d] = fs[d]
<1>1. Len(fs) \in Nat \ {0}
  BY OuterSeq
<1>. DEFINE n == Len(fs)
            s == SetTop(fs, f)
<1>2. /\ s \in Seq(Frame) /\ s # <<>> /\ Len(s) = n /\ s[n] = f
      /\ \A i \in 1..(n - 1) : s[i] = fs[i]
  BY TopSeq
<1>3. 1..n = 1..(n - 1) \cup {n} /\ n \notin 1..(n - 1)
  BY <1>1
<1>4. \A d \in 1..n : d = n \/ s[d] = fs[d]
  BY <1>2, <1>3
<1>. HIDE DEF s
<1>5. /\ f.par = NoPar => Loops(s) = Loops(fs) \ {n}
      /\ f.par # NoPar => Loops(s) = Loops(fs) \cup {n}
  BY <1>2, <1>3, <1>4 DEF Loops
<1>6. \A d \in Loops(fs) \ {n} : s[d] = fs[d]
  BY <1>4 DEF Loops
<1>. QED  BY <1>2, <1>5, <1>6 DEF s

LEMMA AppendLoops ==
  ASSUME NEW fs \in Seq(Frame), NEW f \in Entered
  PROVE  /\ Append(fs, f) \in Seq(Frame) /\ Append(fs, f) # <<>>
         /\ Len(Append(fs, f)) = Len(fs) + 1 /\ Len(fs) \in Nat
         /\ Append(fs, f)[Len(fs) + 1].par = NoPar
         /\ Loops(Append(fs, f)) = Loops(fs)
         /\ \A d \in Loops(fs) : Append(fs, f)[d] = fs[d]
<1>1. f \in Frame /\ f.par = NoPar
  BY PosAssumption DEF Entered, Frame
<1>. DEFINE n == Len(fs)
            s == Append(fs, f)
<1>2. n \in Nat
  BY LenProperties
<1>3. /\ s \in Seq(Frame) /\ s # <<>> /\ Len(s) = n + 1 /\ s[n + 1] = f
      /\ \A i \in 1..n : s[i] = fs[i]
  BY <1>1, AppendProperties
<1>4. 1..(n + 1) = 1..n \cup {n + 1}
  BY <1>2
<1>. HIDE DEF s
<1>5. Loops(s) = Loops(fs)
  BY <1>1, <1>3, <1>4 DEF Loops
<1>6. \A d \in Loops(fs) : s[d] = fs[d]
  BY <1>3 DEF Loops
<1>. QED  BY <1>1, <1>2, <1>3, <1>5, <1>6 DEF s

LEMMA OuterLoops ==
  ASSUME NEW fs \in Seq(Frame), fs # <<>>
  PROVE  /\ Outer(fs) \in Seq(Frame) /\ Len(Outer(fs)) = Len(fs) - 1
         /\ Loops(Outer(fs)) = Loops(fs) \ {Len(fs)}
         /\ \A d \in Loops(fs) \ {Len(fs)} : Outer(fs)[d] = fs[d]
<1>. DEFINE n == Len(fs)
            s == Outer(fs)
<1>1. /\ n \in Nat \ {0} /\ s \in Seq(Frame) /\ Len(s) = n - 1
      /\ \A i \in 1..(n - 1) : s[i] = fs[i]
  BY OuterSeq
<1>2. 1..(n - 1) = 1..n \ {n}
  BY <1>1
<1>. HIDE DEF s
<1>3. Loops(s) = Loops(fs) \ {n}
  BY <1>1, <1>2 DEF Loops
<1>4. \A d \in Loops(fs) \ {n} : s[d] = fs[d]
  BY <1>1, <1>2 DEF Loops
<1>. QED  BY <1>1, <1>3, <1>4 DEF s

\* The calls change, their par_for do not.
LEMMA Keep ==
  ASSUME NEW fs, NEW msgs, Shape(fs, msgs),
         NEW fs2 \in Seq(Frame), Len(fs2) <= MaxDepth,
         Loops(fs2) = Loops(fs),
         \A d \in Loops(fs) : fs2[d] = fs[d],
         \A d \in Loops(fs) : d < Len(fs2) => fs[d].par.more
  PROVE  Shape(fs2, msgs) /\ AllSeen(fs2, msgs) = AllSeen(fs, msgs)
<1>1. Slots(fs2, msgs)
  BY DEF Shape, Slots
<1>2. Kept(fs2, msgs)
  BY DEF Shape, Kept
<1>3. Shape(fs2, msgs)
  BY <1>1, <1>2 DEF Shape
<1>. DEFINE P == AllSeen(fs, msgs)
<1>4. /\ P \in Seq(View) /\ Len(P) = Len(msgs)
      /\ \A d \in Loops(fs2) :
           P[fs2[d].par.slot] = Seen(fs2[d].par, msgs[fs2[d].par.slot])
  BY SeenOf
<1>. HIDE DEF P
<1>5. AllSeen(fs2, msgs) = P
  <2>1. Shows(P, fs2, msgs)
    BY <1>4 DEF Shows
  <2>. QED  BY <1>3, <2>1, SeenIs
<1>. QED  BY <1>3, <1>5 DEF P

\* The par_for of the innermost call has the last message.
LEMMA TopLoop ==
  ASSUME NEW fs, NEW msgs, Shape(fs, msgs), fs # <<>>,
         fs[Len(fs)].par # NoPar
  PROVE  /\ Len(fs) \in Loops(fs) /\ Len(fs) \in Nat \ {0}
         /\ fs[Len(fs)].par \in ParFrame
         /\ fs[Len(fs)].par.slot = Len(msgs)
         /\ msgs # <<>> /\ Len(msgs) \in Nat \ {0}
         /\ fs[Len(fs)].par.slot \in 1..Len(msgs)
         /\ \A d \in Loops(fs) \ {Len(fs)} :
              d < Len(fs) /\ fs[d].par.slot \in 1..(Len(msgs) - 1)
<1>. DEFINE n == Len(fs)
            m == Len(msgs)
<1>1. n \in Nat \ {0} /\ m \in Nat
  BY OuterSeq, LenProperties DEF Shape
<1>2. n \in Loops(fs)
  BY <1>1 DEF Loops
<1>3. \A d \in Loops(fs) : d \in 1..n /\ fs[d].par \in ParFrame
  BY FrameType DEF Loops, Shape
<1>4. \A d \in Loops(fs) \ {n} : d < n
  BY <1>1, <1>3
<1>5. \A d \in Loops(fs) \ {n} :
        fs[d].par.slot \in 1..m /\ fs[d].par.slot < fs[n].par.slot
  BY <1>2, <1>4 DEF Shape, Slots
<1>6. fs[n].par.slot \in 1..m
  BY <1>2 DEF Shape, Slots
<1>7. m \in 1..m
  BY <1>1, <1>6
<1>8. PICK e \in Loops(fs) : fs[e].par.slot = m
  BY <1>7 DEF Shape, Slots
<1>9. fs[n].par.slot = m
  BY <1>1, <1>5, <1>6, <1>8
<1>10. \A d \in Loops(fs) \ {n} : fs[d].par.slot \in 1..(m - 1)
  BY <1>1, <1>5, <1>9
<1>11. msgs # <<>>
  BY <1>1, <1>6, EmptySeq
<1>. QED  BY <1>1, <1>2, <1>3, <1>4, <1>6, <1>9, <1>10, <1>11

\* The innermost par_for ends: its message goes with it.
LEMMA Drop ==
  ASSUME NEW fs, NEW msgs, Shape(fs, msgs), fs # <<>>,
         fs[Len(fs)].par # NoPar
  PROVE  LET fs2 == SetTop(fs, [fs[Len(fs)] EXCEPT !.par = NoPar])
             msgs2 == SubSeq(msgs, 1, fs[Len(fs)].par.slot - 1)
         IN  /\ Shape(fs2, msgs2) /\ fs2 # <<>> /\ fs2[Len(fs2)].par = NoPar
             /\ AllSeen(fs2, msgs2) = Outer(AllSeen(fs, msgs))
             /\ AllSeen(fs, msgs) # <<>>
<1>. DEFINE n == Len(fs)
            m == Len(msgs)
            f == [fs[n] EXCEPT !.par = NoPar]
            fs2 == SetTop(fs, f)
            msgs2 == Outer(msgs)
<1>1. /\ n \in Loops(fs) /\ n \in Nat \ {0} /\ fs[n].par.slot = m
      /\ msgs # <<>> /\ m \in Nat \ {0}
      /\ \A d \in Loops(fs) \ {n} : d < n /\ fs[d].par.slot \in 1..(m - 1)
  BY TopLoop
<1>2. fs \in Seq(Frame) /\ msgs \in Seq(Str)
  BY DEF Shape
<1>3. f \in Frame /\ f.par = NoPar
  BY <1>1, <1>2, FrameType DEF Loops, Frame
<1>4. SubSeq(msgs, 1, fs[n].par.slot - 1) = msgs2
  BY <1>1 DEF Outer
<1>. HIDE DEF f
<1>5. /\ fs2 \in Seq(Frame) /\ fs2 # <<>> /\ Len(fs2) = n /\ fs2[n] = f
      /\ Loops(fs2) = Loops(fs) \ {n}
      /\ \A d \in Loops(fs2) : fs2[d] = fs[d]
  <2>1. /\ fs2 \in Seq(Frame) /\ fs2 # <<>> /\ Len(fs2) = n /\ fs2[n] = f
        /\ Loops(fs2) = Loops(fs) \ {n}
        /\ \A d \in Loops(fs) \ {n} : fs2[d] = fs[d]
    BY <1>2, <1>3, SetLoops
  <2>. HIDE DEF fs2
  <2>. QED  BY <2>1
<1>6. /\ msgs2 \in Seq(Str) /\ Len(msgs2) = m - 1
      /\ \A i \in 1..(m - 1) : msgs2[i] = msgs[i]
  BY <1>1, <1>2, OuterSeq
<1>. HIDE DEF fs2, msgs2
<1>7. Slots(fs2, msgs2)
  <2>1. \A d \in Loops(fs2) :
          fs2[d].par.slot \in 1..Len(msgs2) /\ fs2[d].par.slot <= d
    BY <1>1, <1>5, <1>6 DEF Shape, Slots
  <2>2. \A d \in Loops(fs2), e \in Loops(fs2) :
          d < e => fs2[d].par.slot < fs2[e].par.slot
    BY <1>5 DEF Shape, Slots
  <2>3. ASSUME NEW k \in 1..Len(msgs2)
        PROVE  \E d \in Loops(fs2) : fs2[d].par.slot = k
    <3>1. k \in 1..m /\ k # m
      BY <1>1, <1>6
    <3>2. PICK d \in Loops(fs) : fs[d].par.slot = k
      BY <3>1 DEF Shape, Slots
    <3>. QED  BY <1>1, <1>5, <3>1, <3>2
  <2>. QED  BY <2>1, <2>2, <2>3 DEF Slots
<1>8. Kept(fs2, msgs2)
  BY <1>1, <1>5, <1>6 DEF Shape, Kept
<1>9. Shape(fs2, msgs2)
  BY <1>5, <1>6, <1>7, <1>8 DEF Shape
<1>. DEFINE Q == AllSeen(fs, msgs)
            P == Outer(Q)
<1>10. /\ Q \in Seq(View) /\ Len(Q) = m
       /\ \A d \in Loops(fs) :
            Q[fs[d].par.slot] = Seen(fs[d].par, msgs[fs[d].par.slot])
  BY SeenOf
<1>11. Q # <<>>
  BY <1>1, <1>10, EmptySeq
<1>. HIDE DEF Q
<1>12. /\ P \in Seq(View) /\ Len(P) = m - 1
       /\ \A i \in 1..(m - 1) : P[i] = Q[i]
  BY <1>10, <1>11, OuterSeq
<1>. HIDE DEF P
<1>13. \A d \in Loops(fs2) :
         P[fs2[d].par.slot] = Seen(fs2[d].par, msgs2[fs2[d].par.slot])
  BY <1>1, <1>5, <1>6, <1>10, <1>12
<1>14. AllSeen(fs2, msgs2) = P
  <2>1. Shows(P, fs2, msgs2)
    BY <1>6, <1>12, <1>13 DEF Shows
  <2>. QED  BY <1>9, <2>1, SeenIs
<1>. QED  BY <1>3, <1>4, <1>5, <1>9, <1>11, <1>14 DEF fs2, msgs2, f, P, Q

\* A frame whose par_for begins, with the given slot.
Begun(f, slot) ==
  /\ f \in [handler : BOOLEAN, inst : InstPos,
           par : [lo : Index, i : Index, hi : Index, more : BOOLEAN,
                  raised : BOOLEAN, code : Code \cup {0}, pos : Pos,
                  slot : {slot}]]
  /\ f.par.more => f.par.i <= f.par.hi
  /\ ~f.par.raised

\* A par_for begins: it gets the next message.
LEMMA Push ==
  ASSUME NEW fs, NEW msgs, Shape(fs, msgs), fs # <<>>,
         fs[Len(fs)].par = NoPar,
         \A d \in Loops(fs) : fs[d].par.more,
         NEW f, Begun(f, Len(msgs) + 1)
  PROVE  /\ Shape(SetTop(fs, f), Append(msgs, Nil))
         /\ AllSeen(SetTop(fs, f), Append(msgs, Nil))
              = Append(AllSeen(fs, msgs), Seen(f.par, Nil))
<1>. DEFINE n == Len(fs)
            m == Len(msgs)
            fs2 == SetTop(fs, f)
            msgs2 == Append(msgs, Nil)
<1>1. /\ fs \in Seq(Frame) /\ msgs \in Seq(Str) /\ n <= MaxDepth
      /\ n \in Nat \ {0} /\ m \in Nat
  BY OuterSeq, LenProperties DEF Shape
<1>2. \A d \in Loops(fs) : d \in 1..n /\ d # n /\ d < n
  BY <1>1 DEF Loops
<1>3. m + 1 <= n
  <2>1. CASE m = 0
    BY <1>1, <2>1
  <2>2. CASE m # 0
    <3>1. m \in 1..m
      BY <1>1, <2>2
    <3>2. PICK d \in Loops(fs) : fs[d].par.slot = m
      BY <3>1 DEF Shape, Slots
    <3>3. m <= d
      BY <3>2 DEF Shape, Slots
    <3>. QED  BY <1>1, <1>2, <3>2, <3>3
  <2>. QED  BY <2>1, <2>2
<1>4. /\ f.par \in ParFrame /\ f.par.slot = m + 1
      /\ f.par.more => f.par.i <= f.par.hi
      /\ ~f.par.raised
  BY <1>1, <1>3, LimitAssumption DEF Begun, ParFrame
<1>5. f \in Frame /\ f.par # NoPar /\ f.inst \in InstPos
  BY <1>4, NoneAssumption, PosAssumption DEF Begun, Frame
<1>6. /\ fs2 \in Seq(Frame) /\ fs2 # <<>> /\ Len(fs2) = n /\ fs2[n] = f
      /\ Loops(fs2) = Loops(fs) \cup {n}
      /\ \A d \in Loops(fs) : fs2[d] = fs[d]
  <2>1. /\ fs2 \in Seq(Frame) /\ fs2 # <<>> /\ Len(fs2) = n /\ fs2[n] = f
        /\ Loops(fs2) = Loops(fs) \cup {n}
        /\ \A d \in Loops(fs) \ {n} : fs2[d] = fs[d]
    BY <1>1, <1>5, SetLoops
  <2>. HIDE DEF fs2
  <2>. QED  BY <1>2, <2>1
<1>7. /\ msgs2 \in Seq(Str) /\ Len(msgs2) = m + 1 /\ msgs2[m + 1] = Nil
      /\ \A i \in 1..m : msgs2[i] = msgs[i]
  BY <1>1, AppendProperties DEF Str
<1>8. \A d \in Loops(fs) : fs[d].par.slot \in 1..m /\ fs[d].par.slot <= d
  BY DEF Shape, Slots
<1>. HIDE DEF fs2, msgs2
<1>9. Slots(fs2, msgs2)
  <2>1. \A d \in Loops(fs2) :
          fs2[d].par.slot \in 1..Len(msgs2) /\ fs2[d].par.slot <= d
    BY <1>1, <1>3, <1>4, <1>6, <1>7, <1>8
  <2>2. ASSUME NEW d \in Loops(fs2), NEW e \in Loops(fs2), d < e
        PROVE  fs2[d].par.slot < fs2[e].par.slot
    <3>1. d # n
      BY <1>1, <1>2, <1>6, <2>2
    <3>2. CASE e = n
      BY <1>1, <1>4, <1>6, <1>8, <3>1, <3>2
    <3>3. CASE e # n
      BY <1>6, <2>2, <3>1, <3>3 DEF Shape, Slots
    <3>. QED  BY <3>2, <3>3
  <2>3. ASSUME NEW k \in 1..Len(msgs2)
        PROVE  \E d \in Loops(fs2) : fs2[d].par.slot = k
    <3>1. CASE k = m + 1
      BY <1>4, <1>6, <3>1
    <3>2. CASE k # m + 1
      <4>1. k \in 1..m
        BY <1>1, <1>7, <3>2
      <4>2. PICK d \in Loops(fs) : fs[d].par.slot = k
        BY <4>1 DEF Shape, Slots
      <4>. QED  BY <1>6, <4>2
    <3>. QED  BY <3>1, <3>2
  <2>. QED  BY <2>1, <2>2, <2>3 DEF Slots
<1>10. Kept(fs2, msgs2)
  <2>1. \A d \in Loops(fs) : d \in 1..n /\ d < n
    BY <1>2
  <2>2. ASSUME NEW d \in Loops(fs2)
        PROVE  /\ fs2[d].par.more => fs2[d].par.i <= fs2[d].par.hi
               /\ d < n => fs2[d].par.more
               /\ fs2[d].inst \in InstPos
               /\ fs2[d].par.raised =>
                    fs2[d].par.code \in Code /\ msgs2[fs2[d].par.slot] \in Msg
    <3>1. CASE d = n
      BY <1>1, <1>4, <1>5, <1>6, <3>1
    <3>2. CASE d \in Loops(fs)
      BY <1>6, <1>7, <1>8, <3>2 DEF Shape, Kept
    <3>. QED  BY <1>6, <3>1, <3>2
  <2>. QED  BY <1>6, <2>2 DEF Kept
<1>11. Shape(fs2, msgs2)
  BY <1>1, <1>6, <1>7, <1>9, <1>10 DEF Shape
<1>. DEFINE Q == AllSeen(fs, msgs)
            v == Seen(f.par, Nil)
            P == Append(Q, v)
<1>12. /\ Q \in Seq(View) /\ Len(Q) = m
       /\ \A d \in Loops(fs) :
            Q[fs[d].par.slot] = Seen(fs[d].par, msgs[fs[d].par.slot])
  BY SeenOf
<1>13. v \in View
  BY <1>4, <1>6, <1>7, <1>11, SeenType
<1>. HIDE DEF Q, v
<1>14. /\ P \in Seq(View) /\ Len(P) = m + 1 /\ P[m + 1] = v
       /\ \A i \in 1..m : P[i] = Q[i]
  BY <1>12, <1>13, AppendProperties
<1>. HIDE DEF P
<1>15. ASSUME NEW d \in Loops(fs2)
       PROVE  P[fs2[d].par.slot] = Seen(fs2[d].par, msgs2[fs2[d].par.slot])
  <2>1. CASE d = n
    BY <1>4, <1>6, <1>7, <1>14, <2>1 DEF v
  <2>2. CASE d \in Loops(fs)
    BY <1>6, <1>7, <1>8, <1>12, <1>14, <2>2
  <2>. QED  BY <1>6, <2>1, <2>2
<1>16. Len(P) = Len(msgs2) /\ P \in Seq(View)
  BY <1>7, <1>14
<1>17. AllSeen(fs2, msgs2) = P
  <2>1. Shows(P, fs2, msgs2)
    BY <1>15, <1>16 DEF Shows
  <2>. QED  BY <1>11, <2>1, SeenIs
<1>. QED  BY <1>11, <1>17 DEF fs2, msgs2, P, Q, v

SetAt(s, k, e) == [s EXCEPT ![k] = e]

\* What a par_for and its message x may become in the place of old.
Fits(par, old, x) ==
  /\ par \in ParFrame /\ par.slot = old.slot
  /\ par.more => par.i <= par.hi
  /\ par.raised => par.code \in Code /\ x \in Msg

\* The innermost par_for goes on, with a message of its own.
LEMMA Change ==
  ASSUME NEW fs, NEW msgs, Shape(fs, msgs), fs # <<>>,
         fs[Len(fs)].par # NoPar,
         NEW f \in Frame, f.inst = fs[Len(fs)].inst,
         NEW x \in Str, Fits(f.par, fs[Len(fs)].par, x)
  PROVE  /\ Shape(SetTop(fs, f), SetAt(msgs, f.par.slot, x))
         /\ AllSeen(SetTop(fs, f), SetAt(msgs, f.par.slot, x))
              = Append(Outer(AllSeen(fs, msgs)), Seen(f.par, x))
<1>1. /\ f.par \in ParFrame /\ f.par.slot = fs[Len(fs)].par.slot
      /\ f.par.more => f.par.i <= f.par.hi
      /\ f.par.raised => f.par.code \in Code /\ x \in Msg
  BY DEF Fits
<1>. DEFINE n == Len(fs)
            m == Len(msgs)
            fs2 == SetTop(fs, f)
            msgs2 == SetAt(msgs, m, x)
<1>2. /\ n \in Loops(fs) /\ n \in Nat \ {0} /\ f.par.slot = m
      /\ msgs # <<>> /\ m \in Nat \ {0}
      /\ \A d \in Loops(fs) \ {n} : d < n /\ fs[d].par.slot \in 1..(m - 1)
  BY <1>1, TopLoop
<1>3. fs \in Seq(Frame) /\ msgs \in Seq(Str) /\ n <= MaxDepth
  BY DEF Shape
<1>4. f.par # NoPar
  BY <1>1, NoneAssumption
<1>5. /\ fs2 \in Seq(Frame) /\ Len(fs2) = n /\ fs2[n] = f
      /\ Loops(fs2) = Loops(fs)
      /\ \A d \in Loops(fs) \ {n} : fs2[d] = fs[d]
  <2>1. /\ fs2 \in Seq(Frame) /\ Len(fs2) = n /\ fs2[n] = f
        /\ Loops(fs2) = Loops(fs) \cup {n}
        /\ \A d \in Loops(fs) \ {n} : fs2[d] = fs[d]
    BY <1>3, <1>4, SetLoops
  <2>. HIDE DEF fs2
  <2>. QED  BY <1>2, <2>1
<1>6. /\ msgs2 \in Seq(Str) /\ Len(msgs2) = m /\ msgs2[m] = x
      /\ \A i \in 1..(m - 1) : msgs2[i] = msgs[i]
  <2>1. m \in 1..m /\ \A i \in 1..(m - 1) : i \in 1..m /\ i # m
    BY <1>2
  <2>. QED  BY <1>3, <2>1, ExceptSeq DEF SetAt
<1>. HIDE DEF fs2, msgs2
<1>7. \A d \in Loops(fs2) : fs2[d].par.slot = fs[d].par.slot
  BY <1>1, <1>2, <1>5
<1>8. Slots(fs2, msgs2)
  BY <1>5, <1>6, <1>7 DEF Shape, Slots
<1>9. Kept(fs2, msgs2)
  <2>1. ASSUME NEW d \in Loops(fs2)
        PROVE  /\ fs2[d].par.more => fs2[d].par.i <= fs2[d].par.hi
               /\ d < n => fs2[d].par.more
               /\ fs2[d].inst \in InstPos
               /\ fs2[d].par.raised =>
                    fs2[d].par.code \in Code /\ msgs2[fs2[d].par.slot] \in Msg
    <3>1. CASE d = n
      <4>1. fs[n].inst \in InstPos
        BY <1>2 DEF Shape, Kept
      <4>. QED  BY <1>1, <1>2, <1>5, <1>6, <3>1, <4>1
    <3>2. CASE d \in Loops(fs) \ {n}
      BY <1>2, <1>5, <1>6, <3>2 DEF Shape, Kept
    <3>. QED  BY <1>5, <3>1, <3>2
  <2>. QED  BY <1>5, <2>1 DEF Kept
<1>10. Shape(fs2, msgs2)
  BY <1>3, <1>5, <1>6, <1>8, <1>9 DEF Shape
<1>. DEFINE Q == AllSeen(fs, msgs)
            R == Outer(Q)
            v == Seen(f.par, x)
            P == Append(R, v)
<1>11. /\ Q \in Seq(View) /\ Len(Q) = m
       /\ \A d \in Loops(fs) :
            Q[fs[d].par.slot] = Seen(fs[d].par, msgs[fs[d].par.slot])
  BY SeenOf
<1>12. v \in View
  <2>1. n \in Loops(fs2) /\ fs2[n].par = f.par /\ msgs2[f.par.slot] = x
    BY <1>2, <1>5, <1>6
  <2>. QED  BY <1>10, <2>1, SeenType
<1>13. Q # <<>>
  BY <1>2, <1>11, EmptySeq
<1>. HIDE DEF Q, v
<1>14. /\ R \in Seq(View) /\ Len(R) = m - 1
       /\ \A i \in 1..(m - 1) : R[i] = Q[i]
  BY <1>11, <1>13, OuterSeq
<1>. HIDE DEF R
<1>15. /\ P \in Seq(View) /\ Len(P) = m /\ P[m] = v
       /\ \A i \in 1..(m - 1) : P[i] = R[i]
  <2>1. m - 1 + 1 = m
    BY <1>2
  <2>. QED  BY <1>12, <1>14, <2>1, AppendProperties
<1>. HIDE DEF P
<1>16. ASSUME NEW d \in Loops(fs2)
       PROVE  P[fs2[d].par.slot] = Seen(fs2[d].par, msgs2[fs2[d].par.slot])
  <2>1. CASE d = n
    BY <1>2, <1>5, <1>6, <1>15, <2>1 DEF v
  <2>2. CASE d \in Loops(fs) \ {n}
    <3>1. fs2[d] = fs[d] /\ fs[d].par.slot \in 1..(m - 1)
      BY <1>2, <1>5, <2>2
    <3>2. P[fs[d].par.slot] = Q[fs[d].par.slot]
      BY <1>14, <1>15, <3>1
    <3>3. Q[fs[d].par.slot] = Seen(fs[d].par, msgs[fs[d].par.slot])
      BY <1>11, <2>2
    <3>. QED  BY <1>6, <3>1, <3>2, <3>3
  <2>. QED  BY <1>5, <2>1, <2>2
<1>17. Len(P) = Len(msgs2) /\ P \in Seq(View)
  BY <1>6, <1>15
<1>18. AllSeen(fs2, msgs2) = P
  <2>1. Shows(P, fs2, msgs2)
    BY <1>16, <1>17 DEF Shows
  <2>. QED  BY <1>10, <2>1, SeenIs
<1>. QED  BY <1>2, <1>10, <1>18 DEF fs2, msgs2, P, R, Q, v

-----------------------------------------------------------------------------
(* Exceptions                                                              *)

LEMMA FieldsTrapped ==
  ASSUME exc = NoExc, NEW c \in Code, NEW m \in Str
  PROVE  /\ Trapped(c) \in Failures
         /\ Trapped(c).status = "trap" /\ Trapped(c).code = c
         /\ [Trapped(c) EXCEPT !.exc_msg = m] \in Failures
  BY PosAssumption DEF NoExc, Fields, Failures, Trapped, Status, Str

LEMMA FieldsNone ==
  /\ NoExc \in Fields
  /\ NoExc.status = "ok" /\ NoExc.pos = 0 /\ ~NoExc.pos_given
  BY PosAssumption DEF NoExc, Fields, Status, Str

\* A position found on the way changes nothing else.
LEMMA FieldsAt ==
  ASSUME NEW x \in Failures, NEW p \in Pos
  PROVE  /\ At(x, p) \in Failures
         /\ At(x, p).status = x.status /\ At(x, p).code = x.code
         /\ At(x, p).exc_msg = x.exc_msg /\ At(x, p).pos_given = x.pos_given
         /\ At(x, p).pos = IF x.pos = 0 /\ ~x.pos_given THEN p ELSE x.pos
  BY DEF Fields, Failures, At

\* The call where an exception is found gives it a position.
LEMMA PlacedAt ==
  ASSUME NEW x \in Failures, NEW p \in Pos, p \in InstPos \/ Placed(x)
  PROVE  Placed(At(x, p))
<1>1. /\ At(x, p).status = x.status /\ At(x, p).pos_given = x.pos_given
      /\ At(x, p).pos = IF x.pos = 0 /\ ~x.pos_given THEN p ELSE x.pos
  BY FieldsAt
<1>. QED  BY <1>1 DEF Placed

\* What a handler, a par_for or the report is given of x.
Told(x) == [id |-> x.code, pos |-> x.pos, msg |-> Message(x)]

\* What is on its way is an occurrence of the IR, and has a message.  It is
\* what is given of it, unless a raise left the message empty.
LEMMA OccType ==
  ASSUME NEW x \in Failures, x.status = "trap"
  PROVE  /\ x.code \in Code /\ x.pos \in Pos /\ Message(x) \in Msg
         /\ OccOf(x) \in Occ!Occ /\ OccOf(x) # None /\ OccOf(x).id = x.code
         /\ Told(x) \in Occ!Occ
         /\ Regular => OccOf(x) = Told(x)
<1>1. /\ x.code \in Code /\ x.pos \in Pos /\ x.exc_msg \in Msg \cup {Nil}
      /\ x.pos_given /\ x.exc_msg = Nil => <<x.code, Nil>> \in Raises
  BY DEF Failures, Fields, Str
<1>2. Message(x) \in Msg /\ Said(x.exc_msg) \in Msg
  BY <1>1, MsgAssumption DEF Message, Said
<1>. DEFINE m == IF x.pos_given THEN Said(x.exc_msg) ELSE Message(x)
<1>3. m \in Msg
  BY <1>2
<1>4. ASSUME Regular
      PROVE  m = Message(x)
  <2>1. CASE x.pos_given /\ x.exc_msg = Nil
    <3>1. <<x.code, Nil>> \in Raises /\ <<x.code, Nil>>[2] = Nil
          /\ <<x.code, Nil>>[1] = x.code
      BY <1>1, <2>1
    <3>2. Text[x.code] = Empty
      BY <1>4, <3>1 DEF Regular
    <3>. QED  BY <2>1, <3>2 DEF Message, Said
  <2>2. CASE x.pos_given /\ x.exc_msg # Nil
    BY <2>2 DEF Message, Said
  <2>3. CASE ~x.pos_given
    BY <2>3
  <2>. QED  BY <2>1, <2>2, <2>3
<1>5. OccOf(x) = [id |-> x.code, pos |-> x.pos, msg |-> m]
  BY DEF OccOf
<1>. HIDE DEF m
<1>6. /\ [id |-> x.code, pos |-> x.pos, msg |-> m] \in [id : Code, pos : Pos, msg : Msg]
      /\ Told(x) \in [id : Code, pos : Pos, msg : Msg]
  BY <1>1, <1>2, <1>3 DEF Told
<1>7. Regular => OccOf(x) = Told(x)
  BY <1>4, <1>5 DEF Told
<1>. QED  BY <1>1, <1>2, <1>5, <1>6, <1>7, NoneAssumption DEF Occ!Occ

LEMMA IndexInt ==
  \A k \in Index : k \in Int
  BY LimitAssumption DEF Index

\* An index done: the lowest of those left.
LEMMA NextSeen ==
  ASSUME NEW par \in ParFrame, par.more, par.i <= par.hi
  PROVE  LET q == NextIndex(par)
         IN  /\ q \in ParFrame /\ q.slot = par.slot
             /\ q.raised = par.raised /\ q.code = par.code /\ q.pos = par.pos
             /\ q.more => q.i <= q.hi
             /\ (IF q.more THEN q.i..q.hi ELSE {}) = (par.i..par.hi) \ {par.i}
<1>. DEFINE q == NextIndex(par)
<1>1. par.i \in Index /\ par.hi \in Index /\ par.i \in Int /\ par.hi \in Int
  BY LimitAssumption DEF ParFrame, Index
<1>2. CASE par.i = par.hi
  <2>1. q = [par EXCEPT !.more = FALSE]
    BY <1>2 DEF NextIndex
  <2>2. (par.i..par.hi) \ {par.i} = {}
    BY <1>1, <1>2
  <2>. HIDE DEF q
  <2>. QED  BY <2>1, <2>2 DEF ParFrame, q
<1>3. CASE par.i # par.hi
  <2>1. q = [par EXCEPT !.i = par.i + 1]
    BY <1>3 DEF NextIndex
  <2>2. /\ par.i + 1 \in Index /\ par.i + 1 <= par.hi
        /\ (par.i + 1)..par.hi = (par.i..par.hi) \ {par.i}
    BY <1>1, <1>3, LimitAssumption DEF Index
  <2>. HIDE DEF q
  <2>3. q \in ParFrame /\ q.i = par.i + 1 /\ q.hi = par.hi /\ q.more
    BY <2>1, <2>2 DEF ParFrame
  <2>4. q.slot = par.slot /\ q.raised = par.raised /\ q.code = par.code /\ q.pos = par.pos
    BY <2>1 DEF ParFrame
  <2>. QED  BY <2>2, <2>3, <2>4 DEF q
<1>. QED  BY <1>2, <1>3

-----------------------------------------------------------------------------
(* The body of a par_for, or a call, is left                               *)

\* The views, once the innermost par_for has done the lowest of its indices
\* with the occurrence o, or with none.
DoneOne(Q, R, o) ==
  /\ Q # <<>>
  /\ \E a, b \in Int :
       /\ a <= b /\ Q[Len(Q)].todo = a..b
       /\ R = Append(Outer(Q),
                [todo  |-> (a..b) \ {a},
                 first |-> IF Q[Len(Q)].first = None THEN o
                           ELSE Q[Len(Q)].first])

\* The view of the innermost par_for.
LEMMA TopSeen ==
  ASSUME NEW fs, NEW msgs, Shape(fs, msgs), fs # <<>>,
         fs[Len(fs)].par # NoPar
  PROVE  LET Q == AllSeen(fs, msgs)
             par == fs[Len(fs)].par
         IN  /\ Q \in Seq(View) /\ Q # <<>> /\ Len(Q) = Len(msgs)
             /\ Q[Len(Q)].todo = IF par.more THEN par.i..par.hi ELSE {}
             /\ ~par.raised => Q[Len(Q)].first = None
             /\ par.raised =>
                  /\ Q[Len(Q)].first # None
                  /\ Q[Len(Q)].first = [id |-> par.code, pos |-> par.pos,
                                        msg |-> msgs[par.slot]]
                  /\ par.code \in Code /\ msgs[par.slot] \in Msg
<1>. DEFINE par == fs[Len(fs)].par
            Q == AllSeen(fs, msgs)
            m == msgs[par.slot]
<1>1. /\ Len(fs) \in Loops(fs) /\ par \in ParFrame /\ par.slot = Len(msgs)
      /\ Len(msgs) \in Nat \ {0}
  BY TopLoop
<1>2. Q \in Seq(View) /\ Len(Q) = Len(msgs) /\ Q[par.slot] = Seen(par, m)
  BY <1>1, SeenOf
<1>3. Q # <<>>
  BY <1>1, <1>2, EmptySeq
<1>4. par.raised => par.code \in Code /\ m \in Msg
  BY <1>1 DEF Shape, Kept
<1>5. par.pos \in Pos
  BY <1>1 DEF ParFrame
<1>6. Q[Len(Q)] = Seen(par, m)
  BY <1>1, <1>2
<1>. HIDE DEF par, Q, m
<1>7. ASSUME par.raised
      PROVE  [id |-> par.code, pos |-> par.pos, msg |-> m] # None
  <2>1. [id |-> par.code, pos |-> par.pos, msg |-> m]
          \in [id : Code, pos : Pos, msg : Msg]
    BY <1>4, <1>5, <1>7
  <2>. QED  BY <2>1, NoneAssumption
<1>8. /\ Q[Len(Q)].todo = IF par.more THEN par.i..par.hi ELSE {}
      /\ Q[Len(Q)].first =
           IF par.raised
           THEN [id |-> par.code, pos |-> par.pos, msg |-> m]
           ELSE None
  BY <1>6 DEF Seen
<1>. QED  BY <1>2, <1>3, <1>4, <1>7, <1>8 DEF par, Q, m

LEMMA ExceptSame ==
  ASSUME NEW S, NEW s \in Seq(S), NEW k
  PROVE  [s EXCEPT ![k] = s[k]] = s
  BY LenProperties

LEMMA ExceptAt ==
  ASSUME NEW S, NEW s \in Seq(S), NEW k \in 1..Len(s), NEW e
  PROVE  [s EXCEPT ![k] = e][k] = e
  BY LenProperties

\* A par_for keeps what it has, or the first exception of its body: the
\* occurrence o, if any.
Onward(old, msgs, par, msgs2, o) ==
  \/ /\ par = old /\ msgs2 = msgs
     /\ old.raised \/ o = None
  \/ \E c \in Code, p \in Pos, m \in Msg :
       /\ ~old.raised
       /\ par = [old EXCEPT !.raised = TRUE, !.code = c, !.pos = p]
       /\ msgs2 = [msgs EXCEPT ![par.slot] = m]
       /\ o = [id |-> c, pos |-> p, msg |-> m]

\* The innermost par_for goes on to its next index.
LEMMA Goes ==
  ASSUME NEW fs, NEW msgs, Shape(fs, msgs), fs # <<>>,
         fs[Len(fs)].par # NoPar, fs[Len(fs)].par.more,
         NEW fs2, NEW msgs2, NEW par, NEW o,
         fs2 = SetTop(fs, [fs[Len(fs)] EXCEPT !.par = NextIndex(par)]),
         Onward(fs[Len(fs)].par, msgs, par, msgs2, o)
  PROVE  /\ Shape(fs2, msgs2)
         /\ DoneOne(AllSeen(fs, msgs), AllSeen(fs2, msgs2), o)
<1>. DEFINE n == Len(fs)
            old == fs[n].par
            x == msgs2[par.slot]
            q == NextIndex(par)
            f == [fs[n] EXCEPT !.par = q]
            Q == AllSeen(fs, msgs)
<1>1. n \in Loops(fs) /\ old \in ParFrame /\ old.slot \in 1..Len(msgs)
  BY TopLoop
<1>2. msgs \in Seq(Str) /\ fs[n] \in Frame
  BY <1>1, FrameType DEF Loops, Shape
<1>3. old.i <= old.hi
  BY <1>1 DEF Shape, Kept
<1>4. msgs[old.slot] \in Str /\ old.slot \in 1..Len(msgs)
  BY <1>1, <1>2, ElementOfSeq
<1>5. Onward(old, msgs, par, msgs2, o)
  OBVIOUS
<1>. HIDE DEF old
<1>6. /\ par \in ParFrame /\ par.slot = old.slot /\ par.more
      /\ par.i = old.i /\ par.hi = old.hi
  <2>1. CASE par = old
    BY <1>1, <1>4, <2>1 DEF old
  <2>2. CASE \E c \in Code, p \in Pos :
               par = [old EXCEPT !.raised = TRUE, !.code = c, !.pos = p]
    <3>1. PICK c \in Code, p \in Pos :
            par = [old EXCEPT !.raised = TRUE, !.code = c, !.pos = p]
      BY <2>2
    <3>. QED  BY <1>1, <3>1 DEF ParFrame, old
  <2>. QED  BY <1>5, <2>1, <2>2 DEF Onward
<1>7. msgs2 = [msgs EXCEPT ![par.slot] = x] /\ x \in Str
  <2>1. CASE msgs2 = msgs
    BY <1>2, <1>4, <1>6, <2>1, ExceptSame
  <2>2. CASE \E m \in Msg : msgs2 = [msgs EXCEPT ![par.slot] = m]
    <3>1. PICK m \in Msg : msgs2 = [msgs EXCEPT ![par.slot] = m]
      BY <2>2
    <3>2. par.slot \in 1..Len(msgs)
      BY <1>4, <1>6
    <3>3. [msgs EXCEPT ![par.slot] = m][par.slot] = m
      BY <1>2, <3>2, ExceptAt
    <3>4. msgs2[par.slot] = m /\ m \in Str
      BY <3>1, <3>3 DEF Str
    <3>. QED  BY <3>1, <3>4
  <2>. QED  BY <1>5, <2>1, <2>2 DEF Onward
<1>8. /\ q \in ParFrame /\ q.slot = par.slot
      /\ q.raised = par.raised /\ q.code = par.code /\ q.pos = par.pos
      /\ q.more => q.i <= q.hi
      /\ (IF q.more THEN q.i..q.hi ELSE {}) = (par.i..par.hi) \ {par.i}
  BY <1>3, <1>6, NextSeen
<1>. HIDE DEF q
<1>9. f \in Frame /\ f.par = q /\ f.inst = fs[n].inst
  BY <1>2, <1>8 DEF Frame
<1>10. /\ Q \in Seq(View) /\ Q # <<>>
       /\ Q[Len(Q)].todo = old.i..old.hi
       /\ ~old.raised => Q[Len(Q)].first = None
       /\ old.raised =>
            /\ Q[Len(Q)].first # None
            /\ Q[Len(Q)].first = [id |-> old.code, pos |-> old.pos,
                                  msg |-> msgs[old.slot]]
            /\ old.code \in Code /\ msgs[old.slot] \in Msg
  BY TopSeen DEF old
<1>. HIDE DEF x, Q
<1>11. /\ par.raised => par.code \in Code /\ x \in Msg
       /\ (IF par.raised
           THEN [id |-> par.code, pos |-> par.pos, msg |-> x]
           ELSE None)
            = IF Q[Len(Q)].first = None THEN o ELSE Q[Len(Q)].first
  <2>1. CASE par = old /\ msgs2 = msgs /\ (old.raised \/ o = None)
    BY <1>10, <2>1 DEF x
  <2>2. CASE \E c \in Code, p \in Pos, m \in Msg :
               /\ ~old.raised
               /\ par = [old EXCEPT !.raised = TRUE, !.code = c, !.pos = p]
               /\ msgs2 = [msgs EXCEPT ![par.slot] = m]
               /\ o = [id |-> c, pos |-> p, msg |-> m]
    <3>1. PICK c \in Code, p \in Pos, m \in Msg :
            /\ ~old.raised
            /\ par = [old EXCEPT !.raised = TRUE, !.code = c, !.pos = p]
            /\ msgs2 = [msgs EXCEPT ![par.slot] = m]
            /\ o = [id |-> c, pos |-> p, msg |-> m]
      BY <2>2
    <3>2. par.raised /\ par.code = c /\ par.pos = p
      BY <1>1, <3>1 DEF ParFrame, old
    <3>3. par.slot \in 1..Len(msgs)
      BY <1>4, <1>6
    <3>4. [msgs EXCEPT ![par.slot] = m][par.slot] = m
      BY <1>2, <3>3, ExceptAt
    <3>5. x = m
      BY <3>1, <3>4 DEF x
    <3>. QED  BY <1>10, <3>1, <3>2, <3>5
  <2>. QED  BY <1>5, <2>1, <2>2 DEF Onward
<1>12. Seen(q, x) = [todo  |-> (old.i..old.hi) \ {old.i},
                     first |-> IF Q[Len(Q)].first = None THEN o
                               ELSE Q[Len(Q)].first]
  BY <1>6, <1>8, <1>11 DEF Seen
<1>13. fs2 = SetTop(fs, f)
  BY DEF q
<1>. HIDE DEF f
<1>14. Fits(f.par, fs[Len(fs)].par, x)
  BY <1>6, <1>8, <1>9, <1>11 DEF old, Fits
<1>15. msgs2 = SetAt(msgs, f.par.slot, x)
  BY <1>7, <1>8, <1>9 DEF SetAt
<1>16. /\ Shape(fs2, msgs2)
       /\ AllSeen(fs2, msgs2) = Append(Outer(Q), Seen(q, x))
  <2>1. /\ Shape(SetTop(fs, f), SetAt(msgs, f.par.slot, x))
        /\ AllSeen(SetTop(fs, f), SetAt(msgs, f.par.slot, x))
             = Append(Outer(AllSeen(fs, msgs)), Seen(f.par, x))
    <3>1. f \in Frame /\ x \in Str /\ f.inst = fs[Len(fs)].inst
      BY <1>7, <1>9
    <3>. QED  BY <1>14, <3>1, Change
  <2>. QED  BY <1>9, <1>13, <1>15, <2>1 DEF Q
<1>17. old.i \in Int /\ old.hi \in Int
  <2>1. old.i \in Index /\ old.hi \in Index
    BY <1>1 DEF ParFrame
  <2>. QED  BY <2>1, IndexInt
<1>18. /\ Q[Len(Q)].todo = old.i..old.hi
       /\ AllSeen(fs2, msgs2) = Append(Outer(Q),
            [todo  |-> (old.i..old.hi) \ {old.i},
             first |-> IF Q[Len(Q)].first = None THEN o ELSE Q[Len(Q)].first])
  BY <1>10, <1>12, <1>16
<1>19. DoneOne(Q, AllSeen(fs2, msgs2), o)
  BY <1>3, <1>10, <1>17, <1>18, Zenon DEF DoneOne
<1>. QED  BY <1>16, <1>19 DEF Q

\* What leaves the body of a par_for is kept or dropped there, and the next
\* index follows; or it ends the par_for and goes on.
LEMMA BodyEffect ==
  ASSUME NEW fs, Shape(fs, par_msgs), fs # <<>>,
         fs[Len(fs)].par # NoPar, fs[Len(fs)].par.more,
         NEW x \in Failures, BodyLeft(fs, x)
  PROVE  /\ Shape(frames', par_msgs') /\ exc' \in Fields /\ ok' \in BOOLEAN
         /\ Settled(frames', exc', ok')
         /\ Handled(x) =>
              /\ ok' /\ exc' = NoExc
              /\ DoneOne(AllSeen(fs, par_msgs), AllSeen(frames', par_msgs'),
                         Told(x))
         /\ ~Handled(x) =>
              /\ ~ok' /\ exc' \in {At(x, p) : p \in Pos}
              /\ AllSeen(fs, par_msgs) # <<>>
              /\ AllSeen(frames', par_msgs') = Outer(AllSeen(fs, par_msgs))
<1>. DEFINE f == fs[Len(fs)]
            old == f.par
            par == IF old.raised THEN old
                   ELSE [old EXCEPT !.raised = TRUE, !.code = x.code,
                                    !.pos = x.pos]
            fs2 == SetTop(fs, [f EXCEPT !.par = NextIndex(par)])
            o == Told(x)
<1>1. Len(fs) \in Loops(fs) /\ old \in ParFrame /\ old.slot \in 1..Len(par_msgs)
  BY TopLoop
<1>2. f \in Frame /\ f.inst \in InstPos /\ f.inst \in Pos
  BY <1>1, FrameType, PosAssumption DEF Loops, Shape, Kept
<1>3. CASE Handled(x)
  <2>1. /\ exc' = NoExc /\ ok' = TRUE
        /\ par_msgs' = MsgsFirst(old, x) /\ frames' = fs2
    BY <1>3, Zenon DEF BodyLeft, Done
  <2>2. x.status = "trap" /\ x.code \in Code /\ x.pos \in Pos /\ Message(x) \in Msg
    BY <1>3, OccType DEF Handled, Failures, Fields
  <2>3. o = [id |-> x.code, pos |-> x.pos, msg |-> Message(x)]
    BY DEF Told
  <2>4. Onward(old, par_msgs, par, par_msgs', o)
    <3>1. CASE old.raised
      <4>1. par = old /\ par_msgs' = par_msgs
        BY <2>1, <3>1 DEF MsgsFirst
      <4>. QED  BY <3>1, <4>1 DEF Onward
    <3>2. CASE ~old.raised
      <4>1. /\ par = [old EXCEPT !.raised = TRUE, !.code = x.code, !.pos = x.pos]
            /\ par_msgs' = [par_msgs EXCEPT ![old.slot] = Message(x)]
        BY <2>1, <3>2 DEF MsgsFirst
      <4>2. par.slot = old.slot
        BY <1>1, <4>1 DEF ParFrame
      <4>. HIDE DEF old, par, o
      <4>. QED  BY <2>2, <2>3, <3>2, <4>1, <4>2 DEF Onward
    <3>. QED  BY <3>1, <3>2
  <2>. HIDE DEF par, o
  <2>5. /\ Shape(fs2, par_msgs')
        /\ DoneOne(AllSeen(fs, par_msgs), AllSeen(fs2, par_msgs'), o)
    BY <2>4, Goes
  <2>6. Shape(frames', par_msgs') /\ exc' \in Fields /\ Settled(frames', exc', ok')
    BY <2>1, <2>5, FieldsNone DEF Settled
  <2>. QED  BY <1>3, <2>1, <2>5, <2>6 DEF o
<1>4. CASE ~Handled(x)
  <2>. DEFINE fs3 == SetTop(fs, [f EXCEPT !.par = NoPar])
              msgs3 == SubSeq(par_msgs, 1, old.slot - 1)
  <2>1. /\ exc' = At(x, f.inst) /\ ok' = FALSE
        /\ par_msgs' = msgs3 /\ frames' = fs3
    BY <1>4, Zenon DEF BodyLeft, MsgsAround
  <2>2. /\ Shape(fs3, msgs3) /\ fs3[Len(fs3)].par = NoPar
        /\ AllSeen(fs3, msgs3) = Outer(AllSeen(fs, par_msgs))
        /\ AllSeen(fs, par_msgs) # <<>>
    BY Drop, Zenon
  <2>3. exc' \in Failures /\ exc' \in Fields /\ Placed(exc')
    BY <1>2, <2>1, FieldsAt, PlacedAt DEF Failures
  <2>. HIDE DEF fs3, msgs3
  <2>4. Shape(frames', par_msgs') /\ Settled(frames', exc', ok')
    BY <2>1, <2>2, <2>3 DEF Settled
  <2>5. /\ AllSeen(fs, par_msgs) # <<>>
        /\ AllSeen(frames', par_msgs') = Outer(AllSeen(fs, par_msgs))
    BY <2>1, <2>2
  <2>6. exc' \in {At(x, p) : p \in Pos}
    BY <1>2, <2>1
  <2>. QED  BY <1>4, <2>1, <2>3, <2>4, <2>5, <2>6
<1>. QED  BY <1>3, <1>4

\* The calls below the innermost one, which runs no par_for.
LEMMA BelowShape ==
  ASSUME NEW fs, NEW msgs, Shape(fs, msgs), fs # <<>>,
         fs[Len(fs)].par = NoPar
  PROVE  LET fs2 == Outer(fs)
         IN  /\ Shape(fs2, msgs) /\ AllSeen(fs2, msgs) = AllSeen(fs, msgs)
             /\ fs2 # <<>> =>
                  /\ fs2[Len(fs2)] \in Frame
                  /\ fs2[Len(fs2)].par # NoPar => fs2[Len(fs2)].par.more
<1>. DEFINE n == Len(fs)
            fs2 == Outer(fs)
<1>1. /\ fs \in Seq(Frame) /\ n \in Nat \ {0} /\ n <= MaxDepth
  BY OuterSeq DEF Shape
<1>2. n \notin Loops(fs)
  BY DEF Loops
<1>3. /\ fs2 \in Seq(Frame) /\ Len(fs2) = n - 1 /\ Loops(fs2) = Loops(fs)
      /\ \A d \in Loops(fs) : fs2[d] = fs[d]
  BY <1>1, <1>2, OuterLoops
<1>. HIDE DEF fs2
<1>4. \A d \in Loops(fs) : d \in 1..n /\ d < n /\ fs[d].par.more
  <2>1. \A d \in Loops(fs) : d \in 1..n /\ d # n
    BY <1>2 DEF Loops
  <2>2. \A d \in Loops(fs) : d \in 1..n /\ d < n
    BY <1>1, <2>1
  <2>. QED  BY <2>2 DEF Shape, Kept
<1>5. Len(fs2) <= MaxDepth
  BY <1>1, <1>3, LimitAssumption
<1>6. Shape(fs2, msgs) /\ AllSeen(fs2, msgs) = AllSeen(fs, msgs)
  BY <1>3, <1>4, <1>5, Keep
<1>7. ASSUME fs2 # <<>>
      PROVE  /\ fs2[Len(fs2)] \in Frame
             /\ fs2[Len(fs2)].par # NoPar => fs2[Len(fs2)].par.more
  <2>1. fs2[Len(fs2)] \in Frame /\ Len(fs2) \in Nat \ {0}
    BY <1>3, <1>7, OuterSeq
  <2>2. ASSUME fs2[Len(fs2)].par # NoPar
        PROVE  fs2[Len(fs2)].par.more
    <3>1. Len(fs2) \in Loops(fs2)
      BY <1>6, <1>7, <2>2, TopLoop
    <3>. QED  BY <1>3, <1>4, <3>1
  <2>. QED  BY <2>1, <2>2
<1>. QED  BY <1>6, <1>7 DEF fs2

\* What leaves a call reaches the caller, or the par_for of the caller.
LEMMA CallEffect ==
  ASSUME Shape(frames, par_msgs), frames # <<>>, Top.par = NoPar,
         NEW x \in Failures, Placed(x), CallLeft(x)
  PROVE  /\ Shape(frames', par_msgs') /\ exc' \in Fields /\ ok' \in BOOLEAN
         /\ Settled(frames', exc', ok')
         /\ \/ /\ Handled(x) /\ ok' /\ exc' = NoExc
               /\ DoneOne(AllSeen(frames, par_msgs),
                          AllSeen(frames', par_msgs'), Told(x))
            \/ /\ ~Handled(x)
               /\ ~ok' /\ exc' \in {At(x, p) : p \in Pos}
               /\ AllSeen(frames, par_msgs) # <<>>
               /\ AllSeen(frames', par_msgs') = Outer(AllSeen(frames, par_msgs))
            \/ /\ ~ok' /\ exc' \in {x} \cup {At(x, p) : p \in Pos}
               /\ AllSeen(frames', par_msgs') = AllSeen(frames, par_msgs)
<1>1. /\ Below = Outer(frames) /\ Shape(Below, par_msgs)
      /\ AllSeen(Below, par_msgs) = AllSeen(frames, par_msgs)
      /\ Below # <<>> =>
           /\ Below[Len(Below)] \in Frame
           /\ Below[Len(Below)].par # NoPar => Below[Len(Below)].par.more
  BY BelowShape DEF Below, Outer, Top
<1>. DEFINE b == Below
<1>. HIDE DEF b
<1>2. CASE Below # <<>> /\ Below[Len(Below)].par # NoPar
  <2>1. BodyLeft(Below, x)
    BY <1>2 DEF CallLeft
  <2>2. /\ Shape(frames', par_msgs') /\ exc' \in Fields /\ ok' \in BOOLEAN
        /\ Settled(frames', exc', ok')
        /\ Handled(x) =>
             /\ ok' /\ exc' = NoExc
             /\ DoneOne(AllSeen(Below, par_msgs), AllSeen(frames', par_msgs'),
                        Told(x))
        /\ ~Handled(x) =>
             /\ ~ok' /\ exc' \in {At(x, p) : p \in Pos}
             /\ AllSeen(Below, par_msgs) # <<>>
             /\ AllSeen(frames', par_msgs') = Outer(AllSeen(Below, par_msgs))
    BY <1>1, <1>2, <2>1, BodyEffect
  <2>. QED  BY <1>1, <2>2
<1>3. CASE ~(Below # <<>> /\ Below[Len(Below)].par # NoPar)
  <2>1. /\ frames' = Below /\ ok' = FALSE /\ par_msgs' = par_msgs
        /\ exc' = IF Below = <<>> THEN x ELSE At(x, Below[Len(Below)].inst)
    BY <1>3 DEF CallLeft
  <2>2. Below # <<>> => Below[Len(Below)].inst \in Pos
    BY <1>1 DEF Frame
  <2>3. exc' \in {x} \cup {At(x, p) : p \in Pos}
    BY <2>1, <2>2
  <2>4. exc' \in Failures /\ exc' \in Fields /\ Placed(exc')
    BY <2>1, <2>2, FieldsAt, PlacedAt DEF Failures
  <2>5. Settled(frames', exc', ok')
    BY <1>3, <2>1, <2>4 DEF Settled
  <2>. QED  BY <1>1, <2>1, <2>3, <2>4, <2>5
<1>. QED  BY <1>2, <1>3

-----------------------------------------------------------------------------
(* The steps of Occurrences, as the run takes them                         *)

OccStep == [Occ!Next]_(Occ!vars)

\* What is on its way with the fields x.
FlightOf(x) == IF x.status = "trap" THEN OccOf(x) ELSE None

\* What the run is to Occurrences while it runs.
LEMMA Abstract ==
  /\ phase = "run" => Flight = FlightOf(exc)
  /\ phase' = "run" => Flight' = FlightOf(exc')
  /\ phase # "run" => Flight = None
  /\ phase' # "run" => Flight' = None
  /\ phase # "end" => Report = None
  /\ phase' # "end" => Report' = None
  /\ Pars = AllSeen(frames, par_msgs) /\ Pars' = AllSeen(frames', par_msgs')
  BY DEF Flight, FlightOf, OccOf, Said, Message, Report, Pars, ParAt, AllSeen,
         ParOf, Seen

LEMMA StutterStep ==
  ASSUME phase # "end", phase' # "end", got' = got,
         Flight' = Flight, Pars' = Pars
  PROVE  OccStep
  BY Abstract DEF OccStep, Occ!vars

LEMMA RaiseStep ==
  ASSUME phase # "end", phase' # "end", got' = got,
         Flight = None, Flight' \in Occ!Occ, Pars' = Pars
  PROVE  OccStep
  BY Abstract DEF OccStep, Occ!Next, Occ!Raise

LEMMA ParBeginStep ==
  ASSUME phase # "end", phase' # "end", got' = got,
         Flight = None, Flight' = None, NEW lo \in Index, NEW hi \in Index,
         Pars' = Append(Pars, [todo |-> lo..hi, first |-> None])
  PROVE  OccStep
  BY Abstract DEF OccStep, Occ!Next, Occ!ParBegin

LEMMA ParEndStep ==
  ASSUME phase # "end", phase' # "end", got' = got,
         Flight = None, Pars # <<>>, Pars[Len(Pars)].todo = {},
         Flight' = Pars[Len(Pars)].first, Pars' = Outer(Pars)
  PROVE  OccStep
  BY Abstract DEF OccStep, Occ!Next, Occ!ParEnd, Occ!Top, Occ!Front, Outer

LEMMA ParStopStep ==
  ASSUME phase # "end", phase' # "end", got' = got,
         Pars # <<>>, Pars' = Outer(Pars),
         \/ /\ Flight = None
            /\ Flight' = None \/ Flight' \in {o \in Occ!Occ : o.id \in Fatal}
         \/ /\ Flight # None
            /\ Flight.id \in Fatal /\ Flight' = Flight
  PROVE  OccStep
  BY Abstract DEF OccStep, Occ!Next, Occ!ParStop, Occ!Front, Outer

LEMMA ParDoneStep ==
  ASSUME phase # "end", phase' # "end", got' = got,
         NEW o, DoneOne(Pars, Pars', o), Flight' = None,
         \/ Flight = None /\ o = None
         \/ Flight # None /\ Flight.id \notin Fatal /\ o = Flight
  PROVE  OccStep
<1>. DEFINE T == Pars[Len(Pars)].todo
            i == CHOOSE i \in T : \A j \in T : i <= j
<1>1. PICK a \in Int, b \in Int :
        /\ a <= b /\ T = a..b
        /\ Pars' = Append(Outer(Pars),
             [todo  |-> (a..b) \ {a},
              first |-> IF Pars[Len(Pars)].first = None THEN o
                        ELSE Pars[Len(Pars)].first])
  BY DEF DoneOne
<1>2. i = a
  <2>1. a \in T /\ \A j \in T : a <= j
    BY <1>1
  <2>2. i \in T /\ \A j \in T : i <= j
    BY <2>1
  <2>. HIDE DEF i
  <2>3. i \in Int /\ i <= a /\ a <= i
    BY <1>1, <2>1, <2>2
  <2>. QED  BY <1>1, <2>3
<1>3. T # {}
  <2>1. a \in T
    BY <1>1
  <2>. QED  BY <2>1
<1>. HIDE DEF i
<1>4. Pars' = Append(Outer(Pars),
        [todo  |-> T \ {i},
         first |-> IF Pars[Len(Pars)].first = None /\ Flight # None
                   THEN Flight ELSE Pars[Len(Pars)].first])
  BY <1>1, <1>2
<1>5. Pars # <<>>
  BY DEF DoneOne
<1>6. Occ!ParDone
  BY <1>3, <1>4, <1>5, Abstract
  DEF Occ!ParDone, Occ!Top, Occ!Front, Outer, i
<1>. QED  BY <1>6 DEF OccStep, Occ!Next

\* A position found on the way is that of an occurrence not placed yet.
LEMMA AtFlight ==
  ASSUME NEW x \in Failures, NEW y \in {x} \cup {At(x, p) : p \in Pos}
  PROVE  /\ y \in Failures /\ y.status = x.status
         /\ x.status # "trap" => FlightOf(x) = None /\ FlightOf(y) = None
         /\ x.status = "trap" =>
              /\ FlightOf(x) = OccOf(x) /\ FlightOf(x) # None
              /\ FlightOf(x).id = x.code
              /\ FlightOf(y) \in Occ!Occ /\ FlightOf(y).id = x.code
         /\ Regular /\ Placed(x) => FlightOf(y) = FlightOf(x)
<1>1. /\ y \in Failures /\ y.status = x.status /\ y.code = x.code
      /\ y.exc_msg = x.exc_msg /\ y.pos_given = x.pos_given
      /\ x.pos # 0 \/ x.pos_given => y.pos = x.pos
  <2>1. CASE y = x
    BY <2>1
  <2>2. CASE y \in {At(x, p) : p \in Pos}
    <3>1. PICK p \in Pos : y = At(x, p)
      BY <2>2
    <3>. QED  BY <3>1, FieldsAt
  <2>. QED  BY <2>1, <2>2
<1>2. x.status # "trap" => FlightOf(x) = None /\ FlightOf(y) = None
  BY <1>1 DEF FlightOf
<1>3. x.status = "trap" => FlightOf(x) = OccOf(x) /\ FlightOf(y) = OccOf(y)
  BY <1>1 DEF FlightOf
<1>4. x.status = "trap" =>
        /\ FlightOf(x) # None /\ FlightOf(x).id = x.code
        /\ FlightOf(y) \in Occ!Occ /\ FlightOf(y).id = x.code
  BY <1>1, <1>3, OccType
<1>5. ASSUME Regular, Placed(x), x.status = "trap"
      PROVE  OccOf(y) = OccOf(x)
  <2>1. y.pos = x.pos
    BY <1>1, <1>5 DEF Placed, Regular
  <2>2. Message(y) = Message(x) /\ Said(y.exc_msg) = Said(x.exc_msg)
    BY <1>1 DEF Message
  <2>. QED  BY <1>1, <2>1, <2>2 DEF OccOf
<1>. QED  BY <1>1, <1>2, <1>3, <1>4, <1>5

-----------------------------------------------------------------------------
(* Each action keeps the invariant and is a step of Occurrences            *)

LEMMA KeepInv ==
  ASSUME phase' = "run", steps' \in 0..MaxSteps,
         got' \in {None} \cup [id : Code, pos : Pos, msg : Str],
         Shape(frames', par_msgs'), exc' \in Fields, ok' \in BOOLEAN,
         Settled(frames', exc', ok')
  PROVE  IInv'
  BY DEF IInv

\* Where an instruction runs: nothing is on its way, and every par_for is of
\* a call below.
LEMMA RunningFacts ==
  ASSUME IInv, Running
  PROVE  /\ phase = "run" /\ Shape(frames, par_msgs) /\ exc = NoExc
         /\ frames # <<>> /\ Len(frames) \in Nat \ {0}
         /\ Len(frames) <= MaxDepth /\ frames \in Seq(Frame)
         /\ Top \in Frame /\ Top.par = NoPar /\ Top = frames[Len(frames)]
         /\ got \in {None} \cup [id : Code, pos : Pos, msg : Str]
         /\ Len(frames) \notin Loops(frames)
         /\ \A d \in Loops(frames) : frames[d].par.more
         /\ Flight = None
<1>1. /\ phase = "run" /\ Shape(frames, par_msgs) /\ exc = NoExc
      /\ frames # <<>> /\ Top.par = NoPar
      /\ got \in {None} \cup [id : Code, pos : Pos, msg : Str]
  BY DEF Running, IInv, Settled
<1>2. frames \in Seq(Frame) /\ Len(frames) <= MaxDepth
  BY <1>1 DEF Shape
<1>3. Len(frames) \in Nat \ {0} /\ Top \in Frame
  BY <1>1, <1>2, OuterSeq DEF Top
<1>4. Len(frames) \notin Loops(frames)
  BY <1>1 DEF Loops, Top
<1>5. ASSUME NEW d \in Loops(frames)
      PROVE  frames[d].par.more
  <2>1. d \in 1..Len(frames) /\ d # Len(frames)
    BY <1>4 DEF Loops
  <2>2. d < Len(frames)
    BY <1>3, <2>1
  <2>. QED  BY <1>1, <2>2 DEF Shape, Kept
<1>6. Flight = None
  BY <1>1, Abstract, FieldsNone DEF FlightOf
<1>. QED  BY <1>1, <1>2, <1>3, <1>4, <1>5, <1>6 DEF Top

\* An instruction that fails.
LEMMA FailsStep ==
  ASSUME IInv, Running, steps' \in 0..MaxSteps,
         NEW x \in Failures, NEW p \in InstPos, Fails(x, p)
  PROVE  IInv' /\ (Regular => OccStep)
<1>1. /\ phase = "run" /\ Shape(frames, par_msgs) /\ Flight = None
      /\ frames # <<>> /\ frames[Len(frames)].par = NoPar
      /\ got \in {None} \cup [id : Code, pos : Pos, msg : Str]
  BY RunningFacts
<1>2. /\ exc' = At(x, p) /\ ok' = FALSE /\ frames' = frames
      /\ par_msgs' = par_msgs /\ got' = got /\ phase' = "run"
  BY <1>1 DEF Fails
<1>3. p \in Pos
  BY PosAssumption
<1>4. exc' \in Failures /\ exc' \in Fields /\ Placed(exc')
  BY <1>3, <1>2, FieldsAt, PlacedAt DEF Failures
<1>5. Settled(frames', exc', ok')
  BY <1>1, <1>2, <1>4 DEF Settled
<1>6. IInv'
  BY <1>1, <1>2, <1>4, <1>5, KeepInv
<1>7. Pars' = Pars /\ Flight' = FlightOf(exc')
  BY <1>2, Abstract
<1>8. exc' \in {x} \cup {At(x, q) : q \in Pos}
  BY <1>3, <1>2
<1>9. OccStep
  <2>1. CASE x.status = "trap"
    <3>1. Flight' \in Occ!Occ
      BY <1>7, <1>8, <2>1, AtFlight
    <3>. QED  BY <1>1, <1>2, <1>7, <3>1, RaiseStep
  <2>2. CASE x.status # "trap"
    <3>1. Flight' = None
      BY <1>7, <1>8, <2>2, AtFlight
    <3>. QED  BY <1>1, <1>2, <1>7, <3>1, StutterStep
  <2>. QED  BY <2>1, <2>2
<1>. QED  BY <1>6, <1>9

\* The calls change, their par_for do not, and nothing fails.
LEMMA QuietStep ==
  ASSUME IInv, phase = "run", ok, steps' \in 0..MaxSteps,
         Shape(frames', par_msgs),
         AllSeen(frames', par_msgs) = AllSeen(frames, par_msgs),
         par_msgs' = par_msgs, exc' = exc, ok' = ok, got' = got,
         phase' = phase
  PROVE  IInv' /\ (Regular => OccStep)
<1>1. /\ exc = NoExc /\ Flight = None
      /\ got \in {None} \cup [id : Code, pos : Pos, msg : Str]
  BY Abstract, FieldsNone DEF IInv, Settled, FlightOf
<1>2. Settled(frames', exc', ok') /\ ok' \in BOOLEAN /\ exc' \in Fields
  BY <1>1, FieldsNone DEF Settled, IInv
<1>3. IInv'
  BY <1>1, <1>2, KeepInv
<1>4. Pars' = Pars /\ Flight' = None
  BY <1>1, Abstract, FieldsNone DEF FlightOf
<1>. QED  BY <1>1, <1>3, <1>4, StutterStep

\* The top of the calls keeps its handler or not, and gets a position.
LEMMA SetKeeps ==
  ASSUME NEW fs, NEW msgs, Shape(fs, msgs), fs # <<>>, NEW f \in Frame,
         fs[Len(fs)].par = NoPar, f.par = NoPar
  PROVE  /\ Shape(SetTop(fs, f), msgs) /\ SetTop(fs, f) # <<>>
         /\ SetTop(fs, f)[Len(SetTop(fs, f))] = f
         /\ Len(SetTop(fs, f)) = Len(fs)
         /\ Loops(SetTop(fs, f)) = Loops(fs)
         /\ \A d \in Loops(fs) : SetTop(fs, f)[d] = fs[d]
         /\ AllSeen(SetTop(fs, f), msgs) = AllSeen(fs, msgs)
<1>. DEFINE fs2 == SetTop(fs, f)
            n == Len(fs)
<1>1. fs \in Seq(Frame) /\ n <= MaxDepth
  BY DEF Shape
<1>2. n \notin Loops(fs)
  BY DEF Loops
<1>3. /\ fs2 \in Seq(Frame) /\ fs2 # <<>> /\ Len(fs2) = n /\ fs2[n] = f
      /\ Loops(fs2) = Loops(fs) \ {n}
      /\ \A d \in Loops(fs) \ {n} : fs2[d] = fs[d]
  BY <1>1, SetLoops
<1>. HIDE DEF fs2
<1>4. Loops(fs2) = Loops(fs) /\ \A d \in Loops(fs) : fs2[d] = fs[d]
  BY <1>2, <1>3
<1>5. \A d \in Loops(fs) : d < Len(fs2) => fs[d].par.more
  BY <1>3 DEF Shape, Kept
<1>6. Shape(fs2, msgs) /\ AllSeen(fs2, msgs) = AllSeen(fs, msgs)
  BY <1>1, <1>3, <1>4, <1>5, Keep
<1>. QED  BY <1>3, <1>4, <1>6 DEF fs2

\* A call is entered.
LEMMA AppendKeeps ==
  ASSUME NEW fs, NEW msgs, Shape(fs, msgs), NEW f \in Entered,
         Len(fs) < MaxDepth, \A d \in Loops(fs) : fs[d].par.more
  PROVE  /\ Shape(Append(fs, f), msgs)
         /\ AllSeen(Append(fs, f), msgs) = AllSeen(fs, msgs)
<1>. DEFINE fs2 == Append(fs, f)
<1>1. fs \in Seq(Frame)
  BY DEF Shape
<1>2. /\ fs2 \in Seq(Frame) /\ Len(fs2) = Len(fs) + 1 /\ Len(fs) \in Nat
      /\ Loops(fs2) = Loops(fs) /\ \A d \in Loops(fs) : fs2[d] = fs[d]
  BY <1>1, AppendLoops
<1>. HIDE DEF fs2
<1>3. Len(fs2) <= MaxDepth
  BY <1>2, LimitAssumption
<1>4. Shape(fs2, msgs) /\ AllSeen(fs2, msgs) = AllSeen(fs, msgs)
  BY <1>2, <1>3, Keep
<1>. QED  BY <1>4 DEF fs2

LEMMA JumpStep ==
  ASSUME IInv, NEW p \in InstPos, Jump(p)
  PROVE  IInv' /\ (Regular => OccStep)
<1>1. Running /\ steps' \in 0..MaxSteps
  BY LimitAssumption DEF Jump, Step, IInv
<1>2. PICK h \in BOOLEAN :
        frames' = SetTop(frames, [Top EXCEPT !.handler = h])
  BY DEF Jump
<1>. DEFINE f == [Top EXCEPT !.handler = h]
<1>3. f \in Frame /\ f.par = NoPar
  BY <1>1, RunningFacts DEF Frame
<1>4. frames' = SetTop(frames, f)
  BY <1>2
<1>. HIDE DEF f
<1>5. /\ Shape(frames', par_msgs)
      /\ AllSeen(frames', par_msgs) = AllSeen(frames, par_msgs)
  BY <1>1, <1>3, <1>4, RunningFacts, SetKeeps
<1>. QED  BY <1>1, <1>5, QuietStep DEF Jump, Running

LEMMA CallStep ==
  ASSUME IInv, NEW p \in InstPos, Call(p)
  PROVE  IInv' /\ (Regular => OccStep)
<1>1. Running /\ steps' \in 0..MaxSteps
  BY LimitAssumption DEF Call, Step, IInv
<1>2. CASE Room /\ \E f \in Entered :
             frames' = Append(SetTop(frames, [Top EXCEPT !.inst = p]), f)
           /\ UNCHANGED <<par_msgs, exc, ok, got, phase>>
  <2>1. PICK f \in Entered :
          frames' = Append(SetTop(frames, [Top EXCEPT !.inst = p]), f)
    BY <1>2
  <2>. DEFINE t == [Top EXCEPT !.inst = p]
              fs == SetTop(frames, t)
  <2>2. t \in Frame /\ t.par = NoPar
    BY <1>1, RunningFacts, PosAssumption DEF Frame
  <2>. HIDE DEF t
  <2>3. /\ Shape(fs, par_msgs) /\ Len(fs) = Len(frames)
        /\ Loops(fs) = Loops(frames)
        /\ \A d \in Loops(frames) : fs[d] = frames[d]
        /\ AllSeen(fs, par_msgs) = AllSeen(frames, par_msgs)
    BY <1>1, <2>2, RunningFacts, SetKeeps
  <2>. HIDE DEF fs
  <2>4. Len(fs) < MaxDepth /\ \A d \in Loops(fs) : fs[d].par.more
    BY <1>1, <1>2, <2>3, RunningFacts DEF Room
  <2>5. /\ Shape(frames', par_msgs)
        /\ AllSeen(frames', par_msgs) = AllSeen(frames, par_msgs)
    BY <2>1, <2>3, <2>4, AppendKeeps DEF fs, t
  <2>. QED  BY <1>1, <1>2, <2>5, QuietStep DEF Running
<1>3. CASE Fails(Trapped(NOMEM), p) \/ Fails(Trapped(STACK), p)
  <2>1. exc = NoExc
    BY <1>1, RunningFacts
  <2>2. Trapped(NOMEM) \in Failures /\ Trapped(STACK) \in Failures
    BY <2>1, CodeAssumption, FieldsTrapped DEF Str
  <2>. QED  BY <1>1, <1>3, <2>2, FailsStep
<1>. QED  BY <1>2, <1>3 DEF Call

LEMMA TrapStep ==
  ASSUME IInv, NEW p \in InstPos, NEW c \in Code, Trap(c, p)
  PROVE  IInv' /\ (Regular => OccStep)
<1>1. Running /\ steps' \in 0..MaxSteps
  BY LimitAssumption DEF Trap, Step, IInv
<1>2. PICK m \in Str : Fails([Trapped(c) EXCEPT !.exc_msg = m], p)
  BY DEF Trap
<1>3. [Trapped(c) EXCEPT !.exc_msg = m] \in Failures
  BY <1>1, FieldsTrapped, RunningFacts
<1>. QED  BY <1>1, <1>2, <1>3, FailsStep

LEMMA RaisesStep ==
  ASSUME IInv, NEW p \in InstPos, NEW c \in Code, NEW q \in Pos, NEW m \in Str,
         Raise(c, q, m, p)
  PROVE  IInv' /\ (Regular => OccStep)
<1>1. Running /\ steps' \in 0..MaxSteps
  BY LimitAssumption DEF Raise, Step, IInv
<1>. DEFINE x == [status |-> "trap", code |-> c, pos |-> q, pos_given |-> TRUE,
                  exc_msg |-> m]
<1>2. x \in Failures
  <2>1. m = Nil => <<c, Nil>> \in Raises
    BY DEF Raise
  <2>. QED  BY <2>1 DEF Failures, Fields, Status
<1>3. Fails(x, p)
  BY DEF Raise
<1>. HIDE DEF x
<1>. QED  BY <1>1, <1>2, <1>3, FailsStep

LEMMA StopStep ==
  ASSUME IInv, NEW p \in InstPos, Stop(p)
  PROVE  IInv' /\ (Regular => OccStep)
<1>1. Running /\ steps' \in 0..MaxSteps
  BY LimitAssumption DEF Stop, Step, IInv
<1>2. PICK s \in {"unreachable", "halt", "bad"} :
        Fails([exc EXCEPT !.status = s], p)
  BY DEF Stop
<1>3. [exc EXCEPT !.status = s] \in Failures
  <2>1. exc = NoExc
    BY <1>1, RunningFacts
  <2>. QED  BY <2>1, PosAssumption DEF NoExc, Failures, Fields, Status, Str
<1>. QED  BY <1>1, <1>2, <1>3, FailsStep

LEMMA ParForStep ==
  ASSUME IInv, NEW p \in InstPos, NEW lo \in Index, NEW hi \in Index,
         ParFor(lo, hi, p)
  PROVE  IInv' /\ (Regular => OccStep)
<1>1. Running /\ steps' \in 0..MaxSteps
  BY LimitAssumption DEF ParFor, Step, IInv
<1>. DEFINE par == [lo |-> lo, i |-> lo, hi |-> hi, more |-> lo <= hi,
                    raised |-> FALSE, code |-> 0, pos |-> 0,
                    slot |-> Len(par_msgs) + 1]
            f == [Top EXCEPT !.inst = p, !.par = par]
            PF == [lo : Index, i : Index, hi : Index, more : BOOLEAN,
                   raised : BOOLEAN, code : Code \cup {0}, pos : Pos,
                   slot : {Len(par_msgs) + 1}]
<1>2. /\ par \in PF /\ par.more = (lo <= hi) /\ par.i = lo /\ par.hi = hi
      /\ ~par.raised
  BY PosAssumption
<1>3. /\ phase = "run" /\ Shape(frames, par_msgs) /\ frames # <<>>
      /\ frames[Len(frames)].par = NoPar
      /\ \A d \in Loops(frames) : frames[d].par.more
      /\ Flight = None /\ exc = NoExc /\ ok /\ Top \in Frame
      /\ got \in {None} \cup [id : Code, pos : Pos, msg : Str]
  BY <1>1, RunningFacts DEF Running
<1>4. /\ frames' = SetTop(frames, f) /\ par_msgs' = Append(par_msgs, Nil)
      /\ exc' = exc /\ ok' = ok /\ got' = got /\ phase' = phase
  BY DEF ParFor
<1>. HIDE DEF par, PF
<1>5. f \in [handler : BOOLEAN, inst : InstPos, par : PF] /\ f.par = par
  BY <1>2, <1>3 DEF Frame
<1>6. Seen(par, Nil) = [todo |-> lo..hi, first |-> None]
  <2>1. (IF par.more THEN par.i..par.hi ELSE {}) = lo..hi
    <3>1. lo \in Int /\ hi \in Int
      BY IndexInt
    <3>2. CASE lo <= hi
      BY <1>2, <3>2
    <3>3. CASE ~(lo <= hi)
      <4>1. lo..hi = {}
        BY <3>1, <3>3
      <4>. QED  BY <1>2, <3>3, <4>1
    <3>. QED  BY <3>2, <3>3
  <2>. QED  BY <1>2, <2>1 DEF Seen
<1>. HIDE DEF f
<1>7. /\ Shape(frames', par_msgs')
      /\ AllSeen(frames', par_msgs')
           = Append(AllSeen(frames, par_msgs), Seen(par, Nil))
  <2>1. Begun(f, Len(par_msgs) + 1)
    BY <1>2, <1>5 DEF Begun, PF
  <2>2. /\ Shape(SetTop(frames, f), Append(par_msgs, Nil))
        /\ AllSeen(SetTop(frames, f), Append(par_msgs, Nil))
             = Append(AllSeen(frames, par_msgs), Seen(f.par, Nil))
    BY <1>3, <1>5, <2>1, Push
  <2>. QED  BY <1>4, <1>5, <2>2
<1>8. Settled(frames', exc', ok') /\ ok' \in BOOLEAN /\ exc' \in Fields
  BY <1>3, <1>4, FieldsNone DEF Settled, IInv
<1>9. IInv'
  BY <1>1, <1>3, <1>4, <1>7, <1>8, KeepInv
<1>10. Flight' = None /\ Pars' = Append(Pars, [todo |-> lo..hi, first |-> None])
  BY <1>3, <1>4, <1>6, <1>7, Abstract, FieldsNone DEF FlightOf
<1>11. OccStep
  BY <1>3, <1>4, <1>10, ParBeginStep
<1>. QED  BY <1>9, <1>11

LEMMA ReturnStep ==
  ASSUME IInv, NEW p \in InstPos, Return(p)
  PROVE  IInv' /\ (Regular => OccStep)
<1>1. Running /\ steps' \in 0..MaxSteps
  BY LimitAssumption DEF Return, Step, IInv
<1>2. /\ Shape(frames, par_msgs) /\ frames # <<>> /\ phase = "run"
      /\ frames[Len(frames)].par = NoPar /\ Flight = None
      /\ exc = NoExc /\ ok
      /\ got \in {None} \cup [id : Code, pos : Pos, msg : Str]
  BY <1>1, RunningFacts DEF Running
<1>3. /\ Shape(Below, par_msgs)
      /\ AllSeen(Below, par_msgs) = AllSeen(frames, par_msgs)
      /\ Below # <<>> =>
           (Below[Len(Below)].par # NoPar => Below[Len(Below)].par.more)
  BY <1>2, BelowShape DEF Below, Outer
<1>4. /\ par_msgs' = par_msgs /\ exc' = exc /\ ok' = ok /\ got' = got
      /\ phase' = phase
  BY DEF Return
<1>5. CASE Below # <<>> /\ Below[Len(Below)].par # NoPar
  <2>. DEFINE par == Below[Len(Below)].par
  <2>1. frames' = SetTop(Below, [Below[Len(Below)] EXCEPT !.par = NextIndex(par)])
    BY <1>5 DEF Return
  <2>2. Onward(par, par_msgs, par, par_msgs', None)
    BY <1>4 DEF Onward
  <2>3. /\ Shape(frames', par_msgs')
        /\ DoneOne(AllSeen(Below, par_msgs), AllSeen(frames', par_msgs'), None)
    BY <1>3, <1>5, <2>1, <2>2, Goes
  <2>4. Settled(frames', exc', ok') /\ ok' \in BOOLEAN /\ exc' \in Fields
    BY <1>2, <1>4, FieldsNone DEF Settled, IInv
  <2>5. IInv'
    BY <1>1, <1>2, <1>4, <2>3, <2>4, KeepInv
  <2>6. Flight' = None /\ DoneOne(Pars, Pars', None)
    BY <1>2, <1>3, <1>4, <2>3, Abstract, FieldsNone DEF FlightOf
  <2>7. OccStep
    BY <1>2, <1>4, <2>6, ParDoneStep
  <2>. QED  BY <2>5, <2>7
<1>6. CASE ~(Below # <<>> /\ Below[Len(Below)].par # NoPar)
  <2>1. frames' = Below
    BY <1>6 DEF Return
  <2>. QED  BY <1>1, <1>3, <1>4, <2>1, QuietStep DEF Running
<1>. QED  BY <1>5, <1>6

\* What leaves a call with the fields x is on its way from there.
LEMMA LeftStep ==
  ASSUME IInv, phase = "run", frames # <<>>, Top.par = NoPar,
         phase' = phase, steps' = steps, got' = got,
         NEW x \in Failures, Placed(x), CallLeft(x), Flight = FlightOf(x)
  PROVE  IInv' /\ (Regular => OccStep)
<1>1. Shape(frames, par_msgs)
  BY DEF IInv
<1>2. /\ Shape(frames', par_msgs') /\ exc' \in Fields /\ ok' \in BOOLEAN
      /\ Settled(frames', exc', ok')
      /\ \/ /\ Handled(x) /\ ok' /\ exc' = NoExc
            /\ DoneOne(AllSeen(frames, par_msgs),
                       AllSeen(frames', par_msgs'), Told(x))
         \/ /\ ~Handled(x)
            /\ ~ok' /\ exc' \in {At(x, p) : p \in Pos}
            /\ AllSeen(frames, par_msgs) # <<>>
            /\ AllSeen(frames', par_msgs') = Outer(AllSeen(frames, par_msgs))
         \/ /\ ~ok' /\ exc' \in {x} \cup {At(x, p) : p \in Pos}
            /\ AllSeen(frames', par_msgs') = AllSeen(frames, par_msgs)
  BY <1>1, CallEffect
<1>3. IInv'
  BY <1>2, KeepInv DEF IInv
<1>4. /\ Pars = AllSeen(frames, par_msgs) /\ Pars' = AllSeen(frames', par_msgs')
      /\ Flight' = FlightOf(exc')
  BY Abstract
<1>5. ASSUME Regular, Handled(x), ok', exc' = NoExc,
             DoneOne(AllSeen(frames, par_msgs),
                     AllSeen(frames', par_msgs'), Told(x))
      PROVE  OccStep
  <2>1. x.status = "trap" /\ x.code \notin Fatal
    BY <1>5 DEF Handled, Catchable
  <2>2. Flight # None /\ Flight.id \notin Fatal /\ Told(x) = Flight
    BY <1>5, <2>1, AtFlight, OccType
  <2>3. Flight' = None
    BY <1>4, <1>5, FieldsNone DEF FlightOf
  <2>. QED  BY <1>4, <1>5, <2>2, <2>3, ParDoneStep
<1>6. ASSUME Regular, ~Handled(x), exc' \in {At(x, p) : p \in Pos},
             AllSeen(frames, par_msgs) # <<>>,
             AllSeen(frames', par_msgs') = Outer(AllSeen(frames, par_msgs))
      PROVE  OccStep
  <2>1. exc' \in {x} \cup {At(x, p) : p \in Pos}
    BY <1>6
  <2>2. Flight' = Flight
    BY <1>4, <1>6, <2>1, AtFlight
  <2>3. CASE x.status = "trap"
    <3>1. x.code \in Fatal
      BY <1>6, <2>3 DEF Handled, Catchable
    <3>2. Flight # None /\ Flight.id \in Fatal
      BY <2>3, <3>1, AtFlight
    <3>. QED  BY <1>4, <1>6, <2>2, <3>2, ParStopStep
  <2>4. CASE x.status # "trap"
    <3>1. Flight = None
      BY <2>4, AtFlight
    <3>. QED  BY <1>4, <1>6, <2>2, <3>1, ParStopStep
  <2>. QED  BY <2>3, <2>4
<1>7. ASSUME Regular, exc' \in {x} \cup {At(x, p) : p \in Pos},
             AllSeen(frames', par_msgs') = AllSeen(frames, par_msgs)
      PROVE  OccStep
  <2>1. Flight' = Flight
    BY <1>4, <1>7, AtFlight
  <2>. QED  BY <1>4, <1>7, <2>1, StutterStep
<1>. QED  BY <1>2, <1>3, <1>5, <1>6, <1>7

LEMMA LimitStep ==
  ASSUME IInv, Limit
  PROVE  IInv' /\ (Regular => OccStep)
<1>. DEFINE x == [exc EXCEPT !.status = "limit"]
<1>1. x \in Failures /\ x.status = "limit" /\ Placed(x)
  <2>1. exc = NoExc
    BY RunningFacts DEF Limit
  <2>. QED  BY <2>1, PosAssumption DEF NoExc, Failures, Fields, Status, Str, Placed
<1>2. /\ phase = "run" /\ frames # <<>> /\ Top.par = NoPar /\ Flight = None
      /\ CallLeft(x) /\ phase' = phase /\ steps' = steps /\ got' = got
  BY RunningFacts DEF Limit
<1>. HIDE DEF x
<1>3. Flight = FlightOf(x)
  BY <1>1, <1>2 DEF FlightOf
<1>. QED  BY <1>1, <1>2, <1>3, LeftStep

\* Where something is on its way.
LEMMA FailingFacts ==
  ASSUME IInv, Failing
  PROVE  /\ phase = "run" /\ Shape(frames, par_msgs) /\ frames # <<>>
         /\ Top.par = NoPar /\ Top = frames[Len(frames)] /\ Top \in Frame
         /\ exc \in Failures /\ Placed(exc) /\ Flight = FlightOf(exc)
<1>1. /\ phase = "run" /\ Shape(frames, par_msgs) /\ frames # <<>>
      /\ frames[Len(frames)].par = NoPar /\ exc \in Failures /\ Placed(exc)
  BY DEF Failing, IInv, Settled
<1>2. frames[Len(frames)] \in Frame
  BY <1>1, OuterSeq DEF Shape
<1>. QED  BY <1>1, <1>2, Abstract DEF Top

LEMMA UnwindStep ==
  ASSUME IInv, Unwind
  PROVE  IInv' /\ (Regular => OccStep)
<1>1. /\ Failing /\ CallLeft(exc)
      /\ phase' = phase /\ steps' = steps /\ got' = got
  BY DEF Unwind
<1>. QED  BY <1>1, FailingFacts, LeftStep

LEMMA CaughtStep ==
  ASSUME IInv, Caught
  PROVE  IInv' /\ (Regular => OccStep)
<1>1. /\ Failing /\ Handled(exc)
      /\ got' = [id |-> exc.code, pos |-> exc.pos, msg |-> Message(exc)]
      /\ exc' = NoExc /\ ok' = TRUE
      /\ par_msgs' = par_msgs /\ steps' = steps /\ phase' = phase
  BY DEF Caught, Done
<1>2. PICK h \in BOOLEAN :
        frames' = SetTop(frames, [Top EXCEPT !.handler = h])
  BY DEF Caught
<1>. DEFINE f == [Top EXCEPT !.handler = h]
<1>3. f \in Frame /\ f.par = NoPar
  BY <1>1, FailingFacts DEF Frame
<1>4. frames' = SetTop(frames, f)
  BY <1>2
<1>. HIDE DEF f
<1>5. /\ Shape(frames', par_msgs')
      /\ AllSeen(frames', par_msgs') = AllSeen(frames, par_msgs)
  BY <1>1, <1>3, <1>4, FailingFacts, SetKeeps
<1>6. exc.status = "trap" /\ exc.code \in Code \ Fatal
  BY <1>1, FailingFacts DEF Handled, Catchable, Failures
<1>7. Message(exc) \in Msg /\ exc.pos \in Pos
  BY <1>1, <1>6, FailingFacts, OccType DEF Failures, Fields
<1>8. got' \in [id : Code, pos : Pos, msg : Msg]
  BY <1>1, <1>6, <1>7
<1>9. IInv'
  <2>1. got' \in [id : Code, pos : Pos, msg : Str]
    BY <1>1, <1>6, <1>7 DEF Str
  <2>2. Settled(frames', exc', ok') /\ exc' \in Fields /\ ok' \in BOOLEAN
    BY <1>1, FieldsNone DEF Settled
  <2>. QED  BY <1>1, <1>5, <2>1, <2>2, FailingFacts, KeepInv DEF IInv
<1>10. ASSUME Regular PROVE OccStep
  <2>1. Flight # None /\ Flight = OccOf(exc) /\ Flight.id \notin Fatal
    BY <1>1, <1>6, FailingFacts, AtFlight
  <2>2. Flight' = None /\ Pars' = Pars /\ Report = None /\ Report' = None
    BY <1>1, <1>5, FailingFacts, Abstract, FieldsNone DEF FlightOf
  <2>3. got' = Flight
    BY <1>1, <1>6, <1>10, <2>1, FailingFacts, OccType DEF Told
  <2>. QED  BY <1>1, <2>1, <2>2, <2>3, FailingFacts
            DEF OccStep, Occ!Next, Occ!Catch
<1>. QED  BY <1>9, <1>10

\* Where a par_for runs.
LEMMA InParFacts ==
  ASSUME IInv, InPar
  PROVE  /\ phase = "run" /\ ok /\ Shape(frames, par_msgs) /\ frames # <<>>
         /\ frames[Len(frames)].par # NoPar /\ Top = frames[Len(frames)]
         /\ exc = NoExc /\ Flight = None
         /\ steps \in 0..MaxSteps
         /\ got \in {None} \cup [id : Code, pos : Pos, msg : Str]
  BY Abstract, FieldsNone DEF InPar, IInv, Settled, Top, FlightOf

LEMMA ParIterStep ==
  ASSUME IInv, ParIter
  PROVE  IInv' /\ (Regular => OccStep)
<1>1. /\ phase = "run" /\ ok /\ Shape(frames, par_msgs) /\ frames # <<>>
      /\ frames[Len(frames)].par # NoPar /\ frames[Len(frames)].par.more
      /\ exc = NoExc /\ Flight = None
      /\ steps \in 0..MaxSteps
      /\ got \in {None} \cup [id : Code, pos : Pos, msg : Str]
      /\ steps' = steps /\ got' = got /\ phase' = phase
  BY InParFacts DEF ParIter
<1>2. CASE /\ Room
           /\ \E f \in Entered : frames' = Append(frames, f)
           /\ UNCHANGED <<par_msgs, exc, ok>>
  <2>1. PICK f \in Entered : frames' = Append(frames, f)
    BY <1>2
  <2>2. ASSUME NEW d \in Loops(frames)
        PROVE  frames[d].par.more
    <3>1. CASE d = Len(frames)
      BY <1>1, <3>1
    <3>2. CASE d # Len(frames)
      <4>1. d < Len(frames)
        BY <1>1, <3>2, TopLoop
      <4>. QED  BY <1>1, <4>1 DEF Shape, Kept
    <3>. QED  BY <3>1, <3>2
  <2>3. /\ Shape(frames', par_msgs)
        /\ AllSeen(frames', par_msgs) = AllSeen(frames, par_msgs)
    BY <1>1, <1>2, <2>1, <2>2, AppendKeeps DEF Room
  <2>. QED  BY <1>1, <1>2, <2>3, QuietStep
<1>3. ASSUME NEW c \in {NOMEM, STACK}, BodyLeft(frames, Trapped(c))
      PROVE  IInv' /\ (Regular => OccStep)
  <2>. DEFINE x == Trapped(c)
  <2>1. x \in Failures /\ x.status = "trap" /\ x.code = c /\ c \in Fatal
    <3>1. c \in Code /\ c \in Fatal
      BY CodeAssumption
    <3>2. x \in Failures /\ x.status = "trap" /\ x.code = c
      BY <1>1, <3>1, FieldsTrapped DEF Str
    <3>. QED  BY <3>1, <3>2
  <2>. HIDE DEF x
  <2>2. ~Handled(x) /\ BodyLeft(frames, x)
    BY <1>3, <2>1 DEF Handled, Catchable, x
  <2>3. /\ Shape(frames', par_msgs') /\ exc' \in Fields /\ ok' \in BOOLEAN
        /\ Settled(frames', exc', ok')
        /\ exc' \in {At(x, p) : p \in Pos}
        /\ AllSeen(frames, par_msgs) # <<>>
        /\ AllSeen(frames', par_msgs') = Outer(AllSeen(frames, par_msgs))
    BY <1>1, <2>1, <2>2, BodyEffect
  <2>4. IInv'
    BY <1>1, <2>3, KeepInv
  <2>5. exc' \in {x} \cup {At(x, p) : p \in Pos}
    BY <2>3
  <2>6. Flight' \in {o \in Occ!Occ : o.id \in Fatal}
    BY <1>1, <2>1, <2>5, AtFlight, Abstract
  <2>7. OccStep
    BY <1>1, <2>3, <2>6, Abstract, ParStopStep
  <2>. QED  BY <2>4, <2>7
<1>. QED  BY <1>2, <1>3 DEF ParIter

LEMMA ParEndsStep ==
  ASSUME IInv, ParEnd
  PROVE  IInv' /\ (Regular => OccStep)
<1>. DEFINE par == Top.par
            fs == SetTop(frames, [Top EXCEPT !.par = NoPar])
            msgs == SubSeq(par_msgs, 1, par.slot - 1)
            x == [status |-> "trap", code |-> par.code, pos |-> par.pos,
                  pos_given |-> TRUE, exc_msg |-> par_msgs[par.slot]]
            o == [id |-> par.code, pos |-> par.pos,
                  msg |-> par_msgs[par.slot]]
<1>1. /\ phase = "run" /\ ok /\ Shape(frames, par_msgs) /\ frames # <<>>
      /\ frames[Len(frames)].par # NoPar /\ Top = frames[Len(frames)]
      /\ exc = NoExc /\ Flight = None
      /\ steps \in 0..MaxSteps
      /\ got \in {None} \cup [id : Code, pos : Pos, msg : Str]
  BY InParFacts DEF ParEnd
<1>2. /\ ~par.more /\ par_msgs' = msgs /\ frames' = fs
      /\ IF par.raised THEN ok' = FALSE /\ exc' = x ELSE exc' = exc /\ ok' = ok
      /\ steps' = steps /\ got' = got /\ phase' = phase
  BY Zenon DEF ParEnd, MsgsAround
<1>3. /\ Shape(fs, msgs) /\ fs # <<>> /\ fs[Len(fs)].par = NoPar
      /\ AllSeen(fs, msgs) = Outer(AllSeen(frames, par_msgs))
  BY <1>1, Drop, Zenon
<1>4. /\ Pars # <<>> /\ Pars' = Outer(Pars)
      /\ Pars[Len(Pars)].todo = {}
      /\ ~par.raised => Pars[Len(Pars)].first = None
      /\ par.raised =>
           /\ Pars[Len(Pars)].first = o
           /\ par.code \in Code /\ par_msgs[par.slot] \in Msg
  <2>1. Pars = AllSeen(frames, par_msgs) /\ Pars' = AllSeen(frames', par_msgs')
    BY Abstract
  <2>2. /\ AllSeen(frames, par_msgs) # <<>>
        /\ LET Q == AllSeen(frames, par_msgs)
           IN  /\ Q[Len(Q)].todo = IF par.more THEN par.i..par.hi ELSE {}
               /\ ~par.raised => Q[Len(Q)].first = None
               /\ par.raised =>
                    /\ Q[Len(Q)].first = o
                    /\ par.code \in Code /\ par_msgs[par.slot] \in Msg
    BY <1>1, TopSeen, Zenon
  <2>. HIDE DEF par, fs, msgs, o
  <2>. QED  BY <1>2, <1>3, <2>1, <2>2
<1>5. par.pos \in Pos
  <2>1. par \in ParFrame
    BY <1>1, TopLoop
  <2>. QED  BY <2>1 DEF ParFrame
<1>. HIDE DEF fs, msgs
<1>6. CASE par.raised
  <2>1. x \in Failures /\ x.status = "trap" /\ x.code = par.code
        /\ x.pos = par.pos /\ x.pos_given
        /\ x.exc_msg = par_msgs[par.slot]
    BY <1>4, <1>5, <1>6, MsgAssumption DEF Failures, Fields, Status, Str
  <2>. HIDE DEF par, x, o
  <2>2. Placed(x)
    BY <2>1 DEF Placed
  <2>3. OccOf(x) = o
    BY <1>4, <1>6, <2>1, MsgAssumption DEF o, OccOf, Said
  <2>4. exc' = x /\ ok' = FALSE
    BY <1>2, <1>6
  <2>5. Settled(frames', exc', ok') /\ exc' \in Fields /\ ok' \in BOOLEAN
    BY <1>2, <1>3, <2>1, <2>2, <2>4 DEF Settled, Failures
  <2>6. IInv'
    BY <1>1, <1>2, <1>3, <2>5, KeepInv
  <2>7. Flight' = Pars[Len(Pars)].first
    BY <1>1, <1>2, <1>4, <1>6, <2>1, <2>3, <2>4, Abstract DEF FlightOf
  <2>8. OccStep
    BY <1>1, <1>2, <1>4, <2>7, ParEndStep
  <2>. QED  BY <2>6, <2>8
<1>7. CASE ~par.raised
  <2>. HIDE DEF par, x, o
  <2>1. exc' = NoExc /\ ok' = ok
    BY <1>1, <1>2, <1>7
  <2>2. Settled(frames', exc', ok') /\ exc' \in Fields /\ ok' \in BOOLEAN
    BY <1>1, <2>1, FieldsNone DEF Settled, IInv
  <2>3. IInv'
    BY <1>1, <1>2, <1>3, <2>2, KeepInv
  <2>4. Flight' = Pars[Len(Pars)].first
    BY <1>1, <1>2, <1>4, <1>7, <2>1, Abstract, FieldsNone DEF FlightOf
  <2>5. OccStep
    BY <1>1, <1>2, <1>4, <2>4, ParEndStep
  <2>. QED  BY <2>3, <2>5
<1>. QED  BY <1>6, <1>7

\* No call, no par_for.
LEMMA NoCalls ==
  ASSUME Shape(frames, par_msgs), frames = <<>>
  PROVE  Loops(frames) = {} /\ par_msgs = <<>> /\ Pars = <<>>
<1>1. Loops(frames) = {}
  BY EmptySeq DEF Loops
<1>2. par_msgs \in Seq(Str) /\ \A k \in 1..Len(par_msgs) : FALSE
  BY <1>1 DEF Shape, Slots
<1>3. par_msgs = <<>>
  <2>1. SUFFICES ASSUME par_msgs # <<>> PROVE FALSE
    OBVIOUS
  <2>2. Len(par_msgs) \in Nat \ {0}
    BY <1>2, <2>1, EmptySeq
  <2>3. \A k \in Nat \ {0} : 1 \in 1..k
    OBVIOUS
  <2>. QED  BY <1>2, <2>2, <2>3
<1>4. Pars \in Seq(View) /\ Len(Pars) = 0
  BY <1>3, Abstract, SeenOf, EmptySeq
<1>5. Pars = <<>>
  BY <1>4, EmptySeq
<1>. QED  BY <1>1, <1>3, <1>5

LEMMA StartStep ==
  ASSUME IInv, Start
  PROVE  IInv' /\ (Regular => OccStep)
<1>1. /\ phase = "start" /\ frames = <<>> /\ ok /\ exc = NoExc
      /\ Shape(frames, par_msgs) /\ steps \in 0..MaxSteps
      /\ got \in {None} \cup [id : Code, pos : Pos, msg : Str]
      /\ phase' = "run" /\ par_msgs' = par_msgs /\ steps' = steps
      /\ got' = got
  BY DEF Start, IInv, Settled
<1>2. Flight = None
  BY <1>1, Abstract
<1>3. CASE \E f \in Entered : frames' = <<f>> /\ UNCHANGED <<exc, ok>>
  <2>1. PICK f \in Entered : frames' = <<f>> /\ UNCHANGED <<exc, ok>>
    BY <1>3
  <2>2. frames' = Append(frames, f)
    BY <1>1, <2>1
  <2>3. /\ Shape(frames', par_msgs)
        /\ AllSeen(frames', par_msgs) = AllSeen(frames, par_msgs)
    <3>1. Len(frames) = 0
      BY <1>1, EmptySeq
    <3>2. Len(frames) < MaxDepth
      BY <3>1, LimitAssumption
    <3>3. \A d \in Loops(frames) : frames[d].par.more
      BY <1>1, NoCalls
    <3>. QED  BY <1>1, <2>2, <3>2, <3>3, AppendKeeps
  <2>4. Settled(frames', exc', ok') /\ exc' \in Fields /\ ok' \in BOOLEAN
    BY <1>1, <2>1, FieldsNone DEF Settled, IInv
  <2>5. IInv'
    BY <1>1, <2>3, <2>4, KeepInv
  <2>6. Pars' = Pars /\ Flight' = None
    BY <1>1, <2>1, <2>3, Abstract, FieldsNone DEF FlightOf
  <2>. QED  BY <1>1, <1>2, <2>5, <2>6, StutterStep
<1>4. CASE exc' = Trapped(NOMEM) /\ ok' = FALSE /\ UNCHANGED frames
  <2>1. exc' \in Failures /\ exc' \in Fields /\ exc'.status = "trap"
    <3>1. NOMEM \in Code
      BY CodeAssumption
    <3>2. Trapped(NOMEM) \in Failures /\ Trapped(NOMEM).status = "trap"
      BY <1>1, <3>1, FieldsTrapped DEF Str
    <3>. QED  BY <1>4, <3>2 DEF Failures
  <2>2. Settled(frames', exc', ok') /\ ok' \in BOOLEAN
    BY <1>1, <1>4, <2>1 DEF Settled
  <2>3. IInv'
    BY <1>1, <1>4, <2>1, <2>2, KeepInv
  <2>4. Pars' = Pars /\ Flight' \in Occ!Occ
    BY <1>1, <1>4, <2>1, Abstract, OccType DEF FlightOf
  <2>5. OccStep
    BY <1>1, <1>2, <2>4, RaiseStep
  <2>. QED  BY <2>3, <2>5
<1>. QED  BY <1>3, <1>4 DEF Start

\* The message of the report is that of the exception that ends the run.
LEMMA MessageGiven ==
  ASSUME NEW x \in Failures, x.status = "trap"
  PROVE  LET y == [x EXCEPT !.exc_msg = Message(x)]
         IN  /\ y \in Failures /\ y.status = "trap" /\ OccOf(y) = Told(x)
<1>. DEFINE m == Message(x)
            y == [x EXCEPT !.exc_msg = m]
<1>1. m \in Msg
  BY OccType
<1>. HIDE DEF m
<1>2. /\ y \in Failures /\ y.status = "trap" /\ y.code = x.code
      /\ y.pos = x.pos /\ y.exc_msg = m
  BY <1>1, MsgAssumption DEF Failures, Fields, Str
<1>. HIDE DEF y
<1>3. Message(y) = m /\ Said(y.exc_msg) = m
  BY <1>1, <1>2, MsgAssumption DEF Message, Said
<1>4. OccOf(y) = Told(x)
  BY <1>2, <1>3 DEF OccOf, Told, m
<1>. QED  BY <1>2, <1>4 DEF y, m

LEMMA EndStep ==
  ASSUME IInv, End
  PROVE  IInv' /\ (Regular => OccStep)
<1>1. /\ phase = "run" /\ frames = <<>> /\ phase' = "end"
      /\ frames' = frames /\ par_msgs' = par_msgs /\ ok' = ok
      /\ steps' = steps /\ got' = got
  BY DEF End
<1>2. /\ Shape(frames, par_msgs) /\ exc \in Fields
      /\ exc = NoExc \/ exc \in Failures
  BY <1>1 DEF IInv, Settled
<1>3. PICK failed \in BOOLEAN :
        LET x == IF failed /\ exc.status \in {"ok", "halt"}
                 THEN [exc EXCEPT !.status = "trap", !.code = IO, !.pos = 0,
                                  !.exc_msg = Nil]
                 ELSE exc
        IN  exc' = IF x.status = "trap" THEN [x EXCEPT !.exc_msg = Message(x)]
                   ELSE x
  BY DEF End
<1>. DEFINE io == [exc EXCEPT !.status = "trap", !.code = IO, !.pos = 0,
                              !.exc_msg = Nil]
            x == IF failed /\ exc.status \in {"ok", "halt"} THEN io ELSE exc
<1>4. ASSUME exc.status \in {"ok", "halt"}
      PROVE  /\ io \in Failures /\ io.status = "trap"
             /\ Told(io) \in Occ!FoundAtEnd
  <2>1. /\ ~exc.pos_given /\ exc \in Fields
    BY <1>2, <1>4, FieldsNone DEF Failures
  <2>2. /\ io \in Failures /\ io.status = "trap" /\ io.code = IO
        /\ io.pos = 0
    BY <2>1, CodeAssumption, PosAssumption DEF Failures, Fields, Status, Str
  <2>. HIDE DEF io
  <2>3. Message(io) \in Msg
    BY <2>2, OccType
  <2>. QED  BY <2>2, <2>3 DEF Told, Occ!FoundAtEnd
<1>5. exc' = IF x.status = "trap" THEN [x EXCEPT !.exc_msg = Message(x)] ELSE x
  BY <1>3
<1>. HIDE DEF io
<1>6. /\ x \in Fields
      /\ x.status = "trap" =>
           /\ x \in Failures
           /\ exc.status # "trap" => Told(x) \in Occ!FoundAtEnd
      /\ exc.status = "trap" => x = exc
  BY <1>2, <1>4, FieldsNone DEF Failures
<1>7. Flight = FlightOf(exc) /\ Flight' = None
  BY <1>1, Abstract
<1>8. Report' = IF exc'.status = "trap" THEN OccOf(exc') ELSE None
  BY <1>1 DEF Report, OccOf, Message, Said
<1>. HIDE DEF x
<1>9. CASE x.status = "trap"
  <2>1. /\ exc' \in Failures /\ exc'.status = "trap"
        /\ OccOf(exc') = Told(x)
    BY <1>5, <1>6, <1>9, MessageGiven
  <2>2. Report' = Told(x)
    BY <1>8, <2>1
  <2>3. exc' \in Fields
    BY <2>1 DEF Failures
  <2>4. IInv'
    BY <1>1, <1>2, <2>3 DEF IInv
  <2>5. ASSUME Regular
        PROVE  Report' \in IF Flight = None THEN Occ!FoundAtEnd \cup {None}
                           ELSE {Flight}
    <3>1. CASE exc.status = "trap"
      BY <1>6, <1>7, <2>2, <2>5, <3>1, OccType DEF FlightOf
    <3>2. CASE exc.status # "trap"
      BY <1>6, <1>7, <1>9, <2>2, <3>2 DEF FlightOf
    <3>. QED  BY <3>1, <3>2
  <2>6. ASSUME Regular
        PROVE  OccStep
    BY <1>1, <1>2, <1>7, <2>5, <2>6, NoCalls, Abstract
    DEF OccStep, Occ!Next, Occ!End
  <2>. QED  BY <2>4, <2>6
<1>10. CASE x.status # "trap"
  <2>1. exc' = x /\ exc.status # "trap"
    BY <1>5, <1>6, <1>10
  <2>2. Report' = None /\ Flight = None /\ exc' \in Fields
    BY <1>6, <1>7, <1>8, <1>10, <2>1 DEF FlightOf
  <2>. QED  BY <1>1, <1>2, <1>7, <2>2, NoCalls, Abstract
            DEF IInv, OccStep, Occ!Next, Occ!End
<1>. QED  BY <1>9, <1>10

-----------------------------------------------------------------------------
(* The specification                                                       *)

LEMMA InitInv ==
  ASSUME Init
  PROVE  IInv
<1>1. /\ frames = <<>> /\ par_msgs = <<>> /\ exc = NoExc /\ ok = TRUE
      /\ steps = 0 /\ got = None /\ phase = "start"
  BY DEF Init
<1>2. /\ <<>> \in Seq(Frame) /\ <<>> \in Seq(Str) /\ Len(<<>>) = 0
      /\ Loops(<<>>) = {}
  BY EmptySeq DEF Loops
<1>3. Shape(<<>>, <<>>)
  BY <1>2, LimitAssumption DEF Shape, Slots, Kept
<1>. QED  BY <1>1, <1>3, FieldsNone, LimitAssumption DEF IInv, Settled

LEMMA IdleStep ==
  ASSUME IInv, UNCHANGED vars
  PROVE  IInv' /\ (Regular => OccStep)
<1>1. /\ frames' = frames /\ par_msgs' = par_msgs /\ exc' = exc /\ ok' = ok
      /\ steps' = steps /\ got' = got /\ phase' = phase
  BY DEF vars
<1>2. IInv'
  BY <1>1 DEF IInv
<1>3. /\ Flight' = Flight /\ Pars' = Pars /\ Report' = Report
  BY <1>1, Abstract DEF Flight, Report, FlightOf, OccOf, Message, Said
<1>. QED  BY <1>1, <1>2, <1>3 DEF OccStep, Occ!vars

LEMMA NextStep ==
  ASSUME IInv, [Next]_vars
  PROVE  IInv' /\ (Regular => OccStep)
<1>1. ASSUME NEW p \in InstPos, Inst(p)
      PROVE  IInv' /\ (Regular => OccStep)
  BY <1>1, TrapStep, RaisesStep, ParForStep, StopStep, JumpStep, CallStep,
     ReturnStep DEF Inst
<1>2. CASE Start
  BY <1>2, StartStep
<1>3. CASE ParIter
  BY <1>3, ParIterStep
<1>4. CASE ParEnd
  BY <1>4, ParEndsStep
<1>5. CASE Limit
  BY <1>5, LimitStep
<1>6. CASE Caught
  BY <1>6, CaughtStep
<1>7. CASE Unwind
  BY <1>7, UnwindStep
<1>8. CASE End
  BY <1>8, EndStep
<1>9. CASE UNCHANGED vars
  BY <1>9, IdleStep
<1>. QED
  BY <1>1, <1>2, <1>3, <1>4, <1>5, <1>6, <1>7, <1>8, <1>9 DEF Next, Terminated

LEMMA InvAlways == Spec => []IInv
<1>1. Init => IInv
  BY InitInv
<1>2. IInv /\ [Next]_vars => IInv'
  BY NextStep
<1>. QED  BY <1>1, <1>2, PTL DEF Spec

\* The calls are never deeper than the limit, the steps never past theirs,
\* and every field holds what C has it hold, whatever the program does.
THEOREM TypeCorrect == Spec => []TypeOK
<1>1. IInv => TypeOK
  BY DEF IInv, Shape, TypeOK, Fields
<1>. QED  BY <1>1, InvAlways, PTL

\* A catcher, a handler or a par_for, resets every field of what it deals
\* with, and what ends a par_for goes on as a failure of its caller.
THEOREM NothingIsLeft == Spec => []NothingLeft
<1>1. IInv => NothingLeft
  BY DEF IInv, Settled, NothingLeft
<1>. QED  BY <1>1, InvAlways, PTL

\* As many par_for have a place up to k as there are places up to k.
LEMMA PlacesCount ==
  ASSUME NEW fs, NEW msgs, Shape(fs, msgs), NEW n \in 0..Len(msgs)
  PROVE  Cardinality({d \in Loops(fs) : fs[d].par.slot <= n}) = n
<1>. DEFINE D == {d \in Loops(fs) : fs[d].par.slot <= n}
            g == [k \in 1..n |-> CHOOSE d \in Loops(fs) : fs[d].par.slot = k]
<1>1. Len(msgs) \in Nat /\ n \in Nat /\ Len(fs) \in Nat
  BY LenProperties DEF Shape
<1>2. \A k \in 1..n : k \in 1..Len(msgs)
  BY <1>1
<1>3. ASSUME NEW k \in 1..n
      PROVE  g[k] \in Loops(fs) /\ fs[g[k]].par.slot = k
  <2>1. \E d \in Loops(fs) : fs[d].par.slot = k
    BY <1>2 DEF Shape, Slots
  <2>. QED  BY <2>1
<1>4. ASSUME NEW d \in D
      PROVE  \E k \in 1..n : g[k] = d
  <2>. DEFINE k == fs[d].par.slot
  <2>1. k \in 1..n
    BY <1>1 DEF Shape, Slots
  <2>2. g[k] \in Loops(fs) /\ fs[g[k]].par.slot = k
    BY <1>3, <2>1
  <2>3. ~(g[k] < d) /\ ~(d < g[k])
    <3>1. k \in Int
      BY <2>1
    <3>. HIDE DEF g
    <3>. QED  BY <2>2, <3>1 DEF Shape, Slots
  <2>4. g[k] \in Int /\ d \in Int
    <3>1. \A e \in Loops(fs) : e \in Int
      BY DEF Loops
    <3>. HIDE DEF g
    <3>. QED  BY <2>2, <3>1
  <2>. HIDE DEF g, k
  <2>5. g[k] = d
    BY <2>3, <2>4
  <2>. QED  BY <2>1, <2>5
<1>5. g \in [1..n -> D]
  <2>1. \A k \in 1..n : k <= n
    BY <1>1
  <2>. QED  BY <1>3, <2>1
<1>6. g \in Injection(1..n, D)
  <2>1. \A k, j \in 1..n : g[k] = g[j] => k = j
    <3>. HIDE DEF g
    <3>. QED  BY <1>3
  <2>. HIDE DEF g, D
  <2>. QED  BY <1>5, <2>1 DEF Injection, IsInjective
<1>7. g \in Surjection(1..n, D)
  <2>. HIDE DEF g, D
  <2>. QED  BY <1>4, <1>5 DEF Surjection
<1>8. ExistsBijection(1..n, D)
  BY <1>6, <1>7 DEF ExistsBijection, Bijection
<1>. HIDE DEF D
<1>9. Cardinality(D) = n
  BY <1>1, <1>8, FS_CountingElements
<1>. QED  BY <1>9 DEF D

\* The shared stack of messages is that of the par_for running, however each
\* of the others ended: no par_for writes the message of another.
THEOREM SlotsRight == Spec => []ParSlots
<1>1. ASSUME IInv PROVE ParSlots
  <2>1. Shape(frames, par_msgs) /\ ParsRunning = Loops(frames)
    BY <1>1 DEF IInv, ParsRunning, Loops
  <2>2. Len(par_msgs) \in Nat /\ Len(frames) \in Nat
    BY <2>1, LenProperties DEF Shape
  <2>3. ASSUME NEW d \in Loops(frames)
        PROVE  frames[d].par.slot = Cardinality({k \in Loops(frames) : k <= d})
    <3>. DEFINE n == frames[d].par.slot
    <3>1. n \in 1..Len(par_msgs)
      BY <2>1 DEF Shape, Slots
    <3>2. ASSUME NEW k \in Loops(frames)
          PROVE  k <= d <=> frames[k].par.slot <= n
      <4>1. k \in Int /\ d \in Int
        BY <2>2 DEF Loops
      <4>2. /\ frames[k].par.slot \in Int /\ n \in Int
            /\ k < d => frames[k].par.slot < n
            /\ d < k => n < frames[k].par.slot
        BY <2>1, <2>2 DEF Shape, Slots
      <4>3. k = d => frames[k].par.slot = n
        OBVIOUS
      <4>. HIDE DEF n
      <4>. QED  BY <4>1, <4>2, <4>3
    <3>3. {k \in Loops(frames) : k <= d}
            = {k \in Loops(frames) : frames[k].par.slot <= n}
      BY <3>2
    <3>4. n \in 0..Len(par_msgs)
      BY <2>2, <3>1
    <3>. HIDE DEF n
    <3>5. Cardinality({k \in Loops(frames) : frames[k].par.slot <= n}) = n
      BY <2>1, <3>4, PlacesCount
    <3>. QED  BY <3>3, <3>5 DEF n
  <2>4. Len(par_msgs) = Cardinality(Loops(frames))
    <3>1. \A k \in Loops(frames) : frames[k].par.slot <= Len(par_msgs)
      BY <2>1, <2>2 DEF Shape, Slots
    <3>2. Loops(frames)
            = {k \in Loops(frames) : frames[k].par.slot <= Len(par_msgs)}
      BY <3>1
    <3>3. Len(par_msgs) \in 0..Len(par_msgs)
      BY <2>2
    <3>. QED  BY <2>1, <3>2, <3>3, PlacesCount
  <2>. QED  BY <2>1, <2>3, <2>4 DEF ParSlots
<1>. QED  BY <1>1, InvAlways, PTL

\* What no handler may catch, and whatever else stops the run, runs no more
\* instruction: not of a handler, a par_for or a caller.
THEOREM FatalStopsTheRun == Spec => FatalStops
<1>. DEFINE Fatally == ~ok /\ (exc.status # "trap" \/ exc.code \in Fatal)
            Stopped == ~ok' /\ steps' = steps /\ got' = got
<1>1. ASSUME IInv, [Next]_vars, Fatally PROVE Stopped
  <2>1. ~Handled(exc) /\ ~Running /\ ~InPar /\ phase # "start"
    BY <1>1 DEF Handled, Catchable, Running, InPar, IInv
  <2>2. ASSUME NEW p \in InstPos, Inst(p) PROVE FALSE
    BY <2>1, <2>2 DEF Inst, Trap, Raise, ParFor, Stop, Jump, Call, Return, Step
  <2>3. CASE Start \/ ParIter \/ ParEnd \/ Limit \/ Caught
    BY <2>1, <2>3 DEF Start, ParIter, ParEnd, Limit, Caught
  <2>4. CASE Unwind
    <3>1. CallLeft(exc) /\ steps' = steps /\ got' = got
      BY <2>4 DEF Unwind
    <3>2. ok' = FALSE
      BY <2>1, <3>1, Zenon DEF CallLeft, BodyLeft
    <3>. QED  BY <3>1, <3>2
  <2>5. CASE End \/ UNCHANGED vars
    BY <1>1, <2>5 DEF End, vars
  <2>. QED  BY <1>1, <2>2, <2>3, <2>4, <2>5 DEF Next, Terminated
<1>2. IInv /\ [Next]_vars => [Fatally => Stopped]_vars
  BY <1>1
<1>. QED  BY <1>2, InvAlways, PTL DEF Spec, FatalStops

\* Of a program whose instructions have positions, and that raises the word 0
\* as message of no identity with a text, an occurrence reaches the handler, the
\* par_for or the report with the identity, the position and the message it
\* was raised with, whatever was caught, kept or dropped before it: the
\* fields of the run are the exceptions of the IR.
THEOREM RunImplements ==
  ASSUME Regular
  PROVE  Spec => Implements
<1>1. ASSUME Init PROVE Occ!Init
  <2>1. /\ frames = <<>> /\ got = None /\ phase = "start"
        /\ Shape(frames, par_msgs)
    BY <1>1, InitInv DEF Init, IInv
  <2>2. Flight = None /\ Report = None
    BY <2>1 DEF Flight, Report
  <2>. QED  BY <2>1, <2>2, NoCalls DEF Occ!Init
<1>2. IInv /\ [Next]_vars => [Occ!Next]_(Occ!vars)
  BY NextStep DEF OccStep
<1>. QED  BY <1>1, <1>2, InvAlways, PTL DEF Spec, Implements, Occ!Spec
=============================================================================
