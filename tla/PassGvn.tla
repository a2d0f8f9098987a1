-------------------------------- MODULE PassGvn -------------------------------
(***************************************************************************)
(* The pass "gvn" (src/opt/gvn.c): along the dominator tree each           *)
(* instruction is folded (src/opt/fold.c, its integer part), then replaced *)
(* by an equal one in scope. A check in scope makes one of the same        *)
(* condition needless, whatever its code.                                  *)
(***************************************************************************)
EXTENDS Edit, Bitwise

\* ival
IVal(x, i) ==
  LET in == x.f.insts[Resolve(x.e, i)] IN
    [known |-> in.op = "iconst",
     v |-> IF in.op = "iconst" THEN Norm(in.imm, in.ty) ELSE 0]

-----------------------------------------------------------------------------
(* Folding. An operator gives [ok, v], ok FALSE when it is left to run     *)
(* time: what would trap is never folded.                                  *)

Folded(v) == [ok |-> TRUE, v |-> v]
LeftAlone == [ok |-> FALSE, v |-> 0]
When(fits, v) == IF fits THEN Folded(v) ELSE LeftAlone

SMin(w) == -(2^(w - 1))
FitsSigned(v, w) == v \in SMin(w)..(-SMin(w) - 1)

\* a / b, towards zero
CQuot(a, b) ==
  LET up(n) == IF n < 0 THEN -n ELSE n
      q == up(a) \div up(b)
  IN IF (a < 0) # (b < 0) THEN -q ELSE q

\* Mutant: the smallest number divided by -1 is folded too.
DividesAlways(w, a, b) == b # 0

Divides(w, a, b) == b # 0 /\ ~(a = SMin(w) /\ b = -1)

\* fold_int_bin
FoldIntBin(op, w, a, b) ==
  LET ua == Unsigned(a, w)
      ub == Unsigned(b, w)
      max == 2^w - 1
  IN CASE op = "add" -> Folded(ua + ub)
       [] op = "sub" -> Folded(ua - ub)
       [] op = "mul" -> Folded(ua * ub)
       [] op = "and" -> Folded(ua & ub)
       [] op = "or" -> Folded(ua | ub)
       [] op = "xor" -> Folded(ua ^^ ub)
       [] op = "shl" -> Folded(ua * 2^(ub % w))
       [] op = "lshr" -> Folded(ua \div 2^(ub % w))
       [] op = "ashr" -> Folded(a \div 2^(ub % w))
       [] op = "udiv" -> When(ub # 0, ua \div ub)
       [] op = "urem" -> When(ub # 0, ua % ub)
       [] op = "sdiv" -> When(Divides(w, a, b), CQuot(a, b))
       [] op = "srem" -> When(Divides(w, a, b), a - CQuot(a, b) * b)
       [] op = "add.ov" -> When(FitsSigned(a + b, w), a + b)
       [] op = "sub.ov" -> When(FitsSigned(a - b, w), a - b)
       [] op = "mul.ov" -> When(FitsSigned(a * b, w), a * b)
       [] op = "uadd.ov" -> When(ua + ub <= max, ua + ub)
       [] op = "usub.ov" -> When(ua >= ub, ua - ub)
       [] op = "umul.ov" -> When(ua * ub <= max, ua * ub)

\* fold_icmp
FoldIcmp(cc, w, a, b) ==
  LET lt(x, y) == IF cc \in {"ult", "ule", "ugt", "uge"}
                  THEN Unsigned(x, w) < Unsigned(y, w) ELSE x < y
  IN CASE cc = "eq" -> a = b
       [] cc = "ne" -> a # b
       [] cc \in {"slt", "ult"} -> lt(a, b)
       [] cc \in {"sle", "ule"} -> ~lt(b, a)
       [] cc \in {"sgt", "ugt"} -> lt(b, a)
       [] cc \in {"sge", "uge"} -> ~lt(a, b)

\* A pass over one instruction gives the context and whether it changed.
Same(x) == [x |-> x, hit |-> FALSE]
Hit(x) == [x |-> x, hit |-> TRUE]
ToValue(x, i, v) == Hit([x EXCEPT !.e = Replace(@, i, v)])
ToConst(x, i, v) == Hit(SetConst(x, i, v))

\* identity: one constant operand k, or twice the same operand (which is
\* then no constant)
Identities(x, i) ==
  LET in == x.f.insts[i]
      p == in.ops[1]
      q == in.ops[2]
      kx == IVal(x, p).known
      ky == ~kx /\ IVal(x, q).known
      k == IF kx THEN IVal(x, p).v ELSE IVal(x, q).v
      other == IF kx THEN q ELSE p
      ones == Norm(-1, in.ty)
      const(v) == (kx \/ ky) /\ k = v
      twice == Resolve(x.e, p) = Resolve(x.e, q)
  IN CASE in.op \in {"add", "or", "xor"} /\ const(0) -> ToValue(x, i, other)
       [] in.op \in {"sub", "shl", "lshr", "ashr"} /\ ky /\ k = 0 ->
            ToValue(x, i, p)
       [] in.op = "mul" /\ const(1) -> ToValue(x, i, other)
       [] in.op \in {"mul", "and"} /\ const(0) -> ToConst(x, i, 0)
       [] in.op = "and" /\ const(ones) -> ToValue(x, i, other)
       [] in.op \in {"udiv", "sdiv"} /\ ky /\ k = 1 -> ToValue(x, i, p)
       [] in.op = "or" /\ const(ones) -> ToConst(x, i, ones)
       [] in.op \in {"sub", "xor"} /\ twice -> ToConst(x, i, 0)
       [] in.op \in {"and", "or"} /\ twice -> ToValue(x, i, p)
       [] OTHER -> Same(x)

\* fold_conv, between integers
FoldConv(in, from, a) ==
  CASE in.op = "trunc" -> a
    [] in.op = "zext" -> Unsigned(a, from)
    [] in.op = "sext" -> IF from = 1 THEN -a ELSE a

\* fold_inst
FoldInst(x, i) ==
  LET in == x.f.insts[i]
      v(k) == IVal(x, in.ops[k])
      known(k) == v(k).known
      stand(k) == Resolve(x.e, in.ops[k])
      w == x.f.insts[stand(1)].ty
  IN CASE in.op = "check" ->
            IF known(1) /\ v(1).v # 0
            THEN Hit([x EXCEPT !.e.dead = @ \cup {i}]) ELSE Same(x)
       [] in.op \in {"neg", "not"} ->
            IF ~known(1) THEN Same(x)
            ELSE ToConst(x, i, IF in.op = "neg" THEN -Unsigned(v(1).v, in.ty)
                               ELSE -1 - v(1).v)
       [] in.op \in Binary ->
            IF known(1) /\ known(2)
            THEN LET r == FoldIntBin(in.op, in.ty, v(1).v, v(2).v)
                 IN IF r.ok THEN ToConst(x, i, r.v) ELSE Same(x)
            ELSE Identities(x, i)
       [] in.op = "icmp" ->
            LET yes(c) == ToConst(x, i, IF c THEN 1 ELSE 0) IN
            CASE known(1) /\ known(2) ->
                   yes(FoldIcmp(in.cc, w, v(1).v, v(2).v))
              [] ~(known(1) /\ known(2)) /\ stand(1) = stand(2) ->
                   yes(in.cc \in {"eq", "sle", "sge", "ule", "uge"})
              [] OTHER -> Same(x)
       [] in.op = "select" ->
            IF known(1) THEN ToValue(x, i, in.ops[IF v(1).v # 0 THEN 2 ELSE 3])
            ELSE IF stand(2) = stand(3) THEN ToValue(x, i, in.ops[2])
            ELSE Same(x)
       [] in.op \in Conversion ->
            IF known(1) THEN ToConst(x, i, FoldConv(in, w, v(1).v)) ELSE Same(x)
       [] OTHER -> Same(x)

-----------------------------------------------------------------------------
(* Equal values                                                            *)

\* mergeable
Mergeable(in) == in.op = "check" \/ (in.op \in Pure /\ in.op # "param")

\* Mutant: the operands as they were made.
OperandsAsMade(x, in) ==
  IF in.op \in Commutative /\ in.ops[1] > in.ops[2] THEN <<in.ops[2], in.ops[1]>>
  ELSE in.ops

\* operands: as they stand now, those of a commutative operation in order
Operands(x, in) ==
  LET o == ResolveAll(x.e, in.ops) IN
  IF in.op \in Commutative /\ o[1] > o[2] THEN <<o[2], o[1]>> ELSE o

\* same: the key of a check is its condition only
SameValue(x, a, b) ==
  LET p == x.f.insts[a]
      q == x.f.insts[b]
  IN /\ p.op = q.op /\ p.ty = q.ty
     /\ p.op # "check" =>
          IF p.op = "iconst" THEN Norm(p.imm, p.ty) = Norm(q.imm, q.ty)
          ELSE p.imm = q.imm /\ p.cc = q.cc
     /\ Operands(x, p) = Operands(x, q)

\* lookup_or_add, merge: an equal value in scope stands for i, else i is
\* in scope. r has the context, the changes and the scope.
Numbered(r, i) ==
  LET x == r.x
      equal == SelectLastInSeq(r.scope, LAMBDA j : SameValue(x, j, i))
  IN IF equal = 0 THEN [r EXCEPT !.scope = Append(@, i)]
     ELSE [r EXCEPT !.n = @ + 1,
             !.x = IF Op(x.f, i) = "check"
                   THEN [x EXCEPT !.e.dead = @ \cup {i}]
                   ELSE [x EXCEPT !.e = Replace(@, i, r.scope[equal])]]

\* What folding i gave, and i numbered unless another value stands for it.
AfterFold(r, i, folded) ==
  LET x == folded.x
      q == [r EXCEPT !.x = x, !.n = @ + (IF folded.hit THEN 1 ELSE 0)]
  IN IF (folded.hit /\ x.e.map[i] # i) \/ ~Mergeable(x.f.insts[i])
     THEN q ELSE Numbered(q, i)

\* visit, at instruction i
VisitInst(fold, r, i) ==
  IF i \in r.x.e.dead THEN r
  ELSE AfterFold(r, i, IF fold /\ Op(r.x.f, i) # "param"
                       THEN FoldInst(r.x, i) ELSE Same(r.x))

\* Mutant: the scope of a block is kept for the blocks beside it.
LeaveOpen(below, r) == below

\* On the way back up the values of the block are forgotten.
Leave(below, r) == [below EXCEPT !.scope = r.scope]

\* The walk of the dominator tree, from block b.
RECURSIVE WalkTree(_, _, _)
WalkTree(fold, r, b) ==
  LET n == Len(r.x.f.blocks)
      kids == InOrder({c \in (1..n) \ {Entry} : r.x.cfg.idom[c] = b}, n)
      here == FoldLeft(LAMBDA q, i : VisitInst(fold, q, i), r, Lst(r.x.f, b))
  IN FoldLeft(LAMBDA q, c : Leave(WalkTree(fold, q, c), q), here, kids)

\* limba_pass_gvn
Gvn(x, fold) ==
  WalkTree(fold, [x |-> WithCfg(x), n |-> 0, scope |-> <<>>], Entry)
=============================================================================
