-------------------------------- MODULE IrEval --------------------------------
(***************************************************************************)
(* What a function of the IR does, as the reference evaluator runs it      *)
(* (src/eval/eval.c): the meaning the optimiser must keep.                 *)
(*                                                                         *)
(* A run is [mem, out, fuel, how, v]: the cells of memory, an address for  *)
(* each (a slot, or the block given to main), what was printed, the blocks *)
(* it may still enter, and how it ended: "ret" with a value, "raise" with  *)
(* a code no handler of the function caught, "fault" at an access no check *)
(* allowed (a wrong module), "fuel".                                       *)
(***************************************************************************)
EXTENDS Ir, Bitwise

DivZero == 11
Overflow == 6
InvalidFree == 106
Uncatchable == {7, 28}

\* norm of what uv gives
Fits(v, w) == -(2^(w - 1)) <= v /\ v < 2^(w - 1)

\* Division of C, towards zero.
Quot(a, b) ==
  LET abs(x) == IF x < 0 THEN -x ELSE x
      q == abs(a) \div abs(b)
  IN IF (a < 0) = (b < 0) THEN q ELSE -q

\* int_bin: the value, or the trap it raises
Value(v) == [trap |-> 0, v |-> v]
Trap(code) == [trap |-> code, v |-> 0]
IntBin(op, w, a, b) ==
  LET ua == Unsigned(a, w)
      ub == Unsigned(b, w)
      value(v) == Value(Norm(v, w))
      signed(v) == IF Fits(v, w) THEN value(v) ELSE Trap(Overflow)
      unsigned(v) == IF v \in 0..(2^w - 1) THEN value(v) ELSE Trap(Overflow)
      nodiv == b = 0 \/ (a = -(2^(w - 1)) /\ b = -1)
  IN CASE op = "add" -> value(ua + ub)
       [] op = "sub" -> value(ua - ub)
       [] op = "mul" -> value(ua * ub)
       [] op = "and" -> value(ua & ub)
       [] op = "or" -> value(ua | ub)
       [] op = "xor" -> value(ua ^^ ub)
       [] op = "shl" -> value(ua * 2^(ub % w))
       [] op = "lshr" -> value(ua \div 2^(ub % w))
       [] op = "ashr" -> value(a \div 2^(ub % w))
       [] op = "udiv" -> IF ub = 0 THEN Trap(DivZero) ELSE value(ua \div ub)
       [] op = "urem" -> IF ub = 0 THEN Trap(DivZero) ELSE value(ua % ub)
       [] op = "sdiv" -> IF nodiv THEN Trap(DivZero) ELSE value(Quot(a, b))
       [] op = "srem" -> IF nodiv THEN Trap(DivZero)
                         ELSE value(a - b * Quot(a, b))
       [] op = "add.ov" -> signed(a + b)
       [] op = "sub.ov" -> signed(a - b)
       [] op = "mul.ov" -> signed(a * b)
       [] op = "uadd.ov" -> unsigned(ua + ub)
       [] op = "usub.ov" -> unsigned(ua - ub)
       [] op = "umul.ov" -> unsigned(ua * ub)

\* compare
Compare(cc, w, a, b) ==
  LET ua == Unsigned(a, w)
      ub == Unsigned(b, w)
      yes == CASE cc = "eq" -> a = b    [] cc = "ne" -> a # b
               [] cc = "slt" -> a < b   [] cc = "sle" -> a <= b
               [] cc = "sgt" -> a > b   [] cc = "sge" -> a >= b
               [] cc = "ult" -> ua < ub [] cc = "ule" -> ua <= ub
               [] cc = "ugt" -> ua > ub [] cc = "uge" -> ua >= ub
  IN IF yes THEN 1 ELSE 0

\* The value of an instruction without effect, o the values of its operands
\* and w the width of the first: norm, convert, the cases of call.
Plain(in, w, o, base) ==
  CASE in.op = "iconst" -> Norm(in.imm, in.ty)
    [] in.op = "neg" -> Norm(-o[1], in.ty)
    [] in.op = "not" -> Norm(-1 - o[1], in.ty)
    [] in.op = "icmp" -> Compare(in.cc, w, o[1], o[2])
    [] in.op = "select" -> IF o[1] # 0 THEN o[2] ELSE o[3]
    [] in.op = "trunc" -> Norm(o[1], in.ty)
    [] in.op = "zext" -> Norm(Unsigned(o[1], w), in.ty)
    [] in.op = "sext" -> IF w = 1 THEN Norm(-o[1], in.ty) ELSE Norm(o[1], in.ty)
    [] in.op = "slot" -> base + in.imm
    [] in.op = "bits_pow" ->
         IF o[2] = 0 THEN Norm(1, in.ty)
         ELSE Norm(Unsigned(o[1], w)^Unsigned(o[2], w), in.ty)

\* An address the program may access: wild
Mapped(s, p) == p \in DOMAIN s.mem /\ s.mem[p].live

\* A call of the run-time library, or an access to memory: the run after it
\* and its value.
Done(s, v) == [s |-> s, trap |-> 0, v |-> v]
Touch(in, o, s) ==
  CASE in.op = "print" -> Done([s EXCEPT !.out = Append(@, o[1])], 0)
    [] in.op = "ptr_live" -> Done(s, IF Mapped(s, o[1]) THEN 1 ELSE 0)
    [] in.op = "mem_free" ->
         IF o[1] = 0 THEN Done(s, 0)
         ELSE IF Mapped(s, o[1])
              THEN Done([s EXCEPT !.mem[o[1]].live = FALSE], 0)
              ELSE [s |-> s, trap |-> InvalidFree, v |-> 0]
    [] in.op \in {"load", "load.inv"} ->
         IF Mapped(s, o[1]) THEN Done(s, s.mem[o[1]].v)
         ELSE Done([s EXCEPT !.how = "fault"], 0)
    [] in.op = "store" ->
         IF Mapped(s, o[2]) THEN Done([s EXCEPT !.mem[o[2]].v = o[1]], 0)
         ELSE Done([s EXCEPT !.how = "fault"], 0)
    [] in.op = "memset" ->
         IF Mapped(s, o[1]) THEN Done([s EXCEPT !.mem[o[1]].v = o[2]], 0)
         ELSE Done([s EXCEPT !.how = "fault"], 0)

RECURSIVE CallFn(_, _, _, _), From(_, _, _, _, _, _, _)

\* call: the slots are made, zero, and are gone after it
CallFn(M, fid, args, s) ==
  LET f == M[fid]
      base == Len(s.mem)
      ps == Params(f, Entry)
      env == [i \in DOMAIN f.insts |->
                IF Contains(ps, i)
                THEN args[SelectInSeq(ps, LAMBDA p : p = i)] ELSE 0]
      zero == [k \in 1..f.slots |-> [live |-> TRUE, v |-> 0]]
      r == From(M, f, base, Entry, Len(ps) + 1, env,
                [s EXCEPT !.mem = @ \o zero])
  IN [r EXCEPT !.mem = SubSeq(@, 1, base)]

\* call, from the k-th instruction of block b on: env has the values
From(M, f, base, b, k, env, s) ==
  LET id == Lst(f, b)[k]
      in == f.insts[id]
      o  == [j \in DOMAIN in.ops |-> env[in.ops[j]]]
      w  == IF in.ops = <<>> THEN 0 ELSE f.insts[in.ops[1]].ty
      \* a run that goes on with the next instruction
      on(v, t) == IF t.how # "run" THEN t
                  ELSE From(M, f, base, b, k + 1, [env EXCEPT ![id] = v], t)
      \* jump, and caught: into block c with the values of its parameters
      into(c, vals, t) ==
        LET ps == Params(f, c) IN
        IF t.fuel = 0 THEN [t EXCEPT !.how = "fuel"]
        ELSE From(M, f, base, c, Len(ps) + 1,
                  [i \in DOMAIN env |->
                     IF Contains(ps, i)
                     THEN vals[SelectInSeq(ps, LAMBDA p : p = i)] ELSE env[i]],
                  [t EXCEPT !.fuel = @ - 1])
      jump(t) == into(t.b, [j \in DOMAIN t.args |-> env[t.args[j]]], s)
      fails(code, t) ==
        IF Handler(f, b) # None /\ code \notin Uncatchable
        THEN into(Handler(f, b), <<code>>, [t EXCEPT !.how = "run"])
        ELSE [t EXCEPT !.how = "raise", !.v = code]
  IN CASE in.op \in Binary ->
            LET r == IntBin(in.op, in.ty, o[1], o[2])
            IN IF r.trap = 0 THEN on(r.v, s) ELSE fails(r.trap, s)
       [] in.op \in Pure \cup {"bits_pow"} /\ in.op \notin Binary ->
            on(Plain(in, w, o, base), s)
       [] in.op = "check" -> IF o[1] # 0 THEN on(0, s) ELSE fails(in.imm, s)
       [] in.op = "call" ->
            LET r == CallFn(M, in.imm, o, s)
            IN CASE r.how = "ret" -> on(r.v, [r EXCEPT !.how = "run"])
                 [] r.how = "raise" -> fails(r.v, r)
                 [] OTHER -> r
       [] in.op = "br" -> jump(in.to[1])
       [] in.op = "cbr" -> jump(in.to[IF o[1] # 0 THEN 1 ELSE 2])
       [] in.op = "switch" ->
            LET hit(c) == Norm(in.cases[c], w) = o[1]
            IN jump(in.to[1 + SelectInSeq([c \in DOMAIN in.cases |-> hit(c)],
                                          LAMBDA h : h)])
       [] in.op = "ret" ->
            [s EXCEPT !.how = "ret", !.v = IF o = <<>> THEN 0 ELSE o[1]]
       [] in.op = "trap" -> fails(in.imm, s)
       [] in.op = "raise" -> fails(o[1], s)
       [] OTHER ->
            LET r == Touch(in, o, s)
            IN IF r.trap = 0 THEN on(r.v, r.s) ELSE fails(r.trap, r.s)

\* A run of main, given a block of memory at address 1 and its arguments.
Meaning(M, fid, args, fuel) ==
  LET r == CallFn(M, fid, args,
             [mem |-> <<[live |-> TRUE, v |-> 1]>>, out |-> <<>>,
              fuel |-> fuel, how |-> "run", v |-> 0])
  IN [out |-> r.out, how |-> r.how, v |-> r.v, heap |-> r.mem[1]]

\* Both ended, and the same; or one ran out of fuel, and nothing they said
\* differs. A function that faults may do anything.
Agree(r, q) ==
  \/ r.how = "fault"
  \/ r.how # "fuel" /\ q.how # "fuel" /\ r = q
  \/ r.how = "fuel" /\ (IsPrefix(r.out, q.out) \/ IsPrefix(q.out, r.out))
  \/ q.how = "fuel" /\ IsPrefix(q.out, r.out)
=============================================================================
