------------------------------ MODULE MCOptimizer -----------------------------
(***************************************************************************)
(* Small modules for the optimiser: families of functions with holes, over *)
(* integers of two bits. They are written with names for values: a line is *)
(* an instruction with a name, and Fn numbers the lines. Every module has  *)
(* its main first, of parameters "p", the address of a block of memory,    *)
(* and "n", an integer.                                                    *)
(***************************************************************************)
EXTENDS Optimizer

W == 2
Ints == -2..1

L(nm, op, ty, imm, ops) == Inst(op, ty, imm, ops, <<>>) @@ [nm |-> nm]
Icmp(nm, cc, ops) == [L(nm, "icmp", 1, 0, ops) EXCEPT !.cc = cc]
K(nm, v) == L(nm, "iconst", W, v, <<>>)
Out(v) == L("", "print", Void, 0, <<v>>)
Check(c, code) == L("", "check", Void, code, <<c>>)
Raise(c) == L("", "raise", Void, 0, <<c>>)
Ret(v) == L("", "ret", Void, 0, <<v>>)
Br(b, args) == [L("", "br", Void, 0, <<>>) EXCEPT !.to = <<Target(b, args)>>]
Cbr(c, t, u) == [L("", "cbr", Void, 0, <<c>>) EXCEPT !.to = <<t, u>>]
Switch(v, cases, to) ==
  [L("", "switch", Void, 0, <<v>>) EXCEPT !.cases = cases,
     !.to = [k \in DOMAIN to |-> Target(to[k], <<>>)]]
ParamOf(nm, ty) == L(nm, "param", ty, 0, <<>>)
Given == <<ParamOf("p", Ptr), ParamOf("n", W)>>
Call(nm, f, v) == L(nm, "call", W, f, <<"p", v>>)

\* A function from the lines of its blocks and the handlers of these.
Fn(slots, handlers, blocks) ==
  LET all == FlattenSeq(blocks)
      num(nm) == SelectInSeq(all, LAMBDA a : a.nm = nm)
      nums(s) == [k \in DOMAIN s |-> num(s[k])]
      start(b) == Len(FlattenSeq(SubSeq(blocks, 1, b - 1)))
      to(t) == Target(t.b, nums(t.args))
      inst(l) == [Inst(l.op, l.ty, l.imm, nums(l.ops),
                       [t \in DOMAIN l.to |-> to(l.to[t])])
                    EXCEPT !.cc = l.cc, !.cases = l.cases]
  IN [insts  |-> [i \in DOMAIN all |-> inst(all[i])],
      blocks |-> [b \in DOMAIN blocks |->
                    [insts |-> [k \in DOMAIN blocks[b] |-> start(b) + k],
                     handler |-> handlers[b]]],
      slots  |-> slots, ret |-> W]

No(k) == [b \in 1..k |-> None]
\* The pass bounds is off unless asked for.
Job(fs, off) == [funcs |-> fs, edits |-> [f \in DOMAIN fs |-> <<>>],
                 skip |-> off \cup {"bounds"}, rounds |-> MaxRounds]
Alone(f) == Job(<<f>>, {})

-----------------------------------------------------------------------------
(* Folding: one operation of operands known, unknown or equal              *)

Straight(body, v) == Alone(Fn(0, No(1), <<Given \o body \o <<Out(v), Ret(v)>>>>))

\* The constants known, and the operands: both, one on either side, none.
Operated(op, ks, o) == Straight(ks \o <<L("v", op, W, 0, o)>>, "v")
FoldTraps ==
  {Operated(op, <<K("x", a), K("y", b)>>, <<"x", "y">>) :
     op \in Trapping, a \in Ints, b \in Ints}
FoldOne ==
  {Operated(op, <<K("y", b)>>, o) :
     op \in Binary, b \in Ints, o \in {<<"n", "y">>, <<"y", "n">>}}
  \cup {Operated(op, <<>>, <<"n", "n">>) : op \in Binary}

\* All the pairs of constants at once, for what does not trap.
All16 == [k \in 1..16 |-> <<((k - 1) \div 4) - 2, ((k - 1) % 4) - 2>>]
Nth(c, k) == <<"x", "y", "v", "z">>[c] \o ToString(k)
AllPairs(l) ==
  Straight(FlattenSeq([k \in 1..16 |->
             <<K(Nth(1, k), All16[k][1]), K(Nth(2, k), All16[k][2]),
               [l EXCEPT !.nm = Nth(3, k), !.ops = <<Nth(1, k), Nth(2, k)>>],
               Out(Nth(3, k))>>]), "n")
FoldPure == {AllPairs(L("", op, W, 0, <<>>)) : op \in Binary \ Trapping}
Conds == {"eq", "ne", "slt", "sle", "sgt", "sge", "ult", "ule", "ugt", "uge"}
FoldIcmps == {AllPairs(Icmp("", cc, <<>>)) : cc \in Conds}
  \cup {Straight(<<Icmp("c", cc, <<"n", "n">>), Out("c")>>, "n") : cc \in Conds}

\* Work nobody uses.
Idle == Straight(<<L("g", "mul", W, 0, <<"n", "n">>), L("f", "xor", W, 0, <<"g", "n">>)>>, "n")

\* One operand.
FoldUnary ==
  {Straight(<<K("x", a), L("b", "iconst", 1, a, <<>>),
              L("v1", "neg", W, 0, <<o>>), L("v2", "not", W, 0, <<o>>),
              L("v3", "zext", 4, 0, <<o>>), L("v4", "sext", 4, 0, <<o>>),
              L("v5", "sext", 4, 0, <<"b">>), L("v6", "zext", W, 0, <<"b">>),
              L("v7", "trunc", 1, 0, <<o>>),
              L("v8", "select", W, 0, <<"b", "n", o>>),
              L("v9", "select", W, 0, <<"v7", o, o>>)>>
            \o [k \in 1..9 |-> Out(Nth(3, k))], "n") :
     a \in Ints, o \in {"x", "n"}}

-----------------------------------------------------------------------------
(* Branches                                                                *)

\* Lines that fill a hole: w, of n and k, and things that must stay where
\* they are.
Divide == L("w", "sdiv", W, 0, <<"k", "n">>)
Double == L("w", "add", W, 0, <<"n", "n">>)
Alive(nm) == L(nm, "ptr_live", 1, 0, <<"p">>)

\* Two ways that meet: the same work before, on each way and after.
Renamed(l, nm) == [l EXCEPT !.nm = nm]
Diamond(before, left, right, meet) ==
  Alone(Fn(0, No(4),
    <<Given \o <<K("k", 1), Icmp("c", "slt", <<"n", "k">>)>>
        \o before \o <<Cbr("c", Target(2, <<>>), Target(3, <<>>))>>,
      <<Renamed(left, "l"), Out("l"), Check("c", 9), Br(4, <<"l">>)>>,
      <<Renamed(right, "r"), Br(4, <<"r">>)>>,
      <<ParamOf("q", W), Out("q"), Renamed(meet, "m"), Check("c", 8), Ret("m")>>>>))
Diamonds == {Diamond(before, left, right, meet) :
               before \in {<<>>, <<Check("c", 7)>>, <<Renamed(Divide, "b"), Out("b")>>},
               left \in {Divide, Double}, right \in {Divide, Double},
               meet \in {Divide, Double}}

\* A switch over blocks that only jump: `e` of them go on to the next.
Hops(v, known, e, t) ==
  Alone(Fn(0, No(6),
    <<Given \o (IF known THEN <<K("k", v)>> ELSE <<>>)
        \o <<Switch(IF known THEN "k" ELSE "n", <<0, 3>>, <<2, 3, t>>)>>,
      IF e THEN <<Br(4, <<>>)>> ELSE <<Out("n"), Br(4, <<>>)>>,
      <<Br(2, <<>>)>>,
      <<K("z", 1), Icmp("d", "eq", <<"n", "z">>), Br(5, <<"z">>)>>,
      <<ParamOf("q", W), Cbr("d", Target(6, <<>>), Target(6, <<>>))>>,
      <<Ret("q")>>>>))
HopsAll == {Hops(v, known, e, t) :
              v \in {-1, 0, 1}, known \in BOOLEAN, e \in BOOLEAN, t \in {2, 3}}

\* A block that jumps to itself when n is 0, and the block after it.
Spin ==
  Alone(Fn(0, No(4),
    <<Given \o <<K("k", 0), Icmp("c", "ne", <<"n", "k">>),
                 Cbr("c", Target(3, <<>>), Target(2, <<>>))>>,
      <<Br(2, <<>>)>>, <<Br(4, <<>>)>>, <<Ret("n")>>>>))

-----------------------------------------------------------------------------
(* Loops: i counts from -2 while it is less than n                         *)

\* What a hole of a loop may hold.
Fills == {<<>>, <<Out("i")>>, <<Alive("a"), Check("a", 9)>>,
          <<Icmp("f", "ne", <<"n", "k">>), Check("f", 8)>>,
          <<L("a", "load.inv", W, 0, <<"p">>), Out("a")>>,
          <<L("", "mem_free", Void, 0, <<"p">>)>>,
          <<L("g", "mul", W, 0, <<"n", "n">>), L("a", "bits_pow", W, 0, <<"g", "n">>), Out("a")>>}

\* A line under other names, for the second hole.
Second(s) == [k \in DOMAIN s |->
                LET a(nm) == IF nm \in {"a", "f", "g"} THEN "2" \o nm ELSE nm
                IN [s[k] EXCEPT !.nm = a(@), !.ops = [j \in DOMAIN @ |-> a(@[j])]]]

\* Into the loop by a jump, or past it by a branch: `by`.
While(by, head, body) ==
  Alone(Fn(0, No(4),
    <<Given \o <<K("k", 1), K("s", -2), Icmp("c", "ne", <<"n", "s">>)>>
        \o <<IF by THEN Cbr("c", Target(2, <<"s">>), Target(4, <<>>))
             ELSE Br(2, <<"s">>)>>,
      <<ParamOf("i", W)>> \o head
        \o <<Icmp("d", "slt", <<"i", "n">>),
             Cbr("d", Target(3, <<>>), Target(4, <<>>))>>,
      Second(body) \o <<L("j", "add", W, 0, <<"i", "k">>), Br(2, <<"j">>)>>,
      <<Ret("n")>>>>))
Whiles == {While(by, head, body) : by \in BOOLEAN, head \in Fills, body \in Fills}

\* A loop in a loop, each with work of its own to move.
Nested(by, mid, inner) ==
  Alone(Fn(0, No(6),
    <<Given \o <<K("k", 1), K("s", -1), Icmp("c", "ne", <<"n", "k">>)>>
        \o <<IF by THEN Cbr("c", Target(2, <<"s">>), Target(6, <<>>))
             ELSE Br(2, <<"s">>)>>,
      <<ParamOf("i", W), Icmp("d", "slt", <<"i", "n">>),
        Cbr("d", Target(3, <<"s">>), Target(6, <<>>))>>,
      <<ParamOf("j", W)>> \o mid \o <<Icmp("e", "slt", <<"j", "n">>),
        Cbr("e", Target(4, <<>>), Target(5, <<>>))>>,
      Second(inner) \o <<L("y", "add", W, 0, <<"j", "k">>), Br(3, <<"y">>)>>,
      <<L("z", "add", W, 0, <<"i", "k">>), Br(2, <<"z">>)>>,
      <<Ret("n")>>>>))
NestedAll == {Nested(by, mid, inner) : by \in BOOLEAN,
   mid \in {<<>>, <<L("a", "mul", W, 0, <<"i", "n">>), Out("a")>>,
            <<Alive("a"), Check("a", 9)>>},
   inner \in {<<L("a", "mul", W, 0, <<"i", "i">>), Out("a")>>,
              <<L("a", "mul", W, 0, <<"n", "n">>), L("f", "xor", W, 0, <<"a", "i">>), Out("f")>>,
              <<L("a", "mul", W, 0, <<"n", "n">>), L("f", "mul", W, 0, <<"a", "i">>), Out("f")>>,
              <<L("", "mem_free", Void, 0, <<"p">>)>>}}

-----------------------------------------------------------------------------
(* Handlers: block 5 for the blocks of the body, `h`                       *)

Caught(h, body, after) ==
  Alone(Fn(0, <<None, h[1], h[2], h[3], None, h[4]>>,
    <<Given \o <<K("k", 1), K("s", -2), Br(2, <<"s">>)>>,
      <<ParamOf("i", W)>> \o body
        \o <<Icmp("d", "slt", <<"i", "n">>),
             Cbr("d", Target(3, <<>>), Target(4, <<>>))>>,
      <<L("j", "add", W, 0, <<"i", "k">>), Br(2, <<"j">>)>>,
      <<L("w", "sdiv", W, 0, <<"k", "n">>), Br(6, <<>>)>>,
      <<ParamOf("id", Identity), Out("id"), Ret("k")>>,
      after \o <<Out("w"), Ret("w")>>>>))
CaughtAll == {Caught(h, body, after) :
   h \in {<<5, 5, 5, 5>>, <<5, 5, 5, None>>, <<None, None, 5, 5>>,
          <<None, 5, None, None>>, <<None, None, 5, None>>},
   body \in {<<>>, <<Alive("a"), Check("a", 9)>>,
             <<Icmp("f", "eq", <<"n", "k">>), Check("f", 8)>>},
   after \in {<<>>, <<Icmp("c", "eq", <<"n", "s">>), Check("c", 7)>>}}

\* A loop and the block before it under one handler.
Guarded(body) ==
  Alone(Fn(0, <<None, 6, 6, 6, None, None>>,
    <<Given \o <<K("k", 1), K("s", -2), Br(2, <<>>)>>,
      <<L("w", "sdiv", W, 0, <<"k", "n">>), Out("w"), Br(3, <<"s">>)>>,
      <<ParamOf("i", W)>> \o body \o <<Icmp("d", "slt", <<"i", "n">>),
        Cbr("d", Target(4, <<>>), Target(5, <<>>))>>,
      <<L("j", "add", W, 0, <<"i", "k">>), Br(3, <<"j">>)>>,
      <<Ret("n")>>,
      <<ParamOf("id", Identity), Out("id"), Ret("k")>>>>))
GuardedAll ==
  {Guarded(body) : body \in {<<Icmp("f", "eq", <<"n", "k">>), Check("f", 8)>>,
                             <<Out("i"), Alive("a"), Check("a", 9)>>,
                             <<L("a", "load.inv", W, 0, <<"p">>), Out("a")>>}}

\* A handler under a handler, raising again.
Again(inner, h) ==
  Alone(Fn(0, <<None, 3, h, None, None>>,
    <<Given \o <<K("k", 0), Br(2, <<>>)>>,
      <<L("w", "sdiv", W, 0, <<"n", "n">>), Out("w"), Br(5, <<>>)>>,
      <<ParamOf("id", Identity), L("v", "add", W, 0, <<"n", "n">>), Out("id")>> \o inner,
      <<ParamOf("id2", Identity), Out("id2"), Ret("n")>>,
      <<Ret("w")>>>>))
AgainAll == {Again(inner, h) : inner \in {<<Raise("id")>>, <<Ret("v")>>}, h \in {None, 4}}

-----------------------------------------------------------------------------
(* Calls: main calls 2, and 2 may call 3 or itself                         *)

\* A slot read before it is written, and what leaves the frame.
Slot == L("s", "slot", Ptr, 1, <<>>)
Keep == L("a", "load", W, 0, <<"s">>)
Store(v, at_) == L("", "store", Void, 0, <<v, at_>>)
Callee(slots, body) == Fn(slots, No(1), <<Given \o body>>)
Shorts ==
  {Callee(0, <<L("v", "add", W, 0, <<"n", "n">>), Ret("v")>>),
   Callee(0, <<L("v", "srem", W, 0, <<"n", "n">>), Out("v"), Ret("v")>>),
   Callee(1, <<Slot, Keep, L("b", "or", W, 0, <<"a", "n">>), Store("b", "s"),
               Ret("b")>>),
   Callee(1, <<Slot, Store("s", "p"), Ret("n")>>),
   Fn(1, No(2), <<Given \o <<Slot, Br(2, <<"s">>)>>,
                  <<ParamOf("q", Ptr), Store("q", "p"), Ret("n")>>>>),
   Fn(0, No(3), <<Given \o <<K("k", 0), Icmp("c", "slt", <<"n", "k">>),
                             Cbr("c", Target(2, <<>>), Target(3, <<>>))>>,
                  <<Ret("n")>>, <<Out("n"), Ret("k")>>>>),
   Fn(0, <<None, 3, None>>,
      <<Given \o <<K("k", 1), Br(2, <<>>)>>,
        <<L("v", "sdiv", W, 0, <<"k", "n">>), Ret("v")>>,
        <<ParamOf("id", Identity), Out("n"), Raise("id")>>>>),
   Fn(0, No(3),
      <<Given \o <<K("k", 1), Icmp("c", "slt", <<"n", "k">>),
                   Cbr("c", Target(2, <<>>), Target(3, <<>>))>>,
        <<L("m", "add", W, 0, <<"n", "k">>), Call("v", 2, "m"), Ret("v")>>,
        <<Ret("n")>>>>),
   Callee(0, <<Call("v", 3, "n"), L("u", "mul.ov", W, 0, <<"v", "n">>), Ret("u")>>)}
Third == Callee(1, <<Slot, Keep, L("v", "sub.ov", W, 0, <<"a", "n">>), Ret("v")>>)

\* Calls in a row, in a loop, and under a handler.
Mains ==
  {Fn(0, No(1), <<Given \o <<Call("v", 2, "n"), Out("v"), Call("w", 2, "v"), Out("w"),
       L("x", "load", Ptr, 0, <<"p">>), L("y", "load", W, 0, <<"x">>), Ret("y")>>>>),
   Fn(0, No(3),
      <<Given \o <<K("k", 1), K("s", -2), Br(2, <<"s">>)>>,
        <<ParamOf("i", W), Call("v", 2, "i"), Out("v"),
          Icmp("d", "slt", <<"i", "n">>), L("j", "add", W, 0, <<"i", "k">>),
          Cbr("d", Target(2, <<"j">>), Target(3, <<>>))>>,
        <<Ret("n")>>>>),
   Fn(1, <<None, 3, None, None>>,
      <<Given \o <<Slot, K("k", 1), Store("k", "s"), Br(2, <<>>)>>,
        <<Call("v", 2, "n"), Out("v"), Call("w", 2, "v"), Br(4, <<"w">>)>>,
        <<ParamOf("id", Identity), Out("id"), Br(4, <<"k">>)>>,
        <<ParamOf("q", W), Keep, L("u", "sub", W, 0, <<"q", "a">>), Ret("u")>>>>)}
Modules == {<<f, g, Third>> : f \in Mains, g \in Shorts}

-----------------------------------------------------------------------------
(* Edits left by the maker of a function: parameters no jump gives any     *)
(* more, which stand for another value                                     *)

Made(f, from, to) ==
  [funcs |-> <<f>>, edits |-> << <<Replace(NewEdit(f), from, to)>> >>, skip |-> {"bounds"},
   rounds |-> MaxRounds]
Edited ==
  {Made(Fn(0, No(2),
      <<Given \o <<Br(2, <<>>)>>,
        <<ParamOf("q", W), L("v", "sub", W, 0, <<"q", "n">>), Ret("v")>>>>), 4, 2),
   Made(Fn(0, No(4),
      <<Given \o <<K("k", 1), K("s", -2), Br(2, <<"s">>)>>,
        <<ParamOf("q", W), ParamOf("i", W), Icmp("d", "slt", <<"i", "q">>),
          Cbr("d", Target(3, <<>>), Target(4, <<>>))>>,
        <<L("j", "add", W, 0, <<"i", "k">>), Out("q"), Br(2, <<"j">>)>>,
        <<Ret("q")>>>>), 6, 2)}

-----------------------------------------------------------------------------
(* Which passes run                                                        *)

Each(js, offs) == {[j EXCEPT !.skip = off \cup {"bounds"}] : j \in js, off \in offs}
Asked(js, offs) == {[j EXCEPT !.skip = off] : j \in js, off \in offs}

-----------------------------------------------------------------------------
(* Checks that facts may prove, for the pass bounds                        *)

Ks == <<K("m2", -2), K("m1", -1), K("k0", 0), K("k1", 1)>>
Names == {"m2", "m1", "k0", "k1"}
Signed == {"eq", "ne", "slt", "sle", "sgt", "sge"}

\* A comparison known on one way or the other, or after a check, and another.
Known(cc1, k, cc2, j) ==
  Alone(Fn(0, No(4),
    <<Given \o Ks \o <<Icmp("c", cc1, <<"n", k>>), Icmp("d", cc2, <<"n", j>>),
                       Cbr("c", Target(2, <<>>), Target(3, <<>>))>>,
      <<Check("d", 9), Out("k1"), Br(4, <<>>)>>,
      <<Check("d", 9), Out("k0"), Br(4, <<>>)>>,
      <<Check("d", 8), Check("c", 7), Ret("n")>>>>))
Knowns == {Known(cc1, k, cc2, j) : cc1 \in Signed \cup {"ult"}, k \in {"m1", "k0"},
                                    cc2 \in Signed, j \in {"k0"}}

\* and, or, of two comparisons: branched on, checked, one of them proved.
Both(op, cc1, cc2, first) ==
  Alone(Fn(0, No(4),
    <<Given \o Ks \o first \o <<Icmp("c", cc1, <<"n", "k0">>), Icmp("d", cc2, <<"n", "m1">>),
                       L("e", op, 1, 0, <<"c", "d">>),
                       Cbr("e", Target(2, <<>>), Target(3, <<>>))>>,
      <<Check("c", 9), Check("d", 8), Br(4, <<>>)>>,
      <<Check("e", 9), Check("d", 7), Br(4, <<>>)>>,
      <<Icmp("g", "sle", <<"n", "k1">>), L("h", "and", 1, 0, <<"g", "c">>), Check("h", 6),
        L("i", "and", 1, 0, <<"d", "g">>), Check("i", 5), Ret("n")>>>>))
Boths == {Both(op, cc1, cc2, first) : op \in {"and", "or"}, cc1 \in {"slt", "sge"},
            cc2 \in {"slt", "sgt", "ne"}, first \in {<<>>, <<Icmp("f", "sgt", <<"n", "m1">>), Check("f", 4)>>}}

\* Sums that trap and sums that wrap, seen through a wider number.
Summed(op1, k1, op2, k2, cc, o) ==
  Straight(Ks \o <<L("a", op1, W, 0, <<"n", k1>>), Icmp("f", "sle", <<"a", "k0">>), Check("f", 9),
                   L("w", "sext", 3, 0, <<"a">>), L("y", "iconst", 3, -4, <<>>), L("z", "iconst", 3, 2, <<>>),
                   L("b", op2, 3, 0, <<"w", k2>>), L("u", "sext", 3, 0, <<"n">>),
                   Icmp("g", cc, <<"b", o>>), Check("g", 8),
                   Icmp("h", cc, <<"u", "b">>), Check("h", 7), Out("b")>>, "n")
Sums == {Summed(op1, k1, op2, k2, cc, o) :
           op1 \in {"add.ov", "sub.ov", "add"}, k1 \in {"k1"}, op2 \in {"add.ov", "sub.ov"},
           k2 \in {"y", "z"}, cc \in {"slt", "sge"}, o \in {"w", "u"}}

\* Loops of one parameter that steps, and of a second that follows or not.
Counted(op, k, s, cc, next, check) ==
  Alone(Fn(0, No(4),
    <<Given \o Ks \o <<Br(2, <<s, "n">>)>>,
      <<ParamOf("i", W), ParamOf("q", W), Icmp("d", "ne", <<"i", "n">>),
        Cbr("d", Target(3, <<>>), Target(4, <<>>))>>,
      <<Icmp("f", cc, check), Check("f", 9), L("j", op, W, 0, <<"i", k>>), Out("i"),
        Icmp("g", cc, <<"j", s>>)>>
        \o (IF next = "q" THEN <<Check("g", 8)>> ELSE <<>>) \o <<Br(2, <<"j", next>>)>>,
      <<Icmp("h", cc, <<"i", s>>), Check("h", 7), Ret("i")>>>>))
Counts == {Counted(op, k, s, cc, next, check) :
             op \in {"add.ov", "sub.ov", "add"}, k \in {"k1"}, s \in {"k0", "n"},
             cc \in {"sge", "sle"}, next \in {"q", "i"}, check \in {<<"i", "k0">>, <<"q", "n">>}}

\* A step up on one way round and down, or a new start, on the other.
TwoWays(a, b) ==
  Alone(Fn(0, No(5),
    <<Given \o Ks \o <<Br(2, <<"m1">>)>>,
      <<ParamOf("i", W), Icmp("d", "slt", <<"i", "n">>), Icmp("f", "sge", <<"i", "m1">>),
        Check("f", 9), Cbr("d", Target(3, <<>>), Target(5, <<>>))>>,
      <<L("j", "add.ov", W, 0, <<"i", a>>), Icmp("c", "eq", <<"j", "n">>),
        Cbr("c", Target(4, <<>>), Target(2, <<"j">>))>>,
      <<L("y", "add.ov", W, 0, <<"i", b>>), L("z", "sub.ov", W, 0, <<"n", a>>),
        Out("z"), Br(2, <<IF b = "m2" THEN "z" ELSE "y">>)>>,
      <<Ret("i")>>>>))
Ways == {TwoWays(a, b) : a \in {"k1", "k0"}, b \in Names}

\* The same checks in the body and in the handler of some of its blocks.
Held(cc, handlers) ==
  Alone(Fn(0, handlers,
    <<Given \o Ks \o <<Icmp("c", "slt", <<"n", "k0">>), Icmp("d", cc, <<"n", "k0">>),
                       Cbr("c", Target(2, <<>>), Target(3, <<>>))>>,
      <<Check("d", 9), Br(4, <<>>)>>, <<Check("d", 8), Br(4, <<>>)>>,
      <<Check("d", 7), Ret("n")>>,
      <<ParamOf("id", Identity), Out("id"), Check("d", 6), Check("c", 5), Ret("k1")>>>>))
Helds == {Held(cc, <<None, 5, h, 5, None>>) : cc \in Signed, h \in {None, 5}}
Bounded ==
  Asked(Knowns \cup Sums \cup Counts, {{"cfg", "gvn", "licm"}})
  \cup Asked(Boths \cup Ways \cup Helds, {{}, {"cfg", "gvn", "licm"}})

-----------------------------------------------------------------------------

One == {{}, {"inline"}, {"cfg"}, {"gvn"}, {"licm"}, {"dce"}, {"fold"}}

\* Blocks that only jump go one after the other, and each gives the passes
\* work again; checks proved free branches, and these more checks. Some take
\* more rounds than two, and are stopped after two.
Stopped ==
  {[j EXCEPT !.rounds = 2] :
     j \in Asked(HopsAll, {off \cup some : off \in One, some \in {{}, {"bounds"}}})
           \cup Asked(Boths \cup Ways, {{}})}

Small ==
  FoldTraps \cup FoldOne \cup FoldPure \cup FoldIcmps \cup FoldUnary
  \cup HopsAll \cup {Spin, Idle} \cup Whiles \cup CaughtAll \cup GuardedAll \cup AgainAll \cup Edited
  \cup Each(Diamonds \cup NestedAll, One \ {{"inline"}})
  \cup {Job(fs, off) : fs \in Modules, off \in One}
  \cup Bounded \cup Stopped

\* A loop entered by a case of a switch.
Switched ==
  {Alone(Fn(0, No(4),
     <<Given \o <<K("k", 1), Switch("n", <<v>>, <<3, 2>>)>>,
       <<L("g", "mul", W, 0, <<"n", "k">>), L("f", "sdiv", W, 0, <<"g", "n">>), Out("f"),
         Icmp("c", "eq", <<"f", "n">>), Check("c", 9),
         Cbr("c", Target(3, <<>>), Target(2, <<>>))>>,
       <<Br(4, <<>>)>>, <<Ret("n")>>>>)) : v \in Ints}

\* A handler that goes back into what it protects.
Retried ==
  {Alone(Fn(0, <<None, 3, None, None>>,
     <<Given \o <<K("k", 1), Br(2, <<>>)>>,
       <<L("v", "sdiv", W, 0, <<"k", "n">>), Ret("v")>>,
       <<ParamOf("id", Identity), Icmp("c", "ne", <<"n", "k">>), Out("id"),
         Cbr("c", Target(2, <<>>), Target(4, <<>>))>>,
       <<Ret("k")>>>>))}
Backwards == Switched \cup Retried
=============================================================================
