---------------------------------- MODULE Ir ----------------------------------
(***************************************************************************)
(* A function of the IR as the optimiser sees it (src/ir): instructions,   *)
(* blocks with a handler or none, the control-flow graph with the edges of *)
(* errors, the dominator tree of Cooper, Harvey and Kennedy, and what the  *)
(* verifier asks of all that.                                              *)
(*                                                                         *)
(* A function is [insts, blocks, slots, ret]: an instruction is its number *)
(* in insts, a block the numbers of its instructions and the number of its *)
(* handler, None for none. Numbers start at 1 (0 in the code). An          *)
(* instruction is [op, cc, ty, imm, ops, to, cases]: cc is the comparison  *)
(* of an icmp, imm the constant, the trap code, the callee or the slot,    *)
(* ops the values it uses and, of a terminator, `to` its targets with      *)
(* their arguments; cases are those of a switch, whose default is the      *)
(* first target. Types are the width of an integer, Ptr or Void. A handler *)
(* takes the identity of what it catches; its position and message are     *)
(* left out.                                                               *)
(***************************************************************************)
EXTENDS Integers, Sequences, FiniteSets, SequencesExt

None == 0
Entry == 1
Void == 0
Ptr == 100          \* no width of an integer
Identity == 32      \* the type of the parameter of a handler

-----------------------------------------------------------------------------
(* The table of operations (ir_ops.def), those of integers, memory, calls  *)
(* and control. "print", "mem_free", "ptr_live", "bits_pow" stand for the  *)
(* calls of the run-time library of those names.                           *)

Pure == {"iconst", "param", "add", "sub", "mul", "neg", "and", "or", "xor",
         "not", "shl", "lshr", "ashr", "icmp", "select", "trunc", "zext",
         "sext", "slot"}
Trapping == {"sdiv", "udiv", "srem", "urem", "add.ov", "sub.ov", "mul.ov",
             "uadd.ov", "usub.ov", "umul.ov"}
Commutative == {"add", "mul", "and", "or", "xor", "add.ov", "mul.ov",
                "uadd.ov", "umul.ov"}
Binary == Commutative \cup Trapping \cup {"sub", "shl", "lshr", "ashr"}
Conversion == {"trunc", "zext", "sext"}
Terminator == {"br", "cbr", "switch", "ret", "trap", "raise"}
CallRt == {"print", "mem_free", "ptr_live", "bits_pow"}

Inst(op, ty, imm, ops, to) ==
  [op |-> op, cc |-> "", ty |-> ty, imm |-> imm, ops |-> ops, to |-> to,
   cases |-> <<>>]
Target(b, args) == [b |-> b, args |-> args]

Op(f, i) == f.insts[i].op
Lst(f, b) == f.blocks[b].insts
LastOf(f, b) == Last(Lst(f, b))
Params(f, b) == SelectSeq(Lst(f, b), LAMBDA i : Op(f, i) = "param")
Body(f, b) == SelectSeq(Lst(f, b), LAMBDA i : Op(f, i) # "param")
BlockOf(f, i) == CHOOSE b \in DOMAIN f.blocks : Contains(Lst(f, b), i)
Handler(f, b) == f.blocks[b].handler

\* limba_operand_kinds: the operands that are values
Used(in) == in.ops \o FlattenSeq([t \in DOMAIN in.to |-> in.to[t].args])

\* limba_only_values
OnlyValues(in) == in.to = <<>>

\* The numbers of S up to n, in their order.
InOrder(S, n) == SelectSeq([k \in 1..n |-> k], LAMBDA k : k \in S)

\* limba_inst_add
AddInst(f, b, in) ==
  [f EXCEPT !.insts = Append(@, in),
            !.blocks[b].insts = Append(@, Len(f.insts) + 1)]

\* limba_block_add
AddBlock(f) == [f EXCEPT !.blocks = Append(@, [insts |-> <<>>, handler |-> None])]

\* limba_int_norm: v in w bits, with its sign when w > 1
Norm(v, w) ==
  IF w >= Identity THEN v
  ELSE LET u == v % 2^w
       IN IF w > 1 /\ u >= 2^(w - 1) THEN u - 2^w ELSE u

\* the value as unsigned in its width
Unsigned(v, w) == IF w >= Identity THEN v ELSE v % 2^w

-----------------------------------------------------------------------------
(* The control-flow graph                                                  *)

\* limba_succs, an edge to a block that does not exist turned to the entry
Succs(f, b) ==
  IF Lst(f, b) = <<>> \/ Op(f, LastOf(f, b)) \notin Terminator THEN <<>>
  ELSE LET to == f.insts[LastOf(f, b)].to
       IN [t \in DOMAIN to |->
             IF to[t].b \in DOMAIN f.blocks THEN to[t].b ELSE Entry]

\* Mutant: a protected handler gives no edge to its own handler.
ErrorEdgesOnce(f, normal, err) ==
  {<<e[1], Handler(f, e[2])>> : e \in {e \in normal : Handler(f, e[2]) # None}}

\* error_edges: every edge into a protected block, normal or of an error,
\* gives its source an edge to the handler of the block
RECURSIVE ErrorEdges(_, _, _)
ErrorEdges(f, normal, err) ==
  LET into == {e \in normal \cup err : Handler(f, e[2]) # None}
      more == err \cup {<<e[1], Handler(f, e[2])>> : e \in into}
  IN IF more = err THEN err ELSE ErrorEdges(f, normal, more)

\* The rows of successors: the edges of b, then its edges of errors.
Rows(f) ==
  LET own == [b \in DOMAIN f.blocks |-> Succs(f, b)]
      normal == UNION {{b} \X Range(own[b]) : b \in DOMAIN own}
      err == ErrorEdges(f, normal, {})
  IN [b \in DOMAIN own |->
        own[b] \o InOrder({e[2] : e \in {e \in err : e[1] = b}}, Len(own))]

\* The same edges turned round.
Preds(succ) ==
  [b \in DOMAIN succ |->
     FlattenSeq([p \in DOMAIN succ |->
       LET n == Cardinality({k \in DOMAIN succ[p] : succ[p][k] = b})
       IN [k \in 1..n |-> p]])]

\* A depth-first walk from b: w has the blocks seen and the post-order.
RECURSIVE PostOrder(_, _, _)
PostOrder(succ, b, w) ==
  LET below == FoldLeft(LAMBDA v, s :
                          IF s \in v.seen THEN v ELSE PostOrder(succ, s, v),
                        [w EXCEPT !.seen = @ \cup {b}], succ[b])
  IN [below EXCEPT !.order = Append(@, b)]

\* The nearest block that dominates both, po the places in post-order.
RECURSIVE Meet(_, _, _, _)
Meet(idom, po, x, y) ==
  IF x = y THEN x
  ELSE IF po[x] < po[y] THEN Meet(idom, po, idom[x], y)
  ELSE Meet(idom, po, x, idom[y])

\* Mutant: the first predecessor done decides.
NewIdomFirst(pred, po, idom, b) ==
  LET done == SelectSeq(pred[b], LAMBDA p : p \in DOMAIN idom) IN done[1]

\* The dominator of b, from the predecessors that have one.
NewIdom(pred, po, idom, b) ==
  LET done == SelectSeq(pred[b], LAMBDA p : p \in DOMAIN idom)
  IN FoldLeft(LAMBDA nd, p : Meet(idom, po, p, nd), done[1], Tail(done))

\* Rounds over the reverse post-order, to a fixed point; idom has the blocks
\* that have a dominator so far.
RECURSIVE Idoms(_, _, _)
Idoms(pred, order, idom) ==
  LET po == [b \in DOMAIN pred |-> SelectInSeq(order, LAMBDA x : x = b)]
      next == FoldLeft(LAMBDA d, b : (b :> NewIdom(pred, po, d, b)) @@ d,
                       idom, Tail(Reverse(order)))
  IN IF next = idom THEN idom ELSE Idoms(pred, order, next)

\* The numbers of b and below in the dominator tree, from clock t.at on.
RECURSIVE Number(_, _, _)
Number(idom, b, t) ==
  LET kids == InOrder({c \in DOMAIN idom \ {Entry} : idom[c] = b}, Len(idom))
      in   == [t EXCEPT !.pre = (b :> t.at) @@ @, !.at = @ + 1]
      out  == FoldLeft(LAMBDA u, c : Number(idom, c, u), in, kids)
  IN [out EXCEPT !.post = (b :> out.at) @@ @, !.at = @ + 1]

Nowhere(succ) == [b \in DOMAIN succ |-> None]

\* The dominators, None for what the entry does not reach.
WithDoms(succ, pred) ==
  LET order == PostOrder(succ, Entry, [seen |-> {}, order |-> <<>>]).order
  IN [succ |-> succ, pred |-> pred,
      idom |-> Idoms(pred, order, Entry :> Entry) @@ Nowhere(succ)]

\* limba_cfg_build
Cfg(f) ==
  LET rows(succ) == WithDoms(succ, Preds(succ))
      start(c) == [at |-> 0, pre |-> Nowhere(c.succ), post |-> Nowhere(c.succ)]
      numbered(c, num) == c @@ [pre |-> num.pre, post |-> num.post]
      tree(c) == numbered(c, Number(c.idom, Entry, start(c)))
  IN tree(rows(Rows(f)))

\* limba_cfg_reachable, limba_cfg_dominates
Reachable(c, b) == c.idom[b] # None
Dominates(c, a, b) == c.pre[a] <= c.pre[b] /\ c.post[b] <= c.post[a]

-----------------------------------------------------------------------------
(* The verifier of a function (verify.c)                                   *)

\* use: value x dominates instruction i, in block b at place k, when the
\* entry reaches b
UseOk(f, c, b, k, x) ==
  /\ x \in DOMAIN f.insts
  /\ f.insts[x].ty # Void
  /\ Reachable(c, b) =>
       IF Contains(Lst(f, b), x)
       THEN \E j \in 1..(k - 1) : Lst(f, b)[j] = x
       ELSE LET d == BlockOf(f, x) IN Reachable(c, d) /\ Dominates(c, d, b)

Handlers(f) == {Handler(f, b) : b \in DOMAIN f.blocks} \ {None}

\* target: the block exists, is no entry and no handler, and takes the
\* arguments given
TargetOk(f, t) ==
  /\ t.b \in DOMAIN f.blocks \ ({Entry} \cup Handlers(f))
  /\ LET ps == Params(f, t.b) IN
       /\ Len(t.args) = Len(ps)
       /\ \A k \in DOMAIN ps : f.insts[t.args[k]].ty = f.insts[ps[k]].ty

\* check_inst: the types of the operands, and the shape of a switch
TypesOk(M, f, in) ==
  LET ty(k) == f.insts[in.ops[k]].ty IN
  CASE in.op \in Binary -> ty(1) = in.ty /\ ty(2) = in.ty
    [] in.op \in {"neg", "not"} -> ty(1) = in.ty
    [] in.op = "icmp" -> ty(1) = ty(2) /\ in.ty = 1
    [] in.op = "select" -> ty(1) = 1 /\ ty(2) = in.ty /\ ty(3) = in.ty
    [] in.op = "trunc" -> ty(1) > in.ty
    [] in.op \in {"zext", "sext"} -> ty(1) < in.ty
    [] in.op \in {"check", "cbr"} -> ty(1) = 1
    [] in.op \in {"load", "load.inv", "mem_free", "ptr_live", "memset"} ->
         ty(1) = Ptr
    [] in.op = "store" -> ty(2) = Ptr
    [] in.op = "call" ->
         LET ps == Params(M[in.imm], Entry) IN
           /\ Len(in.ops) = Len(ps)
           /\ \A k \in DOMAIN ps : ty(k) = M[in.imm].insts[ps[k]].ty
           /\ in.ty = M[in.imm].ret
    [] in.op = "ret" -> IF f.ret = Void THEN in.ops = <<>> ELSE ty(1) = f.ret
    [] in.op = "switch" -> Len(in.to) = Len(in.cases) + 1
    [] OTHER -> TRUE

\* check_func
WellFormedIn(M, f) ==
  /\ f.blocks # <<>>
  /\ \A b \in DOMAIN f.blocks :
       LET l == Lst(f, b) IN
         /\ l # <<>> /\ Range(l) \subseteq DOMAIN f.insts
         /\ l = Params(f, b) \o Body(f, b)
         /\ \A k \in DOMAIN l : Op(f, l[k]) \in Terminator <=> k = Len(l)
  /\ \A i \in DOMAIN f.insts :
       \E b \in DOMAIN f.blocks : \E k \in DOMAIN Lst(f, b) :
         /\ Lst(f, b)[k] = i
         /\ \A b2 \in DOMAIN f.blocks : \A k2 \in DOMAIN Lst(f, b2) :
              Lst(f, b2)[k2] = i => b2 = b /\ k2 = k
  /\ Handlers(f) \subseteq DOMAIN f.blocks \ {Entry}
  /\ Handler(f, Entry) = None
  /\ \A h \in Handlers(f) : LET ps == Params(f, h) IN
       Len(ps) = 1 /\ f.insts[ps[1]].ty = Identity
  /\ LET c == Cfg(f) IN
       \A b \in DOMAIN f.blocks : \A k \in DOMAIN Lst(f, b) :
         LET in == f.insts[Lst(f, b)[k]] IN
           /\ \A x \in Range(Used(in)) : UseOk(f, c, b, k, x)
           /\ TypesOk(M, f, in)
           /\ \A t \in Range(in.to) : TargetOk(f, t)
           /\ in.op = "switch" => \A t \in Range(in.to) : t.args = <<>>
=============================================================================
