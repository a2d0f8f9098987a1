-------------------------------- MODULE PassLicm ------------------------------
(***************************************************************************)
(* The pass "licm" (src/opt/licm.c): what does not change in a natural     *)
(* loop with one way in goes before it, into that way in when it jumps     *)
(* nowhere else, else into a new block on the edge. One graph serves the   *)
(* whole pass; `made` has the edges the new blocks are on, the k-th of     *)
(* them block n + k, n the blocks of the graph.                            *)
(***************************************************************************)
EXTENDS Edit

\* may_free
MayFree(in) == in.op \in {"call", "mem_free"}

\* no_effect
NoEffect(in) == in.op \in (Pure \ {"param"}) \cup {"bits_pow"}

\* constant: no work to save
Constant(in) == in.op = "iconst"

\* A back edge ends at h.
IsHead(c, h) ==
  Reachable(c, h) /\ \E u \in Range(c.pred[h]) : Reachable(c, u) /\ Dominates(c, h, u)

\* The blocks that reach some of `in` without going through h.
RECURSIVE Reaching(_, _)
Reaching(c, in) ==
  LET next == in.loop \cup {p \in UNION {Range(c.pred[b]) : b \in in.loop \ {in.h}} :
                              Reachable(c, p)}
  IN IF next = in.loop THEN in.loop ELSE Reaching(c, [in EXCEPT !.loop = next])

\* loop_of: the blocks of the loop, and the ways in from outside
LoopOf(c, made, h) ==
  LET back == {u \in Range(c.pred[h]) : Reachable(c, u) /\ Dominates(c, h, u)}
      loop == Reaching(c, [h |-> h, loop |-> {h} \cup back])
      ours == {k \in DOMAIN made : made[k].from \in loop /\ made[k].to \in loop}
  IN [blocks |-> loop \cup {Len(c.pred) + k : k \in ours},
      ways |-> SelectSeq(c.pred[h], LAMBDA p : p \notin loop)]

\* place: the preorder of the dominator tree, a new block just before the
\* header it leads to
PlaceOf(c, made, b) ==
  IF b \in DOMAIN c.pre THEN 2 * c.pre[b] + 1 ELSE 2 * c.pre[made[b - Len(c.pre)].to]

\* invariant: every operand comes from outside the loop, or goes out of it
Invariant(x, loop, moved, in) ==
  /\ OnlyValues(in)
  /\ \A v \in Range(ResolveAll(x.e, in.ops)) :
       BlockOf(x.f, v) \in loop => Contains(moved, v)

\* Mutant: what may free a block is not looked for.
NeverFrees(x, loop) == FALSE

\* Something in the loop may free a block.
Frees(x, loop) ==
  \E b \in loop \ x.e.gone : \E i \in Range(Live(x.e, Lst(x.f, b))) :
    MayFree(x.f.insts[i])

\* Mutant: a check or a load may leave any block of the loop.
MayGoAnywhere(in, prefix, same, frees) ==
  \/ NoEffect(in)
  \/ in.op = "check"
  \/ ~frees /\ in.op \in {"ptr_live", "load.inv"}

\* What may move at all: `prefix` says nothing with an effect came before
\* in the header, `same` that one handler covers its block, the header and
\* the way in.
MayGo(in, prefix, same, frees) ==
  \/ NoEffect(in)
  \/ ~frees /\ in.op = "ptr_live"
  \/ prefix /\ same /\ in.op = "check"
  \/ prefix /\ same /\ ~frees /\ in.op = "load.inv"

\* What goes out of the loop, in its order.
Moved(x, made, h, loop, way) ==
  LET here == loop \ x.e.gone
      at(k) == {b \in here : PlaceOf(x.cfg, made, b) = k}
      places == InOrder({PlaceOf(x.cfg, made, b) : b \in here}, 4 * Len(x.cfg.pre))
      order == [k \in DOMAIN places |-> CHOOSE b \in at(places[k]) : TRUE]
      frees == Frees(x, loop)
      \* q has what goes out so far, and whether the header had no effect
      step(b, q, i) ==
        LET in == x.f.insts[i]
            same == /\ Handler(x.f, b) = Handler(x.f, h)
                    /\ Handler(x.f, way) = Handler(x.f, h)
        IN IF /\ MayGo(in, q.prefix, same, frees)
              /\ Invariant(x, loop, q.moved, in)
           THEN [q EXCEPT !.moved = Append(@, i)]
           ELSE [q EXCEPT !.prefix = @ /\ NoEffect(in)]
      block(q, b) ==
        FoldLeft(LAMBDA p, i : step(b, p, i), [q EXCEPT !.prefix = b = h],
                 SelectSeq(Live(x.e, Body(x.f, b)),
                           LAMBDA i : Op(x.f, i) \notin Terminator))
  IN FoldLeft(block, [moved |-> <<>>, prefix |-> FALSE], order).moved

\* What split makes of the terminator of p: the first target h becomes nb.
\* It reads the operands of a switch as those of a br: the block is the
\* value switched on, the count of arguments the default, and the numbers
\* those of the code, from 0. Unless that keeps every operand, the switch
\* is left without its cases.
Resplit(in, h, nb) ==
  LET k == SelectInSeq(in.to, LAMBDA t : t.b = h)
      all == in.ops[1] # h /\ in.to[1].b - 1 = 1 + 3 * Len(in.cases)
  IN CASE in.op = "switch" ->
            IF all THEN in ELSE [in EXCEPT !.to = <<>>]
       [] in.op \in {"br", "cbr"} ->
            [in EXCEPT !.to = [t \in DOMAIN @ |->
               IF t = k THEN Target(nb, <<>>) ELSE @[t]]]

\* The arguments split gives the new block's jump: none where the
\* terminator of p does not name h.
SplitArgs(in, h) ==
  LET ts == SelectSeq(in.to, LAMBDA t : t.b = h)
  IN IF in.op = "switch" \/ ts = <<>> THEN <<>> ELSE ts[1].args

\* split: a new block on the edge from p to h
Split(x, p, h) ==
  LET i  == LastOf(x.f, p)
      in == x.f.insts[i]
      nb == Len(x.f.blocks) + 1
      f  == [AddBlock(x.f) EXCEPT !.insts[i] = Resplit(in, h, nb),
                                  !.blocks[nb].handler = Handler(x.f, h)]
      g  == AddInst(f, nb, Inst("br", Void, 0, <<>>,
                                <<Target(h, SplitArgs(in, h))>>))
  IN [x EXCEPT !.f = g, !.e = Sync(@, g)]

\* move_to
MoveTo(f, i, b) ==
  LET from == BlockOf(f, i)
      l == Lst(f, b)
      g == [f EXCEPT !.blocks[from].insts = SelectSeq(@, LAMBDA j : j # i)]
  IN [g EXCEPT !.blocks[b].insts = Front(l) \o <<i, Last(l)>>]

\* one_loop
OneLoop(r, h) ==
  LET x == r.x
      l == LoopOf(x.cfg, r.made, h)
      way == l.ways[1]
      moved == Moved(x, r.made, h, l.blocks, way)
      worth == \E i \in Range(moved) : ~Constant(x.f.insts[i])
      split == Len(x.cfg.succ[way]) # 1
      y == IF split THEN Split(x, way, h) ELSE x
      to == IF split THEN Len(y.f.blocks) ELSE way
  IN IF Len(l.ways) # 1 THEN r
     ELSE IF ~worth THEN r
     ELSE [x |-> [y EXCEPT !.f = FoldLeft(LAMBDA f, i : MoveTo(f, i, to), @, moved)],
           n |-> r.n + Len(moved),
           made |-> IF split THEN Append(r.made, [from |-> way, to |-> h])
                    ELSE r.made]

\* may_loop: some jump goes back
MayLoop(f) ==
  \E b \in DOMAIN f.blocks :
    \E s \in Range(Succs(f, b)) : s <= b

\* The headers, in the order of the blocks.
Heads(x) == SelectSeq([b \in DOMAIN x.f.blocks |-> b],
                      LAMBDA h : h \notin x.e.gone /\ IsHead(x.cfg, h))

\* limba_pass_licm
Licm(x) ==
  LET loops(y) == FoldLeft(OneLoop, [x |-> y, n |-> 0, made |-> <<>>], Heads(y))
      ended(r) == Result(IF r.made = <<>> THEN r.x ELSE DropCfg(r.x), r.n)
  IN IF ~MayLoop(x.f) THEN Result(x, 0) ELSE ended(loops(WithCfg(x)))
=============================================================================
