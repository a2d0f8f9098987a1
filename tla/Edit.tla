--------------------------------- MODULE Edit ---------------------------------
(***************************************************************************)
(* The edit of a function (src/ir/edit.c): what the passes replace and     *)
(* drop is kept apart, [map, dead, gone], and applied in one go. `map` is  *)
(* the value each value stands for, `dead` the instructions dropped, gone  *)
(* the blocks.                                                             *)
(*                                                                         *)
(* What the passes share on one function is [f, e, have, cfg]: the         *)
(* function, its edit, and its control-flow graph once a pass has asked    *)
(* for it (struct limba_pass_ctx).                                         *)
(***************************************************************************)
EXTENDS Ir

\* limba_edit_sync: the instructions made since stand for themselves
Sync(e, f) ==
  [e EXCEPT !.map = @ \o [k \in 1..(Len(f.insts) - Len(@)) |-> Len(@) + k]]

\* limba_edit_begin
NewEdit(f) == Sync([map |-> <<>>, dead |-> {}, gone |-> {}], f)

\* limba_edit_resolve
RECURSIVE Resolve(_, _)
Resolve(e, i) == IF e.map[i] = i THEN i ELSE Resolve(e, e.map[i])

ResolveAll(e, s) == [k \in DOMAIN s |-> Resolve(e, s[k])]

\* limba_edit_replace
Replace(e, from, to) ==
  LET t == Resolve(e, to) IN
  IF from = t THEN e
  ELSE [e EXCEPT !.map[from] = t, !.dead = @ \cup {from}]

\* What of s is still there.
Live(e, s) == SelectSeq(s, LAMBDA i : i \notin e.dead)

\* The place of x in s, 0 where it is not: a use of it makes the verifier
\* say no.
PlaceIn(s, x) == SelectInSeq(s, LAMBDA y : y = x)

\* limba_edit_end: f as the edit makes it
Apply(f, e) ==
  LET blocks == SelectSeq([b \in DOMAIN f.blocks |-> b],
                          LAMBDA b : b \notin e.gone)
      insts == FlattenSeq([b \in DOMAIN blocks |-> Live(e, Lst(f, blocks[b]))])
      val(i) == PlaceIn(insts, Resolve(e, i))
      vals(s) == [k \in DOMAIN s |-> val(s[k])]
      tos(s) == [t \in DOMAIN s |-> Target(PlaceIn(blocks, s[t].b),
                                           vals(s[t].args))]
      inst(in) == [in EXCEPT !.ops = vals(@), !.to = tos(@)]
      block(b) ==
        LET l == Live(e, Lst(f, b)) IN
          [insts   |-> [k \in DOMAIN l |-> PlaceIn(insts, l[k])],
           handler |-> IF Handler(f, b) = None THEN None
                       ELSE PlaceIn(blocks, Handler(f, b))]
  IN [f EXCEPT
        !.insts = FoldLeft(LAMBDA s, i : Append(s, inst(f.insts[i])), <<>>, insts),
        !.blocks = FoldLeft(LAMBDA s, b : Append(s, block(b)), <<>>, blocks)]

-----------------------------------------------------------------------------
(* The context of the passes                                               *)

Context(f, e) == [f |-> f, e |-> e, have |-> FALSE, cfg |-> <<>>]

\* limba_pass_cfg_of
WithCfg(x) == IF x.have THEN x ELSE [x EXCEPT !.have = TRUE, !.cfg = Cfg(x.f)]

\* Mutant: the graph is kept.
KeepCfg(x) == x

\* limba_pass_cfg_drop
DropCfg(x) == [x EXCEPT !.have = FALSE, !.cfg = <<>>]

\* What a pass gives: the context as it leaves it, and its changes.
Result(x, n) == [x |-> x, n |-> n]

SetInst(x, i, in) == [x EXCEPT !.f.insts[i] = in]

\* limba_inst_set_iconst
SetConst(x, i, v) ==
  LET ty == x.f.insts[i].ty
  IN SetInst(x, i, Inst("iconst", ty, Norm(v, ty), <<>>, <<>>))

\* limba_inst_set_br, and jump of simplify_cfg.c
SetBr(x, i, t) == SetInst(x, i, Inst("br", Void, 0, <<>>, <<t>>))

\* settle: the edit is applied; blocks gone renumber the graph too
Settle(x) ==
  LET f == Apply(x.f, x.e)
      y == [x EXCEPT !.f = f, !.e = NewEdit(f)]
  IN IF x.e.gone = {} THEN y ELSE DropCfg(y)

=============================================================================
