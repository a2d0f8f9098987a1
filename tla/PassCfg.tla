-------------------------------- MODULE PassCfg -------------------------------
(***************************************************************************)
(* The pass "cfg" (src/opt/simplify_cfg.c): constant branches become       *)
(* jumps, jumps through empty blocks go on, a block joins its only         *)
(* predecessor, and blocks the entry no longer reaches go. One graph       *)
(* serves the whole pass: it is old after the first change.                *)
(***************************************************************************)
EXTENDS Edit

\* is_iconst
IsConst(x, i) == Op(x.f, Resolve(x.e, i)) = "iconst"
Const(x, i) ==
  LET in == x.f.insts[Resolve(x.e, i)] IN Norm(in.imm, in.ty)

\* same_target
SameTarget(x, t, u) ==
  t.b = u.b /\ ResolveAll(x.e, t.args) = ResolveAll(x.e, u.args)

LiveBlocks(x) == SelectSeq([b \in DOMAIN x.f.blocks |-> b],
                           LAMBDA b : b \notin x.e.gone)

\* The branch of block b made simpler.
Simpler(r, b) ==
  LET x  == r.x
      i  == LastOf(x.f, b)
      in == x.f.insts[i]
      br(t) == Result(SetBr(x, i, t), r.n + 1)
  IN CASE in.op = "cbr" /\ IsConst(x, in.ops[1]) ->
            br(in.to[IF Const(x, in.ops[1]) # 0 THEN 1 ELSE 2])
       [] in.op = "cbr" /\ ~IsConst(x, in.ops[1])
            /\ SameTarget(x, in.to[1], in.to[2]) -> br(in.to[1])
       [] in.op = "switch" /\ IsConst(x, in.ops[1]) ->
            LET w == x.f.insts[Resolve(x.e, in.ops[1])].ty
                hit == SelectInSeq(in.cases,
                         LAMBDA c : Norm(c, w) = Const(x, in.ops[1]))
            IN br(in.to[1 + hit])
       [] OTHER -> r

\* thread: the targets that are block via, reached with no argument,
\* become t. A switch passes no arguments.
Threads(in, via, t) ==
  /\ in.op \in {"br", "cbr", "switch"}
  /\ in.op = "switch" => t.args = <<>>
  /\ \E u \in Range(in.to) : u.b = via /\ u.args = <<>>
Threaded(in, via, t) ==
  [in EXCEPT !.to = [k \in DOMAIN @ |->
     IF @[k].b = via /\ @[k].args = <<>> THEN t ELSE @[k]]]

\* A block to skip: it jumps, and does nothing else.
OnlyJumps(x, b) ==
  /\ b # Entry /\ b \notin x.e.gone /\ Reachable(x.cfg, b)
  /\ x.f.insts[LastOf(x.f, b)].op = "br"
  /\ Len(Live(x.e, Lst(x.f, b))) = 1

\* skip_empty at block via: r has the blocks touched too
SkipEmpty(r, via) ==
  LET x == r.x
      t == x.f.insts[LastOf(x.f, via)].to[1]
      one(q, p) ==
        LET i == LastOf(q.x.f, p) IN
        IF p = via \/ p \in q.x.e.gone \/ ~Threads(q.x.f.insts[i], via, t)
        THEN q
        ELSE [q EXCEPT !.x.f.insts[i] = Threaded(@, via, t),
                       !.n = @ + 1, !.touched = @ \cup {p, via, t.b}]
  IN IF ~OnlyJumps(x, via) THEN r
     ELSE IF t.b = via THEN r
     ELSE FoldLeft(one, r, x.cfg.pred[via])

\* Mutant: the handler of the two blocks is not compared.
MayJoinAny(r, a) ==
  LET x == r.x
      c == x.cfg
      j == x.f.insts[LastOf(x.f, a)]
      b == j.to[1].b
  IN /\ a \notin x.e.gone \cup r.touched /\ Reachable(c, a)
     /\ j.op = "br"
     /\ b \notin {Entry, a} \cup r.touched \cup x.e.gone
     /\ Len(c.pred[b]) = 1
     /\ Len(Live(x.e, Params(x.f, b))) = Len(j.to[1].args)

\* May what block a jumps to join it? Only once a run, under the same
\* handler, and with an argument for each parameter still there.
MayJoin(r, a) ==
  LET x == r.x
      c == x.cfg
      j == x.f.insts[LastOf(x.f, a)]
      b == j.to[1].b
  IN /\ a \notin x.e.gone \cup r.touched /\ Reachable(c, a)
     /\ j.op = "br"
     /\ b \notin {Entry, a} \cup r.touched \cup x.e.gone
     /\ Len(c.pred[b]) = 1
     /\ Handler(x.f, a) = Handler(x.f, b)
     /\ Len(Live(x.e, Params(x.f, b))) = Len(j.to[1].args)

\* join at block a: the parameters become the arguments, what follows them
\* goes to the end of a
Join(r, a) ==
  IF ~MayJoin(r, a) THEN r
  ELSE LET x  == r.x
           i  == LastOf(x.f, a)
           t  == x.f.insts[i].to[1]
           ps == Live(x.e, Params(x.f, t.b))
           e  == FoldLeft(LAMBDA d, k : Replace(d, ps[k], t.args[k]),
                          x.e, [k \in DOMAIN ps |-> k])
       IN [r EXCEPT
             !.x.f.blocks[a].insts = @ \o Body(x.f, t.b),
             !.x.f.blocks[t.b].insts = Params(x.f, t.b),
             !.x.e = [e EXCEPT !.dead = @ \cup {i}, !.gone = @ \cup {t.b}],
             !.n = @ + 1, !.touched = @ \cup {a, t.b}]

\* The blocks the entry reaches by jumps and to the handlers.
RECURSIVE Seen(_, _)
Seen(f, seen) ==
  LET next == seen \cup UNION {Range(Succs(f, b)) : b \in seen}
                   \cup ({Handler(f, b) : b \in seen} \ {None})
  IN IF next = seen THEN seen ELSE Seen(f, next)

\* The blocks not seen go, with what they hold.
DropUnseen(x) ==
  LET out == DOMAIN x.f.blocks \ (x.e.gone \cup Seen(x.f, {Entry}))
      in  == UNION {Range(Lst(x.f, b)) : b \in out}
  IN Result([x EXCEPT
               !.e.gone = @ \cup out, !.e.dead = @ \cup in,
               !.f.blocks = [b \in DOMAIN @ |->
                  IF b \in out THEN [@[b] EXCEPT !.insts = <<>>] ELSE @[b]]],
            Cardinality(out))

\* limba_pass_cfg
SimplifyCfg(x) ==
  LET each(r) == [b \in DOMAIN r.x.f.blocks |-> b]
      branches == FoldLeft(Simpler, Result(x, 0), LiveBlocks(x))
      old(r) == [x |-> WithCfg(r.x), n |-> r.n, touched |-> {}]
      skipped(r) == FoldLeft(SkipEmpty, r, each(r))
      joined(r) == FoldLeft(Join, r, each(r))
      ended(r, d) == IF r.n = 0 THEN Result(r.x, 0)
                     ELSE Result(DropCfg(d.x), r.n + d.n)
      swept(r) == ended(r, DropUnseen(r.x))
  IN swept(joined(skipped(old(branches))))
=============================================================================
