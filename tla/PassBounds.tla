------------------------------- MODULE PassBounds -----------------------------
(***************************************************************************)
(* The pass "bounds" (src/opt/bounds.c): a check goes when the facts known *)
(* where it is prove its condition. A fact says v - u <= w of two values,  *)
(* or of a value and Zero. Some hold wherever their values are; those of a *)
(* branch or of a check passed hold in the part of the dominator tree      *)
(* below. A proof is a short path of facts.                                *)
(***************************************************************************)
EXTENDS Edit

CONSTANTS
  FactBits,      \* the width of w, that of the widest integer (64)
  ProofDepth,    \* DEPTH: facts on a path
  ProofNodes     \* EXPAND: values a search may go on from

ASSUME BoundsAssumption == {FactBits, ProofDepth, ProofNodes} \subseteq Nat \ {0}

Zero == 0
Fact(u, v, w) == [u |-> u, v |-> v, w |-> w]
MinFact == -(2^(FactBits - 1))
MaxFact == 2^(FactBits - 1) - 1

\* is_int
IsInt(ty) == ty \notin {Void, 1, Ptr}

\* val, def: the instruction whose value operand v is
ValueOf(x, v) == Resolve(x.e, v)
DefOf(x, v) == x.f.insts[ValueOf(x, v)]

\* konst
IsKonst(x, v) == DefOf(x, v).op = "iconst" /\ IsInt(DefOf(x, v).ty)
Konst(x, v) == Norm(DefOf(x, v).imm, DefOf(x, v).ty)

-----------------------------------------------------------------------------
(* What holds everywhere                                                   *)

\* equal: a is b + k
Equal(a, b, k) ==
  <<Fact(b, a, k)>> \o (IF k = MinFact THEN <<>> ELSE <<Fact(a, b, -k)>>)

\* arg_from: what block q gives parameter `place` of block b, of all its
\* jumps there
JumpsTo(x, q, b) == SelectSeq(x.f.insts[LastOf(x.f, q)].to, LAMBDA t : t.b = b)
ArgsFrom(x, q, b, place) ==
  {ValueOf(x, t.args[place]) : t \in Range(JumpsTo(x, q, b))}
GivesOne(x, q, b, place) ==
  /\ Op(x.f, LastOf(x.f, q)) \in {"br", "cbr"}
  /\ \A t \in Range(JumpsTo(x, q, b)) : place <= Len(t.args)
  /\ Cardinality(ArgsFrom(x, q, b, place)) = 1

\* Mutant: a sum that wraps is a step too.
StepsWrapping(x, a, p, dir) ==
  LET in == x.f.insts[a]
      o == ResolveAll(x.e, in.ops)
      by(k, d) == IsKonst(x, k) /\ d * Konst(x, k) >= 0
  IN \/ in.op \in {"add", "add.ov"} /\ \E k \in 1..2 : o[k] = p /\ by(o[3 - k], dir)
     \/ in.op = "sub.ov" /\ o[1] = p /\ by(o[2], -dir)

\* steps: a is p and a constant, upwards when dir is 1, downwards when -1
Steps(x, a, p, dir) ==
  LET in == x.f.insts[a]
      o == ResolveAll(x.e, in.ops)
      by(k, d) == IsKonst(x, k) /\ d * Konst(x, k) >= 0
  IN \/ in.op = "add.ov" /\ \E k \in 1..2 : o[k] = p /\ by(o[3 - k], dir)
     \/ in.op = "sub.ov" /\ o[1] = p /\ by(o[2], -dir)

\* induction: parameter p of b comes from one value of before the loop, and
\* from itself and steps one way
Induction(x, b, place, p) ==
  LET from == {q \in Range(x.cfg.pred[b]) : Reachable(x.cfg, q)}
      args == UNION {ArgsFrom(x, q, b, place) : q \in from} \ {p}
      going(dir) == {a \in args : Steps(x, a, p, dir)}
      inits == args \ (going(1) \cup going(-1))
      before(v) == LET d == BlockOf(x.f, v) IN
                     d # b /\ Reachable(x.cfg, d) /\ Dominates(x.cfg, d, b)
      v == CHOOSE i \in inits : TRUE
  IN IF ~\A q \in from : GivesOne(x, q, b, place) THEN <<>>
     ELSE IF Cardinality(inits) # 1 THEN <<>>
     ELSE IF ~before(v) THEN <<>>
     ELSE IF args \ inits \subseteq going(1) THEN <<Fact(p, v, 0)>>
     ELSE IF args \ inits \subseteq going(-1) THEN <<Fact(v, p, 0)>>
     ELSE <<>>

\* What instruction i says of its value; the parameters of b still there are
\* the ones its edges give.
FactsOf(x, b, i) ==
  LET in == x.f.insts[i]
      known(k) == IsKonst(x, in.ops[k])
      sum(k, c) == Equal(i, ValueOf(x, in.ops[k]), c)
      place == SelectInSeq(Live(x.e, Params(x.f, b)), LAMBDA p : p = i)
  IN CASE ~IsInt(in.ty) -> <<>>
       [] in.op = "param" /\ IsInt(in.ty) -> Induction(x, b, place, i)
       [] in.op = "iconst" /\ IsInt(in.ty) -> Equal(i, Zero, Norm(in.imm, in.ty))
       [] in.op = "sext" /\ IsInt(in.ty) ->
            IF IsInt(DefOf(x, in.ops[1]).ty) THEN sum(1, 0) ELSE <<>>
       [] in.op = "add.ov" /\ IsInt(in.ty) ->
            IF known(2) THEN sum(1, Konst(x, in.ops[2]))
            ELSE IF known(1) THEN sum(2, Konst(x, in.ops[1])) ELSE <<>>
       [] in.op = "sub.ov" /\ IsInt(in.ty) ->
            IF known(2) /\ Konst(x, in.ops[2]) # MinFact
            THEN sum(1, -Konst(x, in.ops[2])) ELSE <<>>
       [] OTHER -> <<>>

\* everywhere
Everywhere(x) ==
  LET n == Len(x.f.blocks)
      here(b) == IF Reachable(x.cfg, b) THEN Live(x.e, Lst(x.f, b)) ELSE <<>>
      all == FlattenSeq([b \in 1..n |-> here(b)])
  IN FlattenSeq([k \in DOMAIN all |-> FactsOf(x, BlockOf(x.f, all[k]), all[k])])

-----------------------------------------------------------------------------
(* What a condition says                                                   *)

\* compare: no fact for ne and the comparisons without sign
Compared(cc, a, b) ==
  CASE cc = "eq" -> <<Fact(b, a, 0), Fact(a, b, 0)>>
    [] cc = "sle" -> <<Fact(b, a, 0)>>
    [] cc = "slt" -> <<Fact(b, a, -1)>>
    [] cc = "sge" -> <<Fact(a, b, 0)>>
    [] cc = "sgt" -> <<Fact(a, b, -1)>>
    [] OTHER -> <<>>

\* Mutant: not below is above.
NegatedStrict(cc) ==
  CASE cc = "ne" -> "eq" [] cc = "sle" -> "sgt" [] cc = "slt" -> "sgt"
    [] cc = "sge" -> "slt" [] cc = "sgt" -> "slt" [] OTHER -> "ne"

\* negate
Negated(cc) ==
  CASE cc = "ne" -> "eq" [] cc = "sle" -> "sgt" [] cc = "slt" -> "sge"
    [] cc = "sge" -> "slt" [] cc = "sgt" -> "sle" [] OTHER -> "ne"

\* know: condition c is `truth`
RECURSIVE Know(_, _, _, _)
Know(x, c, truth, depth) ==
  LET in == DefOf(x, c)
      v(k) == ValueOf(x, in.ops[k])
  IN IF depth > 4 THEN <<>>
     ELSE IF (in.op = "and" /\ truth) \/ (in.op = "or" /\ ~truth)
     THEN FlattenSeq([k \in 1..2 |-> Know(x, in.ops[k], truth, depth + 1)])
     ELSE IF in.op = "icmp" /\ IsInt(DefOf(x, in.ops[1]).ty)
     THEN Compared(IF truth THEN in.cc ELSE Negated(in.cc), v(1), v(2))
     ELSE <<>>

-----------------------------------------------------------------------------
(* Proofs                                                                  *)

\* A fact out of u, at distance du from the start of the search q: dist has
\* the values come to, next the ones to go on from.
Along(q, u, du, fact) ==
  LET w == du + fact.w
      v == fact.v
  IN IF fact.u # u \/ w \notin MinFact..MaxFact THEN q
     ELSE IF v \in DOMAIN q.dist /\ q.dist[v] <= w THEN q
     ELSE [q EXCEPT !.dist = (v :> w) @@ @,
                    !.next = IF Contains(@, v) THEN @ ELSE Append(@, v)]

\* One value of a layer.
GoOn(facts, q, u) ==
  IF q.nodes = 0 THEN q
  ELSE FoldLeft(LAMBDA r, fact : Along(r, u, q.dist[u], fact),
                [q EXCEPT !.nodes = @ - 1], facts)

\* The layers of the search, d of them left.
RECURSIVE Layers(_, _, _)
Layers(facts, q, d) ==
  IF d = 0 \/ q.next = <<>> \/ q.nodes = 0 THEN q.dist
  ELSE Layers(facts,
              FoldLeft(LAMBDA r, u : GoOn(facts, r, u), [q EXCEPT !.next = <<>>], q.next),
              d - 1)

\* reach: the least w found with dst - src <= w
Reach(facts, src, dst) ==
  LET dist == Layers(facts, [dist |-> src :> 0, next |-> <<src>>, nodes |-> ProofNodes],
                     ProofDepth)
  IN IF dst \in DOMAIN dist THEN dist[dst] ELSE MaxFact

\* proved: a comparison, by the facts it would be known to say
RECURSIVE Proved(_, _, _, _)
Proved(x, facts, c, depth) ==
  LET in == DefOf(x, c)
      v(k) == ValueOf(x, in.ops[k])
      wanted == Range(Compared(in.cc, v(1), v(2)))
  IN CASE in.op = "iconst" -> Norm(in.imm, in.ty) # 0
       [] in.op = "and" /\ depth <= 4 ->
            \A k \in 1..2 : Proved(x, facts, in.ops[k], depth + 1)
       [] in.op = "icmp" /\ depth <= 4 ->
            /\ IsInt(x.f.insts[v(1)].ty) /\ wanted # {}
            /\ \A fact \in wanted : Reach(facts, fact.u, fact.v) <= fact.w
       [] OTHER -> FALSE

-----------------------------------------------------------------------------
(* The walk: r has the context, the changes, the facts each block visited   *)
(* ended with, and the block visited last                                  *)

\* edge_fact: of the branch at the end of the only block before b
EdgeFacts(x, b) ==
  IF Len(x.cfg.pred[b]) # 1 THEN <<>>
  ELSE LET in == x.f.insts[LastOf(x.f, x.cfg.pred[b][1])]
       IN IF in.op # "cbr" THEN <<>>
          ELSE IF in.to[1].b = in.to[2].b THEN <<>>
          ELSE Know(x, in.ops[1], in.to[1].b = b, 0)

\* Mutant: the facts of a block are kept for the blocks beside it.
AboveKeeping(r, b) == r.last

\* On the way back up the facts of a block are dropped: the next block has
\* those of the one it is below.
Above(r, b) == r.x.cfg.idom[b]

\* What is known where block b starts, or goes on.
KnownIn(r, b) ==
  IF b \in DOMAIN r.s THEN r.s[b]
  ELSE (IF b = Entry THEN <<>> ELSE r.s[Above(r, b)]) \o EdgeFacts(r.x, b)

\* visit, at instruction i of block b: of an and with one operand proved, the
\* other has still to be checked
VisitCheck(g, q, b, i) ==
  LET r == [q EXCEPT !.s = (b :> KnownIn(q, b)) @@ @, !.last = b]
      x == q.x
      c == x.f.insts[i].ops[1]
      in == DefOf(x, c)
      parts == IF in.op = "and" THEN ResolveAll(x.e, in.ops) ELSE <<>>
      known == {v \in {c} \cup Range(parts) : Proved(x, g \o r.s[b], v, 0)}
      still == SelectSeq(parts, LAMBDA v : v \notin known)
      left == IF Len(still) = Len(parts) THEN c ELSE Head(still)
  IN IF i \in x.e.dead \/ Op(x.f, i) # "check" THEN r
     ELSE IF c \in known THEN [r EXCEPT !.x.e.dead = @ \cup {i}, !.n = @ + 1]
     ELSE [r EXCEPT !.x.f.insts[i].ops = <<left>>,
                    !.n = @ + (IF left = c THEN 0 ELSE 1),
                    !.s[b] = @ \o Know(x, c, TRUE, 0)]

\* The instructions of block b and of those below it in the tree.
RECURSIVE Down(_, _)
Down(x, b) ==
  LET n == Len(x.f.blocks)
      kids == InOrder({c \in (1..n) \ {Entry} : x.cfg.idom[c] = b}, n)
  IN FlattenSeq(<<Lst(x.f, b)>> \o [k \in DOMAIN kids |-> Down(x, kids[k])])

WalkFacts(g, x) ==
  FoldLeft(LAMBDA q, i : VisitCheck(g, q, BlockOf(x.f, i), i),
           [x |-> x, n |-> 0, s |-> <<>>, last |-> Entry], Down(x, Entry))

\* There is a check of a comparison.
AnyCheck(x) ==
  \E i \in DOMAIN x.f.insts :
    /\ Op(x.f, i) = "check" /\ i \notin x.e.dead
    /\ DefOf(x, x.f.insts[i].ops[1]).op \in {"icmp", "and"}

\* limba_pass_bounds
Bounds(x) ==
  LET y == WithCfg(x)
      r == WalkFacts(Everywhere(y), y)
  IN IF AnyCheck(y) THEN Result(r.x, r.n) ELSE Result(y, 0)
=============================================================================
