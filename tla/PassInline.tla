------------------------------- MODULE PassInline -----------------------------
(***************************************************************************)
(* The pass "inline" (src/opt/inline.c): a call of a short function        *)
(* optimised before becomes a copy of its body. The library is             *)
(* [body, done]: the functions that may go in line, and those optimised.   *)
(***************************************************************************)
EXTENDS Edit

CONSTANTS
  InlineMax,    \* INLINE_MAX: the most instructions of a copy
  InlineGrow    \* INLINE_GROW: how much a short caller may grow

ASSUME InlineAssumption == InlineMax \in Nat /\ InlineGrow \in Nat

\* The instructions of a function, its parameters not counted.
SizeOf(g) == Cardinality({i \in DOMAIN g.insts : Op(g, i) # "param"})

\* The values computed from an address of a slot, those der at first: a
\* load gives what it reads, an argument its parameter.
RECURSIVE Derived(_, _)
Derived(g, der) ==
  LET made == {i \in DOMAIN g.insts :
                 LET in == g.insts[i] IN
                   /\ in.ty # Void
                   /\ \/ in.op = "slot"
                      \/ /\ in.op \notin {"load", "load.inv"}
                         /\ Range(in.ops) \cap der # {}}
      given == UNION {LET t == g.insts[i].to[k]
                          ps == Params(g, t.b)
                      IN {ps[a] : a \in {a \in DOMAIN t.args : t.args[a] \in der}} :
                        <<i, k>> \in {<<i, k>> \in (DOMAIN g.insts) \X (1..2) :
                                        k \in DOMAIN g.insts[i].to}}
      next == der \cup made \cup given
  IN IF next = der THEN der ELSE Derived(g, next)

\* Mutant: no address is followed.
NeverEscapes(g) == FALSE

\* slot_escapes: one reaches a ret, or is the value of a store
SlotEscapes(g) ==
  LET der == Derived(g, {}) IN
  \E i \in DOMAIN g.insts :
    LET in == g.insts[i] IN
      \/ in.op = "ret" /\ Range(in.ops) \cap der # {}
      \/ in.op = "store" /\ in.ops[1] \in der

\* eligible: it calls only functions optimised before it, never itself
Eligible(lib, M, fid) ==
  LET g == M[fid] IN
    /\ SizeOf(g) <= InlineMax
    /\ \A i \in DOMAIN g.insts :
         Op(g, i) = "call" => g.insts[i].imm \in lib.done \ {fid}
    /\ g.slots = 0 \/ ~SlotEscapes(g)

\* limba_inline_record
Record(lib, M, fid) ==
  [body |-> IF fid \notin lib.done /\ Eligible(lib, M, fid)
            THEN [lib.body EXCEPT ![fid] = <<M[fid]>>] ELSE lib.body,
   done |-> lib.done \cup {fid}]

-----------------------------------------------------------------------------
\* Mutant: the slots of the copy are made, and keep what they held.
KeepSlots(f, cur, n) == [f EXCEPT !.slots = @ + n]

\* The slots of the copy, zeroed each time it runs: a constant 0, then for
\* each slot its address, its size and the memset.
ZeroSlots(f, cur, n) ==
  LET one(g, k) ==
        LET z == Len(f.insts) + 1
            a == AddInst(g, cur, Inst("slot", Ptr, f.slots + k, <<>>, <<>>))
            s == AddInst(a, cur, Inst("iconst", Identity, 1, <<>>, <<>>))
        IN AddInst(s, cur, Inst("memset", Void, 0,
                                <<Len(a.insts), z, Len(s.insts)>>, <<>>))
  IN IF n = 0 THEN f
     ELSE [FoldLeft(one, AddInst(f, cur, Inst("iconst", 8, 0, <<>>, <<>>)),
                    [k \in 1..n |-> k]) EXCEPT !.slots = @ + n]

\* Mutant: every block of the copy takes the handler of the call.
HandlerOfCall(g, bmap, ch, b) == ch

\* A block of the copy keeps its handler there, else takes that of the call.
CopyHandler(g, bmap, ch, b) ==
  IF Handler(g, b) = None THEN ch ELSE bmap[Handler(g, b)]

\* expand: the call at place k of block cur becomes a copy of g; what came
\* after it goes to a new block, which takes its value. Gives the context
\* and that block.
Expand(x, cur, k, g) ==
  LET call == Lst(x.f, cur)[k]
      ci == x.f.insts[call]
      args == ResolveAll(x.e, ci.ops)
      after == Len(x.f.blocks) + 1
      ch == Handler(x.f, cur)
      rest == SubSeq(Lst(x.f, cur), k + 1, Len(Lst(x.f, cur)))
      \* the call gone from its block, and the block after it
      f1 == AddBlock(x.f)
      f2 == IF ci.ty = Void THEN f1
            ELSE AddInst(f1, after, Inst("param", ci.ty, 0, <<>>, <<>>))
      f3 == [f2 EXCEPT !.blocks[after] = [insts |-> @.insts \o rest, handler |-> ch],
                       !.blocks[cur].insts = SubSeq(@, 1, k - 1)]
      e1 == Sync(x.e, f3)
      e2 == IF ci.ty = Void THEN [e1 EXCEPT !.dead = @ \cup {call}]
            ELSE Replace(e1, call, Len(f3.insts))
      \* the blocks of the copy, its entry continuing cur
      bmap == [b \in DOMAIN g.blocks |-> IF b = Entry THEN cur ELSE after + b - 1]
      f4 == [f3 EXCEPT !.blocks = @ \o [b \in 1..(Len(g.blocks) - 1) |->
               [insts |-> <<>>, handler |-> CopyHandler(g, bmap, ch, b + 1)]]]
      f5 == ZeroSlots(f4, cur, g.slots)
      \* the values of the copy, in the order of its blocks
      ps == Params(g, Entry)
      order == Body(g, Entry) \o FlattenSeq([b \in 1..(Len(g.blocks) - 1) |->
                                               Lst(g, b + 1)])
      vmap(i) == IF Contains(ps, i) THEN args[PlaceIn(ps, i)]
                 ELSE Len(f5.insts) + PlaceIn(order, i)
      vals(s) == [j \in DOMAIN s |-> vmap(s[j])]
      copy(in) ==
        IF in.op = "ret"
        THEN Inst("br", Void, 0, <<>>, <<Target(after, vals(in.ops))>>)
        ELSE [in EXCEPT
                !.imm = IF in.op = "slot" THEN @ + f4.slots ELSE @,
                !.ops = vals(@),
                !.to = [t \in DOMAIN @ |-> Target(bmap[@[t].b], vals(@[t].args))]]
      f6 == FoldLeft(LAMBDA f, i : AddInst(f, bmap[BlockOf(g, i)], copy(g.insts[i])),
                     f5, order)
  IN [x |-> [x EXCEPT !.f = f6, !.e = Sync(e2, f6)], after |-> after]

\* The calls of block cur from place k on, size the instructions so far.
RECURSIVE InlineFrom(_, _, _, _, _)
InlineFrom(lib, cap, r, cur, k) ==
  LET l == Lst(r.x.f, cur)
      in == r.x.f.insts[l[k]]
      g == lib.body[in.imm][1]
      fits == /\ l[k] \notin r.x.e.dead
              /\ in.op = "call" /\ lib.body[in.imm] # <<>>
              /\ r.size + SizeOf(g) <= cap
      z == Expand(r.x, cur, k, g)
  IN IF k > Len(l) THEN r
     ELSE IF ~fits THEN InlineFrom(lib, cap, r, cur, k + 1)
     ELSE InlineFrom(lib, cap,
                     [x |-> z.x, n |-> r.n + 1, size |-> r.size + SizeOf(g)],
                     z.after, Len(Params(z.x.f, z.after)) + 1)

\* limba_pass_inline
Inline(x, lib) ==
  LET size == Cardinality({i \in DOMAIN x.f.insts \ x.e.dead :
                             Op(x.f, i) # "param"})
      cap == size + (IF size > InlineGrow THEN size ELSE InlineGrow)
      blocks == SelectSeq([b \in DOMAIN x.f.blocks |-> b],
                          LAMBDA b : b \notin x.e.gone)
      r == FoldLeft(LAMBDA q, b : InlineFrom(lib, cap, q, b, 1),
                    [x |-> x, n |-> 0, size |-> size], blocks)
  IN IF r.n = 0 THEN Result(x, 0) ELSE Result(DropCfg(r.x), r.n)
=============================================================================
