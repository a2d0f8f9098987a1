------------------------------ MODULE Handled ------------------------------
(***************************************************************************)
(* The set "under a handler": src/ir/handled.c.  The functions an          *)
(* exception may cross on its way to a handler, computed from the bodies   *)
(* and, for the bodies that were freed, from a summary kept of them; the   *)
(* module keeps the set until a call says that the IR has changed.         *)
(***************************************************************************)
EXTENDS Module

Insts(f) == {f.insts[i] : i \in UNION {ToSet(f.blocks[b].insts) : b \in DOMAIN f.blocks}}
Imm(f, op) == {in.imm : in \in {i \in Insts(f) : i.op = op}}

\* the body given to a par_for: a faddr of the same function, or not known (0)
BodyOf(f, in) ==
    IF in.ops[1] < Len(f.insts) /\ f.insts[in.ops[1] + 1].op = "faddr"
    THEN f.insts[in.ops[1] + 1].imm ELSE 0
IsParFor(in) == in.op = "call.rt" /\ in.imm = ParFor /\ in.ops # <<>>
Bodies(f) == {BodyOf(f, in) : in \in {i \in Insts(f) : IsParFor(i)}}
Summarise(f) ==
    [noted |-> TRUE, has_handler |-> \E b \in DOMAIN f.blocks : f.blocks[b].handler # 0,
     callees |-> Imm(f, "call"), taken |-> Imm(f, "faddr"), sigs |-> Imm(f, "call.ind"),
     bodies |-> Bodies(f)]

\* limba_handled_summary, and limba_func_clear with it
Summary(f) == IF f.blocks = <<>> THEN f ELSE [f EXCEPT !.sum = Summarise(f)]
Cleared(f) ==
    [f EXCEPT !.slots = <<>>, !.blocks = <<>>, !.insts = <<>>, !.has_locs = FALSE,
              !.locs = <<>>, !.pos_cur = 0]

\* Mutant: no summary is kept of a body freed.
ClearAll(m, f) == Touch([m EXCEPT !.funcs[f] = Cleared(@)])

FuncClear(m, f) == Touch([m EXCEPT !.funcs[f] = Cleared(Summary(@))])

(* ------------------------------ compute() ------------------------------- *)

Sum(f) == IF f.blocks = <<>> /\ f.sum.noted THEN f.sum ELSE Summarise(f)
\* the same sequence, each element computed once
Once(s) == SubSeq(s, 1, Len(s))
Sums(m) == Once([i \in DOMAIN m.funcs |-> Sum(m.funcs[i])])

\* fn(ptr, i64) -> void
BodyType(m, t) ==
    /\ t \in FirstUser .. NTypes(m)
    /\ LET ty == m.types[t - FirstUser + 1]
       IN  /\ ty.kind = FUNC /\ ty.elem = VOID /\ ty.variadic = 0 /\ ty.count = 2
           /\ ty.mem[1][1] = PTR /\ ty.mem[2][1] = I64
FuncRelocs(g) == {r.id : r \in {q \in ToSet(g.data.relocs) : q.kind = RelocFunc}}
Taken(m, s) == (UNION ({s[i].taken : i \in DOMAIN s}
                       \cup {FuncRelocs(m.globals[g]) : g \in DOMAIN m.globals}))
               \cap DOMAIN m.funcs

\* the roots: functions with a protected block, and the bodies of par_for
RootsOf(m, s, taken) ==
    {i \in DOMAIN s : s[i].has_handler}
    \cup ((UNION {s[i].bodies : i \in DOMAIN s}) \cap DOMAIN s)
    \cup {g \in taken : BodyType(m, m.funcs[g].type) /\ \E i \in DOMAIN s : 0 \in s[i].bodies}
\* what f may call: directly, or by a signature
CallsOf(m, s, taken, f) ==
    (s[f].callees \cap DOMAIN s) \cup {g \in taken : m.funcs[g].type \in s[f].sigs}

\* the work list, a round at a time: in n rounds all is reached
Grown(S, calls) == S \cup UNION {calls[f] : f \in S}
Closure(roots, calls) ==
    LET set[n \in 0 .. Len(calls)] == IF n = 0 THEN roots ELSE Grown(set[n - 1], calls)
    IN  set[Len(calls)]
ComputeWith(m, s, taken) ==
    Closure(RootsOf(m, s, taken), Once([f \in DOMAIN s |-> CallsOf(m, s, taken, f)]))
ComputeFrom(m, s) == ComputeWith(m, s, Taken(m, s))
Compute(m) == ComputeFrom(m, Sums(m))

\* limba_module_handled: the set, made again when it may be old
Asked(m) ==
    IF m.fresh /\ m.nhandled = Len(m.funcs) THEN m
    ELSE [m EXCEPT !.handled = Compute(m), !.nhandled = Len(m.funcs), !.fresh = TRUE]

=============================================================================
