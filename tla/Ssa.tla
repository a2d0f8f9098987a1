--------------------------------- MODULE Ssa ---------------------------------
(***************************************************************************)
(* The builder of SSA form (src/ir/ssa.c), after Braun et al.              *)
(*                                                                         *)
(* A front end makes blocks, defines and uses variables in them, ends them *)
(* with terminators and seals each when its predecessors are known, in any *)
(* order the contract of ssa.h allows: a graph, and the calls that make it *)
(* in every order. Finish then removes the trivial     *)
(* parameters, reports the uses a path reaches without a definition and    *)
(* fixes the arguments of every edge.                                      *)
(*                                                                         *)
(* What the front end said is kept in `body`, so that the function built   *)
(* can be run beside the program it stands for, along every path.          *)
(***************************************************************************)
EXTENDS Integers, Sequences, FiniteSets, SequencesExt

CONSTANTS
  Var,         \* the variables of the front end
  Entry,       \* block 0 of every function
  Wanted,      \* the graphs a front end may want: terminators and targets
  Bound,       \* for each, how much of a program: variables, defs, uses
  None

\* The targets of a switch have it as their only predecessor (ssa.h:53-54),
\* and nothing goes back to the entry.
ASSUME GraphAssumption ==
  \A g \in Wanted :
    /\ Entry \in DOMAIN g
    /\ \A b \in DOMAIN g :
         /\ g[b].term \in {"br", "cbr", "switch", "ret"}
         /\ Range(g[b].to) \subseteq DOMAIN g \ {Entry}
    /\ \A b, c \in DOMAIN g :
         b # c /\ g[b].term = "switch" =>
           Range(g[b].to) \cap Range(g[c].to) = {}
ASSUME BoundAssumption ==
  /\ IsFiniteSet(Var)
  /\ Bound \in [Wanted -> [var : SUBSET Var, defs : Nat, uses : Nat]]

VARIABLES
  plan,       \* the graph the front end wants
  s,          \* struct limba_ssa, with the values of the function
  body,       \* what the front end defined and used in each block
  fin         \* what limba_ssa_finish_edit found, None before it

vars == <<plan, s, body, fin>>

Block == DOMAIN plan
Used == Bound[plan].var
MaxDefs == Bound[plan].defs
MaxUses == Bound[plan].uses

\* A value: an instruction of the front end, the zero of a variable read
\* where nothing assigned it, or a parameter of a block. Its name is its
\* number in s.vals.
Inst == [kind |-> "inst"]
Undef(x) == [kind |-> "undef", var |-> x]
Param(x, b, n) == [kind |-> "param", var |-> x, block |-> b, pos |-> n]

Params(t) == {v \in DOMAIN t.vals : t.vals[v].kind = "param"}
ParamsOf(t, b) == {v \in Params(t) : t.vals[v].block = b}

\* limba_ssa_block. A block not made yet is as one nothing was done with.
NewBlock == [sealed |-> FALSE, term |-> "none", out |-> <<>>,
             preds |-> <<>>, inc |-> <<>>]

Init ==
  /\ plan \in Wanted
  /\ s = [b |-> [b \in Block |-> [NewBlock EXCEPT !.sealed = b = Entry]],
          e |-> <<>>, vals |-> <<>>, stuck |-> FALSE,
          def |-> [x \in Var |-> [b \in Block |-> None]]]
  /\ body = [b \in Block |-> <<>>]
  /\ fin = None

-----------------------------------------------------------------------------
(* Reading a variable. Each operator takes the builder as it is and gives  *)
(* it as it becomes, with the value read.                                  *)

\* make_undef and limba_inst_add
NewVal(t, x) == [t EXCEPT !.vals = Append(@, x)]

\* The last value made.
Newest(t) == Len(t.vals)

SetDef(t, x, b, v) == [t EXCEPT !.def[x][b] = v]

\* Mutant: every parameter takes the first argument.
ParamFirst(t, b, x) == NewVal(t, Param(x, b, 0))

\* new_param
NewParam(t, b, x) == NewVal(t, Param(x, b, Cardinality(ParamsOf(t, b))))

\* Mutant: of two predecessors only the first is asked.
SeveralPast2(preds) == Len(preds) > 2

\* A block with several predecessors takes a parameter, not their values.
Several(preds) == Len(preds) > 1

RECURSIVE ReadVar(_, _, _, _), AddArgs(_, _, _)

\* read_var: `alone` are the blocks crossed, each the only predecessor of
\* the next. Back at one of them, the function calls itself for ever.
ReadVar(t, x, b, alone) ==
  LET preds == t.b[b].preds
      zero  == NewVal(t, Undef(x))
      param == NewParam(t, b, x)
      p     == Newest(param)
  IN IF t.def[x][b] # None
     THEN [s |-> t, v |-> t.def[x][b]]
     ELSE IF ~t.b[b].sealed
     THEN [s |-> [SetDef(param, x, b, p) EXCEPT !.b[b].inc = Append(@, p)],
           v |-> p]
     ELSE IF b = Entry \/ preds = <<>>
     THEN [s |-> SetDef(zero, x, b, Newest(zero)), v |-> Newest(zero)]
     ELSE IF Several(preds)
     THEN [s |-> AddArgs(SetDef(param, x, b, p), p, 1), v |-> p]
     ELSE IF b \in alone
     THEN [s |-> [t EXCEPT !.stuck = TRUE], v |-> 1]
     ELSE LET r == ReadVar(t, x, t.e[preds[1]].from, alone \cup {b})
          IN [s |-> SetDef(r.s, x, b, r.v), v |-> r.v]

\* add_args, from the i-th predecessor on
AddArgs(t, p, i) ==
  LET preds == t.b[t.vals[p].block].preds IN
  IF i > Len(preds) THEN t
  ELSE LET r == ReadVar(t, t.vals[p].var, t.e[preds[i]].from, {})
           u == [r.s EXCEPT !.e[preds[i]].args = Append(@, r.v)]
       IN AddArgs(u, p, i + 1)

\* Mutant: the parameters made before a block is sealed get no arguments.
ForgetInc(t, b) == t

\* The incomplete parameters of b get their arguments, in their order.
Complete(t, b) ==
  FoldLeft(LAMBDA u, p : AddArgs(u, p, 1), t, t.b[b].inc)

-----------------------------------------------------------------------------
(* The calls of the front end. It puts nothing in a block after its        *)
(* terminator, and seals a block when all its edges are there.             *)

\* The builder as a call leaves it: one that reads for ever leaves nothing.
Left(t) == IF t.stuck THEN [s EXCEPT !.stuck = TRUE] ELSE t

Building == fin = None /\ ~s.stuck
Open(b) == s.b[b].term = "none"

Said(op) == {<<b, i>> \in Block \X (1..(MaxDefs + MaxUses)) :
               i \in DOMAIN body[b] /\ body[b][i].op = op}

\* limba_ssa_def of a value made for it
DefNew(x, b) ==
  /\ Building /\ Open(b) /\ Cardinality(Said("def")) < MaxDefs
  /\ LET t == NewVal(s, Inst) IN
       /\ s' = SetDef(t, x, b, Newest(t))
       /\ body' = [body EXCEPT ![b] =
            Append(@, [op |-> "def", var |-> x, from |-> 0,
                       value |-> Newest(t)])]
  /\ UNCHANGED <<plan, fin>>

\* limba_ssa_def of the value that the i-th statement of b read
DefRead(x, b, i) ==
  /\ Building /\ Open(b) /\ Cardinality(Said("def")) < MaxDefs
  /\ i \in DOMAIN body[b] /\ body[b][i].op = "use"
  /\ s' = SetDef(s, x, b, body[b][i].value)
  /\ body' = [body EXCEPT ![b] =
       Append(@, [op |-> "def", var |-> x, from |-> i,
                  value |-> body[b][i].value])]
  /\ UNCHANGED <<plan, fin>>

\* limba_ssa_use: the tag is the number of the use
Use(x, b) ==
  /\ Building /\ Open(b) /\ Cardinality(Said("use")) < MaxUses
  /\ LET r == ReadVar(s, x, b, {}) IN
       /\ s' = Left(r.s)
       /\ body' = [body EXCEPT ![b] =
            Append(@, [op |-> "use", var |-> x, value |-> r.v,
                       tag |-> Cardinality(Said("use")) + 1])]
  /\ UNCHANGED <<plan, fin>>

\* limba_ssa_seal
Seal(b) ==
  /\ Building /\ ~s.b[b].sealed
  /\ \A c \in Block : b \in Range(plan[c].to) => ~Open(c)
  /\ s' = Left([Complete(s, b) EXCEPT !.b[b].inc = <<>>,
                                    !.b[b].sealed = TRUE])
  /\ UNCHANGED <<plan, body, fin>>

\* new_edge
NewEdge(t, from, to) ==
  [t EXCEPT !.e = Append(@, [from |-> from, to |-> to, args |-> <<>>]),
            !.b[to].preds = Append(@, Len(t.e) + 1)]

NewEdges(t, from, targets) ==
  FoldLeft(LAMBDA u, to : NewEdge(u, from, to), t, targets)

\* limba_ssa_br, limba_ssa_cbr, limba_ssa_ret, limba_ssa_switch: an edge to
\* each target; a switch has one for its default and one for each other
\* target, whatever the cases that go there.
End(from) ==
  /\ Building /\ Open(from)
  /\ LET targets == plan[from].to IN
       s' = [NewEdges(s, from, targets) EXCEPT
               !.b[from].term = plan[from].term,
               !.b[from].out = [i \in DOMAIN targets |-> Len(s.e) + i]]
  /\ UNCHANGED <<plan, body, fin>>

-----------------------------------------------------------------------------
(* The end. F is the struct fin: the builder, with rep, the replacement    *)
(* of each trivial parameter, and state, the memory of may_undef.          *)

\* The blocks that the entry reaches.
Succ(t, b) == {t.e[i].to : i \in Range(t.b[b].out)}
RECURSIVE From(_, _)
From(t, R) == LET more == R \cup UNION {Succ(t, b) : b \in R}
              IN IF more = R THEN R ELSE From(t, more)
Reach(t) == From(t, {Entry})

\* Mutant: one step of the chain of replacements only.
ResolveOnce(F, v) ==
  IF v \in DOMAIN F.rep /\ F.rep[v] # None THEN F.rep[v] ELSE v

RECURSIVE Resolve(_, _)
Resolve(F, v) ==
  IF v \in DOMAIN F.rep /\ F.rep[v] # None THEN Resolve(F, F.rep[v]) ELSE v

\* Mutant: the edges from blocks no path reaches count too.
LiveAnyway(F, p) ==
  SelectSeq(F.s.b[F.s.vals[p].block].preds,
            LAMBDA i : F.s.vals[p].pos < Len(F.s.e[i].args))

\* The edges that give the parameter p an argument.
Live(F, p) ==
  SelectSeq(F.s.b[F.s.vals[p].block].preds,
            LAMBDA i : /\ F.s.e[i].from \in F.reach
                       /\ F.s.vals[p].pos < Len(F.s.e[i].args))

Arg(F, i, p) == F.s.e[i].args[F.s.vals[p].pos + 1]

\* The values that the parameter p may have, but itself.
Others(F, p) == {Resolve(F, Arg(F, i, p)) : i \in Range(Live(F, p))} \ {p}

\* Mutant: a parameter is replaced only when it is given nothing.
TrivialIfUnset(F, p) == Others(F, p) = {}

Trivial(F, p) == Cardinality(Others(F, p)) <= 1

\* One parameter of the loop over them all, replaced if it is trivial.
Reduce(F, p) ==
  IF \/ F.rep[p] # None \/ F.s.vals[p].block \notin F.reach
     \/ ~Trivial(F, p)
  THEN F
  ELSE IF Others(F, p) # {}
  THEN [F EXCEPT !.rep[p] = CHOOSE v \in Others(F, p) : TRUE]
  ELSE LET t == NewVal(F.s, Undef(F.s.vals[p].var))
       IN [F EXCEPT !.s = t, !.rep[p] = Newest(t)]

RECURSIVE ReduceAll(_)
ReduceAll(F) ==
  LET G == FoldLeft(Reduce, F, SetToSortSeq(Params(F.s), <))
  IN IF G = F THEN F ELSE ReduceAll(G)

RECURSIVE MayUndef(_, _), AnyUndef(_, _, _)

\* may_undef: [F, yes]. What is found is kept in F.state.
MayUndef(F, v0) ==
  LET v == Resolve(F, v0)
      k == F.s.vals[v].kind
  IN CASE k = "undef" -> [F |-> F, yes |-> TRUE]
       [] k = "inst"  -> [F |-> F, yes |-> FALSE]
       [] k = "param" /\ F.state[v] # "unknown" ->
            [F |-> F, yes |-> F.state[v] = "yes"]
       [] OTHER ->
            LET r == AnyUndef([F EXCEPT !.state[v] = "visiting"], v, Live(F, v))
            IN [F |-> [r.F EXCEPT !.state[v] = IF r.yes THEN "yes" ELSE "no"],
                yes |-> r.yes]

\* Over the edges of p, until one gives a value that may be undefined.
AnyUndef(F, p, edges) ==
  IF edges = <<>> THEN [F |-> F, yes |-> FALSE]
  ELSE LET r == MayUndef(F, Arg(F, Head(edges), p))
       IN IF r.yes THEN r ELSE AnyUndef(r.F, p, Tail(edges))

\* The reads, in the order the front end made them.
Reads == SetToSortSeq(Said("use"),
           LAMBDA u, w : body[u[1]][u[2]].tag < body[w[1]][w[2]].tag)

\* The report on one read.
Tell(F, u) ==
  LET use == body[u[1]][u[2]]
      r   == MayUndef(F, use.value)
  IN IF u[1] \notin F.reach THEN F
     ELSE IF r.yes THEN [r.F EXCEPT !.told = @ \cup {use.tag}] ELSE r.F

\* limba_ssa_finish_edit, once every block is ended and sealed
Finish ==
  /\ Building
  /\ \A b \in Block : s.b[b].term # "none" /\ s.b[b].sealed
  /\ LET F0 == [s |-> s, reach |-> Reach(s), told |-> {},
                rep |-> [p \in Params(s) |-> None],
                state |-> [p \in Params(s) |-> "unknown"]]
         F  == FoldLeft(Tell, ReduceAll(F0), Reads)
     IN /\ fin' = [reach |-> F.reach, rep |-> F.rep, told |-> F.told]
        /\ s' = F.s
  /\ UNCHANGED <<plan, body>>

Next ==
  \/ \E x \in Used, b \in Block : DefNew(x, b) \/ Use(x, b)
  \/ \E x \in Used, b \in Block, i \in 1..(MaxDefs + MaxUses) : DefRead(x, b, i)
  \/ \E b \in Block : Seal(b) \/ End(b)
  \/ Finish

Spec == Init /\ [][Next]_vars

-----------------------------------------------------------------------------
(* The function built, run beside the program. A point of a run is the     *)
(* block entered, the definition each variable has there, and the value of *)
(* each parameter. The program knows a definition by its value; None is a  *)
(* variable that nothing assigned.                                         *)

Final == [s |-> s, rep |-> fin.rep]

\* What the value v is when the parameters are env.
ValueOf(env, v) ==
  LET w == Resolve(Final, v) IN
  CASE s.vals[w].kind = "inst"  -> w
    [] s.vals[w].kind = "undef" -> None
    [] OTHER -> env[w]

\* The first n statements of b, on the definitions cur: the definitions
\* then, and what each statement read.
RECURSIVE After(_, _, _)
After(cur, b, n) ==
  IF n = 0 THEN [cur |-> cur, got |-> <<>>]
  ELSE LET a  == After(cur, b, n - 1)
           st == body[b][n]
       IN IF st.op = "use"
          THEN [a EXCEPT !.got = Append(@, a.cur[st.var])]
          ELSE [cur |-> [a.cur EXCEPT ![st.var] =
                           IF st.from = 0 THEN st.value ELSE a.got[st.from]],
                got |-> Append(a.got, None)]

\* The parameters kept of b.
Kept(b) == {p \in ParamsOf(s, b) : fin.rep[p] = None}

\* The edge i crossed: the parameters of its target take their values, all
\* at once. An edge that gives a parameter nothing gives the value 0.
Crossed(env, i) ==
  LET e == s.e[i] IN
  [p \in DOMAIN env |->
     IF p \notin Kept(e.to) THEN env[p]
     ELSE IF s.vals[p].pos < Len(e.args)
     THEN ValueOf(env, e.args[s.vals[p].pos + 1]) ELSE 0]

Steps(P) ==
  {[at |-> s.e[i].to, cur |-> After(P.cur, P.at, Len(body[P.at])).cur,
    env |-> Crossed(P.env, i)] : i \in Range(s.b[P.at].out)}

RECURSIVE PointsFrom(_)
PointsFrom(S) == LET more == S \cup UNION {Steps(P) : P \in S}
                 IN IF more = S THEN S ELSE PointsFrom(more)

Points == PointsFrom({[at |-> Entry, cur |-> [x \in Var |-> None],
                       env |-> [p \in DOMAIN fin.rep |-> 0]]})

\* The uses met at a point: <<tag, what the program reads, what the
\* function built reads>>.
Met(P) ==
  LET a == After(P.cur, P.at, Len(body[P.at])) IN
  {<<body[P.at][i].tag, a.got[i], ValueOf(P.env, body[P.at][i].value)>> :
     i \in {j \in DOMAIN body[P.at] : body[P.at][j].op = "use"}}

Uses == UNION {Met(P) : P \in Points}

\* The uses that some path reaches without a definition.
Unassigned == {u[1] : u \in {w \in Uses : w[2] = None}}

-----------------------------------------------------------------------------

\* Along every path, each use reads in the function built the definition
\* that the program reads there: loops, joins, values read and assigned to
\* another variable, parameters removed (ssa.h, the algorithm of Braun).
UseRight == fin # None => \A u \in Uses : u[2] = u[3]

\* A use is reported only if some path reaches it without a definition
\* (ssa.h:16-17).
NoFalseReport == fin # None => fin.told \subseteq Unassigned

\* An edge to a sealed block has one argument for each of its parameters,
\* whatever the order of uses and seals (add_args puts each at the end,
\* push_target takes it at the place of the parameter).
ArgsInPlace ==
  \A i \in DOMAIN s.e :
    LET b == s.e[i].to IN
    Len(s.e[i].args) =
      IF s.b[b].sealed THEN Cardinality(ParamsOf(s, b)) ELSE 0

\* The instruction switch gives no arguments (ssa.h:53-54): no parameter
\* of a block a switch goes to is kept, even when two of its edges go there.
SwitchGivesNone ==
  fin # None =>
    \A b \in fin.reach : s.b[b].term = "switch" =>
      \A to \in Succ(s, b) : Kept(to) = {}

\* Every use that some path reaches without a definition is reported
\* (ssa.h:16-17).
AllReported == fin # None => Unassigned \subseteq fin.told

\* Reading a variable ends, in whatever order the blocks are made and sealed
\* (ssa.c:257: "a loop through this block ends here"), but in a loop that no
\* path reaches and whose blocks have one predecessor each, where nothing
\* stops read_var (ssa.c:255).
ReadEnds ==
  s.stuck =>
    \E B \in SUBSET (Block \ Reach(s)) \ {{}} : \A b \in B :
      /\ s.b[b].sealed /\ Len(s.b[b].preds) = 1
      /\ s.e[s.b[b].preds[1]].from \in B
=============================================================================
