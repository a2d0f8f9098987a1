------------------------------- MODULE Optimizer ------------------------------
(***************************************************************************)
(* The optimiser of a whole module (src/opt/manager.c): the functions one  *)
(* after the other, each after those it calls, and on each the passes of   *)
(* the pipeline, in rounds, until no pass has work. A step is the run of   *)
(* one pass, by the operators of the modules Pass*.                        *)
(*                                                                         *)
(* `verify` tells the two ways it runs: with verify_each the edit is       *)
(* applied and the function verified after each pass, otherwise once after *)
(* the passes (the build for testing; a release does not verify). The pass *)
(* bounds is skipped unless the program asks for it.                       *)
(***************************************************************************)
EXTENDS PassInline, PassCfg, PassGvn, PassLicm, PassBounds, PassDce, IrEval

CONSTANTS
  Programs,     \* what may be optimised, [funcs, edits, skip, rounds]: edits[f]
                \* is the edit the maker of f left, <<>> for none, skip the
                \* passes skipped ("fold" is a part of gvn), rounds the most
                \* rounds of passes, MaxRounds or fewer
  Fuel          \* blocks a run of the evaluator may enter

MaxRounds == 4      \* MAX_ROUNDS
Pipeline == <<"inline", "cfg", "gvn", "licm", "bounds", "dce">>
Main == 1

\* wakes
Wakes(p) ==
  CASE p = "cfg" -> {"cfg", "gvn", "bounds", "dce"}
    [] p = "gvn" -> {"cfg", "gvn", "dce"}
    [] p = "bounds" -> {"dce"}
    [] OTHER -> {}

VARIABLES
  prog,         \* the program given, with the edits applied
  edits,        \* the edits of the makers not yet taken
  funcs,        \* the functions of the module
  skip, verify, \* the options
  rounds,       \* the most rounds of passes
  at,           \* the place in the order of the function at work
  state,        \* "next", "passes", "refused", "done"
  x,            \* the context of the passes
  edited,       \* the edit has something to apply
  need,         \* the passes to run
  p,            \* the next place in the pipeline
  runs,         \* the passes run on the function
  lib           \* the library of inline
vars == <<prog, edits, funcs, skip, verify, rounds, at, state, x, edited, need, p, runs, lib>>

-----------------------------------------------------------------------------

\* The functions f calls, in the order of the calls.
Callees(M, f) ==
  LET calls == SelectSeq(M[f].insts, LAMBDA in : in.op = "call")
  IN [k \in DOMAIN calls |-> calls[k].imm]

\* callees_first
CalleesFirst(M) ==
  LET to == [f \in DOMAIN M |-> Callees(M, f)]
  IN FoldLeft(LAMBDA w, f : IF f \in w.seen THEN w ELSE PostOrder(to, f, w),
              [seen |-> {}, order |-> <<>>], [f \in DOMAIN M |-> f]).order

Fid == CalleesFirst(prog)[at]
Active == Range(Pipeline) \ skip

\* limba_optimizer_new
Init ==
  /\ \E g \in Programs :
       /\ funcs = g.funcs /\ edits = g.edits /\ skip = g.skip
       /\ rounds = g.rounds
       /\ prog = [f \in DOMAIN g.funcs |->
                    IF g.edits[f] = <<>> THEN g.funcs[f]
                    ELSE Apply(g.funcs[f], g.edits[f][1])]
  /\ verify \in BOOLEAN
  /\ at = 1 /\ state = "next"
  /\ x = Context(funcs[1], NewEdit(funcs[1]))
  /\ edited = FALSE /\ need = {} /\ p = 1 /\ runs = 0
  /\ lib = [body |-> [f \in DOMAIN funcs |-> <<>>], done |-> {}]

\* limba_optimizer_func_edit, up to its loop: what the maker left is applied
\* first to be verified, else with the edits of the passes
Begin ==
  LET f == funcs[Fid]
      made == edits[Fid]
      y == Context(f, IF made = <<>> THEN NewEdit(f) ELSE made[1])
  IN /\ state = "next"
     /\ x' = IF made # <<>> /\ verify THEN Settle(y) ELSE y
     /\ edited' = (made # <<>> /\ ~verify)
     /\ need' = Active /\ p' = 1 /\ runs' = 0
     /\ state' = "passes"
     /\ UNCHANGED <<prog, edits, funcs, skip, verify, rounds, at, lib>>

\* The place k steps on from p, round the pipeline.
Place(k) == ((p - 1 + k) % Len(Pipeline)) + 1

\* The place of the next pass that has work.
Turn == Place(CHOOSE k \in 0..(Len(Pipeline) - 1) :
                /\ Pipeline[Place(k)] \in need
                /\ \A j \in 0..(k - 1) : Pipeline[Place(j)] \notin need)

\* The loop goes on, with pass q.
MoreWork == need # {} /\ runs < rounds * Cardinality(Active)
Turns(q) == state = "passes" /\ MoreWork /\ q = Pipeline[Turn]

\* Pass q has run and gave r: it wakes others, and the edit is applied and
\* the function verified when each pass is.
Ran(q, r) ==
  LET changed == edited \/ r.n # 0
      y == IF verify /\ changed THEN Settle(r.x) ELSE r.x
  IN /\ need' = (need \ {q}) \cup (IF r.n = 0 THEN {} ELSE Wakes(q) \ skip)
     /\ p' = (Turn % Len(Pipeline)) + 1
     /\ runs' = runs + 1
     /\ x' = y /\ edited' = (changed /\ ~verify)
     /\ state' = IF verify /\ ~WellFormedIn(funcs, y.f) THEN "refused" ELSE state
     /\ UNCHANGED <<prog, edits, funcs, skip, verify, rounds, at, lib>>

RunInline == Turns("inline") /\ Ran("inline", Inline(x, lib))
RunCfg == Turns("cfg") /\ Ran("cfg", SimplifyCfg(x))
RunGvn == Turns("gvn") /\ Ran("gvn", Gvn(x, "fold" \notin skip))
RunLicm == Turns("licm") /\ Ran("licm", Licm(x))
RunBounds == Turns("bounds") /\ Ran("bounds", Bounds(x))
RunDce == Turns("dce") /\ Ran("dce", Dce(x))

\* Mutant: the edit is applied only where no work is left.
SettledIfDone == IF edited /\ need = {} THEN Settle(x) ELSE x

\* The passes over, what is left of the edit is applied.
Settled == IF edited THEN Settle(x) ELSE x

\* limba_optimizer_func_edit, after its loop: the function is verified, and
\* kept for inline.
Finish ==
  LET y == Settled
      M == [funcs EXCEPT ![Fid] = y.f]
  IN /\ state = "passes" /\ ~MoreWork
     /\ funcs' = M
     /\ IF WellFormedIn(M, y.f)
        THEN /\ state' = IF at = Len(funcs) THEN "done" ELSE "next"
             /\ lib' = IF "inline" \in skip THEN lib ELSE Record(lib, M, Fid)
        ELSE state' = "refused" /\ UNCHANGED lib
     /\ at' = IF state' = "next" THEN at + 1 ELSE at
     /\ x' = Context(y.f, NewEdit(y.f)) /\ edited' = FALSE
     /\ need' = {} /\ p' = 1 /\ runs' = 0
     /\ UNCHANGED <<prog, edits, skip, verify, rounds>>

Next == Begin \/ RunInline \/ RunCfg \/ RunGvn \/ RunLicm \/ RunBounds \/ RunDce \/ Finish

Spec == Init /\ [][Next]_vars

-----------------------------------------------------------------------------
(* Properties                                                              *)

\* The function at work as it is, what the edit holds applied.
Now == IF state = "passes" THEN Apply(x.f, x.e) ELSE x.f
Whole == IF state = "passes" THEN [funcs EXCEPT ![Fid] = Now] ELSE funcs

\* After each pass the function, its edit applied, is one the verifier takes
\* ("The module is well formed on entry and must be on exit", pass.h), and so
\* is the one left at the end, also where MAX_ROUNDS stops the passes with
\* work left: no function is refused.
WellFormed ==
  /\ state # "refused"
  /\ state = "passes" => WellFormedIn(funcs, Now)

\* Whatever main is given, the module prints, returns and raises what it did
\* when it came (doc/ir.md 17), the passes run so far and the edit included;
\* an access outside every live object stays one.
SameMeaning ==
  state \in {"passes", "done"} =>
    \A n \in {Norm(k, 2) : k \in 0..3} :
      Agree(Meaning(prog, Main, <<1, n>>, Fuel), Meaning(Whole, Main, <<1, n>>, Fuel))

\* A graph that a pass left for the next is the one the function has
\* (cfg_same): edges, dominators and their numbers.
CfgKept == x.have => x.cfg = Cfg(x.f)

\* The blocks a run may come to that never gets to the end of block `but`: at
\* the end of a block it jumps, and before it may go to the handler.
RECURSIVE RunsTo(_, _, _)
RunsTo(f, but, seen) ==
  LET next == seen \cup UNION {Range(Succs(f, b)) : b \in seen \ {but}}
                   \cup ({Handler(f, b) : b \in seen} \ {None})
  IN IF next = seen THEN seen ELSE RunsTo(f, but, next)

\* The dominator tree tells which blocks were run to their end whenever a
\* block is entered, errors caught included: only their values may be used
\* there (cfg.c: an edge to a handler from what leads to its blocks).
DominanceIsOfRuns ==
  x.have =>
    LET f == x.f IN
    \A b \in DOMAIN f.blocks :
      /\ Reachable(x.cfg, b) <=> b \in RunsTo(f, None, {Entry})
      /\ \A d \in DOMAIN f.blocks \ {b} :
           Reachable(x.cfg, b) /\ Reachable(x.cfg, d) =>
             (Dominates(x.cfg, d, b) <=> b \notin RunsTo(f, d, {Entry}))

\* When the passes have ended in a function no value is made that nobody
\* uses ("its own work list leaving nothing dead behind"); stopped between
\* gvn and dce they may leave some.
NothingUnused ==
  state # "passes" /\ "dce" \notin skip /\ rounds = MaxRounds =>
    \A f \in lib.done : LET y == Context(funcs[f], NewEdit(funcs[f])) IN
      Unused(y, {}) = {}

\* The passes on one function as a whole, settling after each or not.
Pass(q, y) ==
  CASE q = "inline" -> Inline(y, lib)
    [] q = "cfg" -> SimplifyCfg(y)
    [] q = "gvn" -> Gvn(y, "fold" \notin skip)
    [] q = "licm" -> Licm(y)
    [] q = "bounds" -> Bounds(y)
    [] q = "dce" -> Dce(y)

\* The loop of the manager: w has the context, the place in the pipeline, the
\* passes to run and the runs left; r is what pass q gave.
After(w, q, r, each) ==
  [x |-> IF each /\ r.n # 0 THEN Settle(r.x) ELSE r.x,
   k |-> w.k, left |-> w.left - 1,
   todo |-> (w.todo \ {q}) \cup (IF r.n = 0 THEN {} ELSE Wakes(q) \ skip)]
Turned(w, each) ==
  LET q == Pipeline[w.k] IN
  IF q \in w.todo THEN {After(w, q, r, each) : r \in {Pass(q, w.x)}} ELSE {w}
RECURSIVE Passes(_, _)
Passes(w, each) ==
  IF w.todo = {} \/ w.left = 0 THEN Apply(w.x.f, w.x.e)
  ELSE CHOOSE g \in {Passes([v EXCEPT !.k = (@ % Len(Pipeline)) + 1], each) :
                       v \in Turned(w, each)} : TRUE

\* The edit of the passes applied after each, or once at the end, gives the
\* same function (limba_optimizer_func_edit: "the same code must come out as
\* with the edit applied once at the end").
SameEitherWay ==
  state = "passes" /\ runs = 0 =>
    LET made == edits[Fid]
        y == Context(funcs[Fid], IF made = <<>> THEN NewEdit(funcs[Fid]) ELSE made[1])
        start(each) == [x |-> IF each THEN Settle(y) ELSE y, k |-> 1,
                        todo |-> Active, left |-> rounds * Cardinality(Active)]
    IN Cardinality({Passes(start(each), each) : each \in BOOLEAN}) = 1
=============================================================================
