------------------------------ MODULE Building ------------------------------
(***************************************************************************)
(* A front end that builds a module call by call (src/ir/module.c) and may *)
(* ask at any time which functions are under a handler (src/ir/handled.c). *)
(*                                                                         *)
(* A family is what one front end does from the module Starts has for it:  *)
(* the calls it may make, how many, and the arguments it gives.            *)
(***************************************************************************)
EXTENDS Handled

CONSTANTS Families, Starts

(* The tables of a module: each string, type and name stands for one thing *)
(* and its table has one entry for it.                                     *)

Sequence(s) == s \in Seq(ToSet(s))
Distinct(s) == \A i, j \in DOMAIN s : s[i] = s[j] => i = j
StringsIndexed(text, idx) ==
    /\ Sequence(text) /\ Distinct(text)
    /\ TableOf(idx, {[key |-> HashOf(text[i]), id |-> i] : i \in DOMAIN text})
TypesIndexed(types, idx) ==
    /\ Sequence(types)
    /\ \A i, j \in DOMAIN types : TypeSame(types[i], types[j]) => i = j
    /\ TableOf(idx, {[key |-> TypeKey(types[i]), id |-> FirstUser - 1 + i] :
                       i \in DOMAIN types})
\* t: the functions, the globals and the externs
ThingsOf(mo) == <<mo.funcs, mo.globals, mo.externs>>
Apart(t) ==
    \A j, k \in 1 .. 3 : \A x \in DOMAIN t[j], y \in DOMAIN t[k] :
        t[j][x].name = t[k][y].name => j = k /\ x = y
SymOf(things, kind) ==
    {[key |-> HashOf(<<things[i].name, kind>>), id |-> i] : i \in DOMAIN things}
NamesIndexed(idx, t) ==
    /\ \A k \in 1 .. 3 : Sequence(t[k]) /\ \A i \in DOMAIN t[k] : "name" \in DOMAIN t[k][i]
    /\ Apart(t)
    /\ TableOf(idx, UNION {SymOf(t[k], k) : k \in 1 .. 3})

TableFields == {"strs", "types", "typeidx", "symidx", "funcs", "globals", "externs"}
Indexed(mo) ==
    /\ TableFields \subseteq DOMAIN mo
    /\ StringsIndexed(mo.strs.text, mo.strs.index)
    /\ TypesIndexed(mo.types, mo.typeidx)
    /\ NamesIndexed(mo.symidx, ThingsOf(mo))

(* What the functions and the globals of a module are.                     *)

\* a block has instructions of its function
WellMade(fn) ==
    /\ {"type", "blocks", "insts", "sum"} \subseteq DOMAIN fn
    /\ Sequence(fn.blocks) /\ Sequence(fn.insts)
    /\ \A b \in DOMAIN fn.blocks :
           /\ {"insts", "handler"} \subseteq DOMAIN fn.blocks[b]
           /\ Sequence(fn.blocks[b].insts)
           /\ ToSet(fn.blocks[b].insts) \subseteq DOMAIN fn.insts
    /\ \A i \in DOMAIN fn.insts : IsParFor(fn.insts[i]) => fn.insts[i].ops[1] \in Nat
\* only data has relocations
GlobalMade(g) ==
    /\ {"init", "data"} \subseteq DOMAIN g /\ "relocs" \in DOMAIN g.data
    /\ Sequence(g.data.relocs)
    /\ g.init # InitData => FuncRelocs(g) = {}
Usable(mo) ==
    /\ {"types", "funcs", "globals", "handled", "nhandled", "fresh"} \subseteq DOMAIN mo
    /\ Sequence(mo.types) /\ Sequence(mo.funcs) /\ Sequence(mo.globals)
    /\ \A f \in DOMAIN mo.funcs :
           WellMade(mo.funcs[f]) /\ mo.funcs[f].type \in FirstUser .. NTypes(mo)
    /\ \A g \in DOMAIN mo.globals : GlobalMade(mo.globals[g])
\* no body was freed and no one has asked
Unasked(mo) == ~mo.fresh /\ \A f \in DOMAIN mo.funcs : ~mo.funcs[f].sum.noted

\* a front end starts from a module that calls have made, and the body of a
\* par_for is an operand
ASSUME StartsAssumption ==
    \A f \in DOMAIN Families : Indexed(Starts[f]) /\ Usable(Starts[f]) /\ Unasked(Starts[f])
ASSUME InstsAssumption ==
    \A f \in DOMAIN Families : \A in \in Families[f].insts : IsParFor(in) => in.ops[1] \in Nat

VARIABLES
    m,        \* the module
    fam,      \* the family
    left,     \* calls it may still make
    kept,     \* the body of each function cleared, as it was then
    dropped   \* whether a use of a function has gone and no one was told:
              \* a relocation by set_data, or a body freed by a block put in it

bvars == <<m, fam, left, kept, dropped>>
F == Families[fam]

BInit ==
    /\ fam \in DOMAIN Families
    /\ m = Starts[fam]
    /\ left = F.calls
    /\ kept = <<>>
    /\ dropped = FALSE

Call(name) == name \in F.does /\ left > 0 /\ left' = left - 1 /\ UNCHANGED fam
Quiet == UNCHANGED <<kept, dropped>>

Functions == DOMAIN m.funcs
Blocks(f) == DOMAIN m.funcs[f].blocks
Globals == DOMAIN m.globals

\* strings and types; a struct whose name is taken is refused
InternString == Call("string") /\ Quiet /\ \E s \in F.texts : m' = Intern(m, s)
AddType == Call("type") /\ Quiet /\ \E t \in F.types : m' = TypeMade(m, t)
AddArray ==
    /\ Call("array")
    /\ \E elem \in F.elems \cup FirstUser .. NTypes(m), n \in F.counts :
           m' = TypeMade(m, ArrayType(m, elem, n))
    /\ Quiet

\* functions, globals and externs: one name space
AddFunc ==
    /\ Call("func")
    /\ \E n \in F.names, t \in F.sigs \cap FirstUser .. NTypes(m) : m' = FuncAdd(m, n, t, 0)
    /\ Quiet
AddGlobal == Call("global") /\ Quiet /\ \E n \in F.names : m' = GlobalAdd(m, n, I64, 1)
AddExtern == Call("extern") /\ Quiet /\ \E n \in F.names, t \in F.sigs : m' = ExternAdd(m, n, t, 1, 0)
TruncateModule ==
    /\ Call("truncate")
    /\ \E nf \in 0 .. Len(m.funcs), ne \in 0 .. Len(m.externs) :
           /\ m' = Truncate(m, nf, ne)
           /\ kept' = Restrict(kept, DOMAIN kept \cap 1 .. nf)
    /\ UNCHANGED dropped

\* the data of a global
SetData ==
    /\ Call("data")
    /\ \E g \in Globals, bytes \in F.texts :
           /\ m' = GlobalSetData(m, g, bytes)
           /\ dropped' = (dropped \/ FuncRelocs(m.globals[g]) # {})
    /\ UNCHANGED kept
AddFill == Call("fill") /\ Quiet /\ \E g \in Globals, x \in F.fills : m' = GlobalAddFill(m, g, x)
AddReloc == Call("reloc") /\ Quiet /\ \E g \in Globals, r \in F.relocs : m' = GlobalAddReloc(m, g, r)

\* inside a function
\* in a body that was freed, a block begins another
AddBlock ==
    /\ Call("block")
    /\ \E f \in Functions :
           /\ m' = BlockAdd(m, f)
           /\ dropped' = (dropped \/ (Blocks(f) = {} /\ f \in DOMAIN kept))
    /\ UNCHANGED kept
GiveHandler ==
    /\ Call("handler")
    /\ \E f \in Functions : \E b \in Blocks(f) \ {1} :
           \E h \in (Blocks(f) \cup {0}) \ {1, b} : m' = SetHandler(m, f, b, h)
    /\ Quiet
AddInst ==
    /\ Call("inst")
    /\ \E f \in Functions : \E b \in Blocks(f) \cap F.on[f], in \in F.insts : m' = InstAdd(m, f, b, in)
    /\ Quiet
AddSlot == Call("slot") /\ Quiet /\ \E f \in Functions : m' = SlotAdd(m, f, <<4, 4, 0>>)
\* the position of the instructions that follow, in the table if it is new
SetPos ==
    /\ Call("pos")
    /\ \E f \in Functions, p \in F.places :
           m' = [PosAdd(m, p) EXCEPT !.funcs[f].pos_cur = Len(PosAdd(m, p).pos)]
    /\ Quiet
ClearFunc ==
    /\ Call("clear")
    /\ \E f \in Functions :
           /\ m' = FuncClear(m, f)
           /\ kept' = IF Blocks(f) = {} THEN kept
                      ELSE [g \in DOMAIN kept \cup {f} |-> IF g = f THEN m.funcs[f] ELSE kept[g]]
    /\ UNCHANGED dropped

AskHandled == "ask" \in F.does /\ m' = Asked(m) /\ UNCHANGED <<fam, left, kept, dropped>>

BNext ==
    \/ InternString \/ AddType \/ AddArray
    \/ AddFunc \/ AddGlobal \/ AddExtern \/ TruncateModule
    \/ SetData \/ AddFill \/ AddReloc
    \/ AddBlock \/ GiveHandler \/ AddInst \/ AddSlot \/ SetPos \/ ClearFunc
    \/ AskHandled
BSpec == BInit /\ [][BNext]_bvars

(* ------------------------------ definitions ----------------------------- *)

\* the module with the bodies that were freed
WholeFunc(i) ==
    IF Blocks(i) = {} /\ i \in DOMAIN kept THEN [kept[i] EXCEPT !.pos_cur = 0, !.sum = NoSum]
    ELSE [m.funcs[i] EXCEPT !.pos_cur = 0, !.sum = NoSum]
Whole == [m EXCEPT !.funcs = [i \in DOMAIN @ |-> WholeFunc(i)]]

\* ins: the instructions of each function; taken: whose address is taken
Does(ins, f, op, imm) == \E in \in ins[f] : in.op = op /\ in.imm = imm
AddressTaken(w, ins, g) ==
    \/ \E f \in DOMAIN ins : Does(ins, f, "faddr", g)
    \/ \E d \in DOMAIN w.globals : g \in FuncRelocs(w.globals[d])
BodyGiven(w, ins, taken, g) ==
    \E f \in DOMAIN ins : \E in \in ins[f] :
        /\ IsParFor(in)
        /\ \/ BodyOf(w.funcs[f], in) = g
           \/ BodyOf(w.funcs[f], in) = 0 /\ g \in taken /\ BodyType(w, w.funcs[g].type)
MayCall(w, ins, taken, f, g) ==
    \/ Does(ins, f, "call", g)
    \/ Does(ins, f, "call.ind", w.funcs[g].type) /\ g \in taken
Protects(f) == \E b \in DOMAIN f.blocks : f.blocks[b].handler # 0

\* the least set that holds the roots and what its functions may call
Least(roots, calls) ==
    {g \in DOMAIN calls :
        \A S \in SUBSET DOMAIN calls :
            roots \subseteq S /\ (\A f \in S : calls[f] \subseteq S) => g \in S}
UnderOf(w, ins, taken) ==
    Least({g \in DOMAIN ins : Protects(w.funcs[g]) \/ BodyGiven(w, ins, taken, g)},
          Once([f \in DOMAIN ins |-> {g \in DOMAIN ins : MayCall(w, ins, taken, f, g)}]))
UnderIn(w, ins) == UnderOf(w, ins, {g \in DOMAIN ins : AddressTaken(w, ins, g)})
UnderHandler(w) == UnderIn(w, Once([f \in DOMAIN w.funcs |-> Insts(w.funcs[f])]))

(* ------------------------------ properties ------------------------------ *)

\* Asked at any time, after any calls and with any bodies freed, the answer
\* of limba_module_handled is the set of the whole module: no function an
\* exception may cross is missing, and none is there for nothing.  Only a
\* relocation that limba_global_set_data drops, or a body that was freed and
\* is begun again, may leave one in.
HandledRight ==
    /\ UnderHandler(Whole) \subseteq Asked(m).handled
    /\ ~dropped => Asked(m).handled \subseteq UnderHandler(Whole)

\* Each name, string and type stands for one thing, and a search finds it,
\* through the growth of the tables and the truncation of the module; a
\* name that is no one's is not found.
NamesOf(things) == [i \in DOMAIN things |-> things[i].name]
Finds(mo, things, kind) == \A i \in DOMAIN things : SymFind(mo, things[i].name, kind) = i
SymbolsFound(mo) ==
    /\ Finds(mo, mo.funcs, 1) /\ Finds(mo, mo.globals, 2) /\ Finds(mo, mo.externs, 3)
    /\ Distinct(NamesOf(mo.funcs) \o NamesOf(mo.globals) \o NamesOf(mo.externs))
TypesFound(mo) ==
    \A i \in DOMAIN mo.types : TypeFind(mo, mo.types[i]) = FirstUser - 1 + i
StringsFound(mo) ==
    \A i \in DOMAIN mo.strs.text : StrFind(mo.strs, mo.strs.text[i]) = i
NotFound(mo, names) ==
    \A n \in names : \A kind \in 1 .. 3 :
        SymFind(mo, n, kind) # 0 =>
            n \in ToSet(NamesOf(mo.funcs) \o NamesOf(mo.globals) \o NamesOf(mo.externs))
OneThing ==
    SymbolsFound(m) /\ TypesFound(m) /\ StringsFound(m) /\ NotFound(m, F.names)

=============================================================================
