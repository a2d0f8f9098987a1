------------------------------- MODULE MCForms ------------------------------
(***************************************************************************)
(* Forms on small modules.  Bytes have 3 bits of a number and one that     *)
(* says that more follow, numbers 10 bits (8 for an id), the tables 4      *)
(* places at first, and few hashes, so that keys collide and tables grow.  *)
(***************************************************************************)
EXTENDS Forms

\* names of one kind collide; of two kinds they do not, since sym_same would
\* look for an id of one kind among the things of another
MCHashOf(s) == IF Len(s) = 2 THEN 3 * (s[1] % 2) + s[2]
               ELSE FoldLeft(LAMBDA h, v : (3 * h + v) % 5, 2, s)

Fn(ret, params) == FuncType(ret, 0, params, 0)
Body2 == Fn(VOID, <<<<PTR, 0>>, <<I64, 0>>>>)       \* the type of a body of par_for
Rec(name, size) == StructType(name, <<<<REF, 0>>, <<I64, 8>>>>, size, 8)
T1 == FirstUser
T2 == FirstUser + 1

(* the calls, applied one after the other, make the modules to start from *)
Strings(m0, texts) == FoldLeft(Intern, m0, texts)
Types(m0, types) == FoldLeft(TypeMade, m0, types)
Funcs(m0, types) == FoldLeft(LAMBDA q, i : FuncAdd(q, i, types[i], 0), m0, [i \in DOMAIN types |-> i])
BlocksTo(m0, f, n) == FoldLeft(LAMBDA q, i : BlockAdd(q, f), m0, [i \in 1 .. n |-> i])
Gives(m0, f, b, ins) == FoldLeft(LAMBDA q, in : InstAdd(q, f, b, in), m0, ins)

CallTo(f) == Inst("call", VOID, 0, f, 0, <<>>)
CallType(t) == Inst("call.ind", VOID, 0, t, 0, <<>>)
Address(f) == Inst("faddr", PTR, 0, f, 0, <<>>)
ParallelOf(v) == Inst("call.rt", VOID, 0, ParFor, 0, <<v, v>>)
Const(n) == Inst("iconst", I64, 0, n, 0, <<>>)
Add(x, y) == Inst("add", I64, 0, 0, 0, <<x, y>>)
Branch(b, args) == Inst("br", VOID, 0, 0, 0, <<b, Len(args)>> \o args)
Return == Inst("ret", VOID, 0, 0, 0, <<>>)

Nobody == [calls |-> 0, does |-> {}, names |-> {}, texts |-> {},
           types |-> {}, sigs |-> {}, counts |-> {}, fills |-> {}, relocs |-> {},
           insts |-> {}, on |-> [f \in 1 .. 4 |-> {1}], elems |-> {}, places |-> {}, writes |-> FALSE, damages |-> {}, bytes |-> {}]

Texts == <<<<3>>, <<>>, <<4, 1>>, <<7>>, <<0>>>>
WithTexts == Strings(NewModule, Texts)

\* names and types, through growth and truncation
SymbolsFamily ==
    [Nobody EXCEPT !.calls = 5,
        !.does = {"func", "global", "extern", "truncate", "ask"}, !.names = {1, 2, 3, 4},
        !.sigs = {T1}]
TypesFamily ==
    [Nobody EXCEPT !.calls = 3, !.does = {"type", "array", "string"},
        !.texts = {<<3>>, <<5>>, <<0, 5>>}, !.counts = {2, 40}, !.elems = {STR},
        !.types = {Fn(VOID, <<>>), Body2, FuncType(I64, 1, <<<<I64, 1>>>>, 1), Rec(1, 16), Rec(1, 24)},
        !.writes = TRUE]

\* functions that call each other
Graph(types) == BlocksTo(BlocksTo(BlocksTo(Funcs(Types(WithTexts, <<Fn(VOID, <<>>), Body2>>), types),
                                           1, 3), 2, 1), 3, 1)
CallsFamily ==
    [Nobody EXCEPT !.calls = 4,
        !.does = {"inst", "handler", "clear", "block", "func", "truncate", "ask"}, !.names = {4}, !.sigs = {T1},
        !.insts = {CallTo(2), CallTo(3)}]
WithHandler == SetHandler(Graph(<<T1, T2, T1>>), 1, 2, 3)
AddressFamily ==
    [Nobody EXCEPT !.calls = 4, !.does = {"inst", "clear", "data", "reloc", "ask"}, !.texts = {<<1>>},
        !.insts = {Address(2), CallType(T2), ParallelOf(0)},
        !.relocs = {[offset |-> 0, kind |-> RelocFunc, id |-> 3, addend |-> 0],
                    [offset |-> 8, kind |-> RelocFunc + 1, id |-> 1, addend |-> 0]}]

(* functions given to the writer one at a time; the instructions of the    *)
(* first are made in another order than the one they are written in        *)
Param(type) == Inst("param", type, 0, 0, 0, <<>>)
TwoFuncs == BlocksTo(BlocksTo(Funcs(Types(WithTexts, <<Fn(VOID, <<>>)>>), <<T1, T1>>), 1, 3), 2, 1)
OutOfOrder ==
    Gives(Gives(Gives(TwoFuncs, 1, 2, <<Param(I64), Const(-9)>>), 1, 1, <<Const(130), Branch(1, <<2>>)>>),
          2, 1, <<Const(3)>>)
StreamFamily ==
    [Nobody EXCEPT !.calls = 3, !.does = {"inst", "pos", "clear", "slot", "block"},
        !.insts = {Add(0, 2), CallTo(2)}, !.on = [f \in 1 .. 4 |-> IF f = 1 THEN {1, 3} ELSE {}],
        !.places = {<<1, 4, 1>>, <<2, 9, 20>>}, !.writes = TRUE]

\* globals and their data
DataFamily ==
    [Nobody EXCEPT !.calls = 4, !.does = {"data", "fill", "reloc"}, !.texts = {<<0>>, <<2, 0, 1, 0>>},
        !.fills = {[offset |-> 20, count |-> 3, bytes |-> <<0, 7>>]},
        !.relocs = {[offset |-> 8, kind |-> RelocFunc, id |-> 1, addend |-> -2]}, !.writes = TRUE]

(* a module with one of everything, and its file damaged in every way      *)
Everything ==
    LET a == [Types(WithTexts, <<Fn(VOID, <<>>), Rec(3, 16)>>) EXCEPT
                  !.name = 1, !.language = 2, !.messages = <<<<-3, 1>>>>, !.excs = <<<<20, 3, 4>>>>]
        b == TypeMade(a, ArrayType(a, T2, 3))
        c == GlobalAdd(GlobalAdd(b, 1, I64, 1), 3, T2, 0)
        d == GlobalSetData([c EXCEPT !.globals[1].init = 1, !.globals[1].value = 77], 2, <<0, 6, 0>>)
        e == GlobalAddFill(d, 2, [offset |-> 4, count |-> 2, bytes |-> <<1>>])
        f == GlobalAddReloc(e, 2, [offset |-> 8, kind |-> RelocFunc, id |-> 1, addend |-> 0])
        g == FuncAdd(ExternAdd(f, 2, T1, 3, 1), 4, T1, 0)
    IN  SetHandler(Gives(BlocksTo([PosAdd(g, <<1, 9, 2>>) EXCEPT !.funcs[1].pos_cur = 1], 1, 3),
                         1, 1, <<Const(5), Branch(2, <<0>>)>>), 1, 2, 3)
DamageFamily ==
    [Nobody EXCEPT !.writes = TRUE,
        !.damages = {"cut", "longer", "changed"}, !.bytes = 0 .. 15]

MCFamilies ==
    <<SymbolsFamily, TypesFamily, CallsFamily, AddressFamily, StreamFamily, DataFamily,
      DamageFamily>>
MCStarts ==
    <<Types(WithTexts, <<Fn(VOID, <<>>)>>),
      PtrBits(WithTexts, 32),
      Graph(<<T1, T1, T1>>),
      GlobalAdd(WithHandler, 5, I64, 1),
      OutOfOrder,
      GlobalAdd(GlobalAdd(TwoFuncs, 3, I64, 1), 4, I64, 0),
      Everything>>

=============================================================================
