------------------------------- MODULE Module -------------------------------
(***************************************************************************)
(* A module of the IR and the calls that build it: src/ir/module.c.        *)
(*                                                                         *)
(* Ids count from 1 and 0 is LIMBA_NONE.  The scalar types are 1 to 11, in *)
(* the order of their kinds, and the types the module makes follow.  What  *)
(* the set "under a handler" needs to be kept is in the fields handled,    *)
(* nhandled and fresh (whether its stamp is the one of the process).  The  *)
(* operands of an instruction keep the numbers of the code, from 0.        *)
(***************************************************************************)
EXTENDS Hash

CONSTANT MaxU32          \* UINT32_MAX
ASSUME ModuleAssumption == MaxU32 \in Nat \ {0}

VOID == 1
I64 == 6
PTR == 9
STR == 10
REF == 11
STRUCT == 12
ARRAY == 13
FUNC == 14
FirstUser == 12                          \* LIMBA_T_FIRST_USER
ScalarSizes == <<0, 1, 1, 2, 4, 8, 4, 8, 8, 8, 8>>
RelocFunc == 1                           \* LIMBA_RELOC_FUNC (GLOBAL, STR: 2, 3)
InitZero == 0
InitData == 4

Ops == <<"param", "iconst", "add", "call", "call.ind", "faddr", "call.rt", "br", "cbr", "ret">>
ParFor == 1                              \* LIMBA_RT_PAR_FOR

NewModule ==
    [name |-> 0, memory |-> 0, ptr_bits |-> 64, handles |-> 8, language |-> 0,
     target |-> 0, strs |-> NoStrings, messages |-> <<>>, excs |-> <<>>,
     types |-> <<>>, typeidx |-> NewHash, symidx |-> NewHash,
     globals |-> <<>>, externs |-> <<>>, funcs |-> <<>>, pos |-> <<>>,
     handled |-> {}, nhandled |-> 0, fresh |-> FALSE]

Touch(m) == [m EXCEPT !.fresh = FALSE]   \* limba_handled_touch

PtrBits(m, bits) ==
    [m EXCEPT !.ptr_bits = bits, !.handles = IF bits \in {32, 64} THEN bits \div 8 ELSE @]

Intern(m, s) == [m EXCEPT !.strs = StrIntern(@, s)]

(* -------------------------------- types --------------------------------- *)

\* mem: the fields of a struct or the parameters of a function, <<type,
\* offset or extension>>
Type(kind, name, elem, count, size, align, variadic, rext, mem) ==
    [kind |-> kind, name |-> name, elem |-> elem, count |-> count, size |-> size,
     align |-> align, variadic |-> variadic, rext |-> rext, mem |-> mem]

NTypes(m) == FirstUser - 1 + Len(m.types)
SizeOf(m, t) == IF t \in {PTR, STR, REF} THEN m.handles
                ELSE IF t < FirstUser THEN ScalarSizes[t] ELSE m.types[t - FirstUser + 1].size
AlignOf(m, t) == IF t >= FirstUser THEN m.types[t - FirstUser + 1].align
                 ELSE IF t = VOID THEN 1 ELSE SizeOf(m, t)

TypeKey(t) ==
    HashOf(IF t.kind = STRUCT THEN <<t.kind, t.name>>
           ELSE <<t.kind, t.variadic, t.rext, t.elem, t.count>>
                \o (IF t.kind = FUNC THEN FlattenSeq(t.mem) ELSE <<>>))
TypeSame(s, t) ==
    IF s.kind # t.kind THEN FALSE
    ELSE IF s.kind = STRUCT THEN s.name = t.name
    ELSE /\ s.variadic = t.variadic /\ s.rext = t.rext
         /\ s.elem = t.elem /\ s.count = t.count
         /\ s.kind = FUNC => s.mem = t.mem
TypeFind(m, t) ==
    Find(m.typeidx, TypeKey(t),
         {FirstUser - 1 + i : i \in {j \in DOMAIN m.types : TypeSame(m.types[j], t)}})
TypeAdded(m, t) ==
    [m EXCEPT !.types = Append(@, t), !.typeidx = Put(@, TypeKey(t), NTypes(m) + 1)]
\* an array or a function type already there is the one asked for; a
\* struct of a name taken is refused
TypeMade(m, t) == IF TypeFind(m, t) # 0 THEN m ELSE TypeAdded(m, t)
ArrayType(m, elem, count) ==
    Type(ARRAY, 0, elem, count,
         IF SizeOf(m, elem) * count > MaxU32 THEN MaxU32 ELSE SizeOf(m, elem) * count,
         IF AlignOf(m, elem) = 0 THEN 1 ELSE AlignOf(m, elem), 0, 0, <<>>)
FuncType(ret, rext, params, variadic) ==
    Type(FUNC, 0, ret, Len(params), 0, 1, variadic, rext, params)
StructType(name, fields, size, align) ==
    Type(STRUCT, name, 0, Len(fields), size, align, 0, 0, fields)

(* ----------------- functions, globals and externs by name --------------- *)

Things(m, kind) == CASE kind = 1 -> m.funcs [] kind = 2 -> m.globals [] kind = 3 -> m.externs
SymFind(m, name, kind) ==
    Find(m.symidx, HashOf(<<name, kind>>),
         {i \in DOMAIN Things(m, kind) : Things(m, kind)[i].name = name})
NameTaken(m, name) == \E kind \in 1 .. 3 : SymFind(m, name, kind) # 0
Named(m, name, kind, id) == [m EXCEPT !.symidx = Put(@, HashOf(<<name, kind>>), id)]

NoData == [bytes |-> <<>>, fills |-> <<>>, relocs |-> <<>>]
Global(name, type, flags) ==
    [name |-> name, type |-> type, flags |-> flags, init |-> InitZero, value |-> 0,
     data |-> NoData]
GlobalAdd(m, name, type, flags) ==
    IF NameTaken(m, name) THEN m
    ELSE Named([m EXCEPT !.globals = Append(@, Global(name, type, flags))],
               name, 2, Len(m.globals) + 1)
\* data_of: g with the data it has, or new ones
WithData(g) == IF g.init = InitData THEN g
               ELSE [g EXCEPT !.init = InitData, !.value = 0, !.data = NoData]
Trimmed(s) == SubSeq(s, 1, SelectLastInSeq(s, LAMBDA b : b # 0))
GlobalSetData(m, g, bytes) ==
    [m EXCEPT !.globals[g] = [WithData(@) EXCEPT !.data = [NoData EXCEPT !.bytes = Trimmed(bytes)]]]
Filled(g, fill) == [WithData(g) EXCEPT !.data.fills = Append(@, fill)]
GlobalAddFill(m, g, fill) == [m EXCEPT !.globals[g] = Filled(@, fill)]
Relocated(g, reloc) == [WithData(g) EXCEPT !.data.relocs = Append(@, reloc)]
WithReloc(m, g, reloc) == [m EXCEPT !.globals[g] = Relocated(@, reloc)]
GlobalAddReloc(m, g, reloc) ==
    IF reloc.kind = RelocFunc THEN Touch(WithReloc(m, g, reloc)) ELSE WithReloc(m, g, reloc)

ExternAdd(m, name, type, symbol, library) ==
    IF NameTaken(m, name) THEN m
    ELSE Named([m EXCEPT !.externs = Append(@, [name |-> name, type |-> type,
                                                symbol |-> symbol, library |-> library])],
               name, 3, Len(m.externs) + 1)

NoSum == [noted |-> FALSE, has_handler |-> FALSE, callees |-> {}, taken |-> {}, sigs |-> {},
          bodies |-> {}]
Func(name, type, flags) ==
    [name |-> name, type |-> type, flags |-> flags, slots |-> <<>>, blocks |-> <<>>,
     insts |-> <<>>, has_locs |-> FALSE, locs |-> <<>>, pos_cur |-> 0, sum |-> NoSum]
FuncAdd(m, name, type, flags) ==
    IF NameTaken(m, name) THEN m
    ELSE Touch(Named([m EXCEPT !.funcs = Append(@, Func(name, type, flags))],
                     name, 1, Len(m.funcs) + 1))

\* the table of names made again, of what is left
PutNames(h, things, kind) ==
    FoldLeft(LAMBDA t, i : Put(t, HashOf(<<things[i].name, kind>>), i),
             h, [i \in DOMAIN things |-> i])
\* Mutant: only the functions.
RenamedFuncs(m) == PutNames(NewHash, m.funcs, 1)

Renamed(m) ==
    PutNames(PutNames(PutNames(NewHash, m.funcs, 1), m.globals, 2), m.externs, 3)

Kept(m, nfuncs, nexterns) ==
    [m EXCEPT !.funcs = SubSeq(@, 1, nfuncs), !.externs = SubSeq(@, 1, nexterns)]
WithNames(m) == [m EXCEPT !.symidx = Renamed(m)]
Truncate(m, nfuncs, nexterns) ==
    IF nfuncs > Len(m.funcs) \/ nexterns > Len(m.externs) THEN m
    ELSE Touch(WithNames(Kept(m, nfuncs, nexterns)))

(* --------------------------- inside a function -------------------------- *)

NoBlock == [insts |-> <<>>, nparams |-> 0, handler |-> 0]
BlockAdd(m, f) == [m EXCEPT !.funcs[f].blocks = Append(@, NoBlock)]

\* Mutant: the set is not told.
SetHandlerQuiet(m, f, b, h) == [m EXCEPT !.funcs[f].blocks[b].handler = h]

SetHandler(m, f, b, h) == Touch([m EXCEPT !.funcs[f].blocks[b].handler = h])

SlotAdd(m, f, slot) == [m EXCEPT !.funcs[f].slots = Append(@, slot)]

\* the positions are kept from the first instruction that has one
WithLoc(fn) ==
    IF fn.has_locs \/ fn.pos_cur # 0
    THEN [fn EXCEPT !.has_locs = TRUE,
                    !.locs = (IF fn.has_locs THEN @ ELSE [i \in DOMAIN fn.insts |-> 0])
                             \o <<fn.pos_cur>>]
    ELSE fn
InBlock(bl, in, id) ==
    [bl EXCEPT !.insts = Append(@, id), !.nparams = IF in.op = "param" THEN @ + 1 ELSE @]
WithInst(fn, b, in) ==
    [fn EXCEPT !.insts = Append(@, in), !.blocks[b] = InBlock(@, in, Len(fn.insts) + 1)]
Inst(op, type, cc, imm, imm2, ops) ==
    [op |-> op, type |-> type, cc |-> cc, imm |-> imm, imm2 |-> imm2, ops |-> ops]
Watched == {"call", "call.ind", "faddr", "call.rt"}
InstAdd(m, f, b, in) ==
    LET n == [m EXCEPT !.funcs[f] = WithInst(WithLoc(@), b, in)]
    IN  IF in.op \in Watched THEN Touch(n) ELSE n
InstPos(fn, i) == IF fn.has_locs THEN fn.locs[i] ELSE 0

PosAdd(m, p) ==
    IF m.pos # <<>> /\ Last(m.pos) = p THEN m ELSE [m EXCEPT !.pos = Append(@, p)]

=============================================================================
