------------------------------- MODULE Binary -------------------------------
(***************************************************************************)
(* The binary form of a module: src/ir/binary.c.  A file is a sequence of  *)
(* bytes; its magic, version and fingerprints are one byte, Header.  The   *)
(* writer takes the functions one at a time and may find their bodies      *)
(* freed at the end; the reader takes nothing on trust: each count is      *)
(* checked against the bytes left, each id it follows is checked.          *)
(*                                                                         *)
(* A number is "num" (unsigned), "id" (an id, from 0 in the file and from  *)
(* 1 here), "opt" (an id or none), "byte" or "sleb".                       *)
(***************************************************************************)
EXTENDS Handled, Leb128

Header == 9

(* ------------------------------- writing -------------------------------- *)

PutNum(kind, v) == CASE kind = "byte" -> <<v>>
                     [] kind = "sleb" -> PutSleb(v)
                     [] kind = "id" -> PutUleb(v - 1)
                     [] OTHER -> PutUleb(v)
WFields(kinds, vals) == FlattenSeq([i \in DOMAIN kinds |-> PutNum(kinds[i], vals[i])])
WList(s, Row(_)) == PutUleb(Len(s)) \o FlattenSeq([i \in DOMAIN s |-> Row(s[i])])
WBytes(s) == PutUleb(Len(s)) \o s

OpId(op) == CHOOSE i \in DOMAIN Ops : Ops[i] = op
\* limba_operand_kinds: which operands are values, and not a block of a
\* target or the number of its arguments
IsValue(in, k) ==
    CASE in.op = "br" -> k > 2
      [] in.op = "cbr" -> k = 1 \/ (k > 3 /\ k < 4 + in.ops[3]) \/ k > 5 + in.ops[3]
      [] OTHER -> TRUE

\* the instructions of f in the order they are written
CanonicalOrder(f) == FlattenSeq([b \in DOMAIN f.blocks |-> f.blocks[b].insts])
\* the operands with each value renumbered by its place, from 0
Operands(order, in) ==
    [k \in DOMAIN in.ops |-> IF IsValue(in, k)
                             THEN (CHOOSE i \in DOMAIN order : order[i] = in.ops[k] + 1) - 1
                             ELSE in.ops[k]]
WInst(order, in) ==
    WFields(<<"id", "id", "byte", "sleb", "sleb">>,
            <<OpId(in.op), in.type, in.cc, in.imm, in.imm2>>)
    \o WList(Operands(order, in), LAMBDA o : PutUleb(o))
WBlock(f, order, bl) ==
    PutUleb(bl.handler)
    \o WList(SubSeq(bl.insts, 1, bl.nparams), LAMBDA i : PutNum("id", f.insts[i].type))
    \o WList(SubSeq(bl.insts, bl.nparams + 1, Len(bl.insts)),
             LAMBDA i : WInst(order, f.insts[i]))
WFunc(f) ==
    WFields(<<"id", "id", "num">>, <<f.name, f.type, f.flags>>)
    \o WList(f.slots, LAMBDA s : WFields(<<"num", "num", "opt">>, s))
    \o WList(f.blocks, LAMBDA bl : WBlock(f, CanonicalOrder(f), bl))

\* Mutant: the positions in the order the instructions were made.
WLocsMade(f) ==
    IF f.has_locs THEN <<1>> \o FlattenSeq([k \in DOMAIN f.locs |-> PutUleb(f.locs[k])])
    ELSE <<0>>

WLocs(f) ==
    IF f.has_locs
    THEN <<1>> \o FlattenSeq([k \in DOMAIN CanonicalOrder(f) |->
                                  PutUleb(InstPos(f, CanonicalOrder(f)[k]))])
    ELSE <<0>>

WType(t) ==
    <<t.kind>> \o
    CASE t.kind = STRUCT -> WFields(<<"id", "num", "num">>, <<t.name, t.size, t.align>>)
                            \o WList(t.mem, LAMBDA f : WFields(<<"id", "num">>, f))
      [] t.kind = ARRAY -> WFields(<<"id", "num">>, <<t.elem, t.count>>)
      [] t.kind = FUNC -> WFields(<<"byte", "id", "byte">>, <<t.variadic, t.elem, t.rext>>)
                          \o WList(t.mem, LAMBDA p : WFields(<<"id", "byte">>, p))
WGlobal(g) ==
    WFields(<<"id", "id", "num", "byte", "sleb">>,
            <<g.name, g.type, g.flags, g.init, IF g.init = InitData THEN 0 ELSE g.value>>)
    \o IF g.init # InitData THEN <<>>
       ELSE WBytes(g.data.bytes)
            \o WList(g.data.fills,
                     LAMBDA f : WFields(<<"num", "num">>, <<f.offset, f.count>>)
                                \o WBytes(f.bytes))
            \o WList(g.data.relocs,
                     LAMBDA r : WFields(<<"num", "byte", "id", "sleb">>,
                                        <<r.offset, r.kind, r.id, r.addend>>))

\* limba_writer_func: what is kept of function f
Given(f) == [body |-> WFunc(f), locs |-> WLocs(f)]

\* limba_writer_end: done, the functions given, by id
WriterEnd(m, done) ==
    <<Header>> \o WFields(<<"num", "num", "opt">>, <<m.memory, m.ptr_bits, m.name>>)
    \o WList(m.strs.text, WBytes)
    \o PutNum("opt", m.language)
    \o WList(m.messages, LAMBDA t : WFields(<<"sleb", "id">>, t))
    \o WList(m.excs, LAMBDA e : WFields(<<"sleb", "id", "sleb">>, e))
    \o PutNum("opt", m.target)
    \o WList(m.types, WType)
    \o WList(m.globals, WGlobal)
    \o WList(m.externs, LAMBDA e : WFields(<<"id", "id", "id", "opt">>,
                                           <<e.name, e.type, e.symbol, e.library>>))
    \o PutUleb(Len(m.funcs))
    \o FlattenSeq([i \in DOMAIN m.funcs |->
                       IF i \in DOMAIN done THEN done[i].body ELSE WFunc(m.funcs[i])])
    \o WList(m.pos, LAMBDA p : WFields(<<"id", "num", "num">>, p))
    \o FlattenSeq([i \in DOMAIN m.funcs |->
                       IF i \in DOMAIN done THEN done[i].locs ELSE WLocs(m.funcs[i])])

(* ------------------------------- reading -------------------------------- *)

\* A reader: the module so far, what is left of the bytes, whether the file
\* was refused; got and rows are the numbers and the rows read last
NewReader(bytes) == [m |-> NewModule, r |-> Reader(bytes), no |-> FALSE, got |-> <<>>, rows |-> <<>>]
Stop(x) == x.no \/ x.r.bad
Refuse(x) == [x EXCEPT !.no = TRUE]
Spoil(x) == [x EXCEPT !.r.bad = TRUE]
With(x, m) == [x EXCEPT !.m = m]

\* r_id and r_opt: 32 bits
RId(n) == IF n.v > MaxU32 THEN Bad(n.r) ELSE n
Took(x, n, add) == [x EXCEPT !.r = n.r, !.got = Append(@, n.v + add)]
Field(x, kind) == CASE kind = "byte" -> Took(x, RByte(x.r), 0)
                    [] kind = "sleb" -> Took(x, RSleb(x.r), 0)
                    [] kind = "id" -> Took(x, RId(RUleb(x.r)), 1)
                    [] OTHER -> Took(x, RId(RUleb(x.r)), 0)
MoreFields(x, kinds) == FoldLeft(Field, x, kinds)
Fields(x, kinds) == MoreFields([x EXCEPT !.got = <<>>], kinds)

\* n things, each of minBytes bytes or more
Times(x, n, Item(_, _)) ==
    FoldLeft(LAMBDA y, i : IF Stop(y) THEN y ELSE Item(y, i),
             [x EXCEPT !.r = n.r], [i \in 1 .. n.v |-> i])
List(x, minBytes, Item(_, _)) == Times(x, RCount(x.r, minBytes), Item)
RowDone(got, y) ==
    [y EXCEPT !.got = got, !.rows = Append(@, SubSeq(y.got, Len(got) + 1, Len(y.got)))]
Rows(x, minBytes, kinds) ==
    List([x EXCEPT !.rows = <<>>], minBytes,
         LAMBDA y, i : RowDone(y.got, MoreFields(y, kinds)))
StringOf(r, n) == RBytes(n.r, n.v)
RString(r) == StringOf(r, RCount(r, 1))

StringIn(x, i, s) ==
    IF s.r.bad THEN [x EXCEPT !.r = s.r]
    ELSE IF StrFind(StrIntern(x.m.strs, s.v), s.v) # i THEN Refuse(x)   \* written twice
    ELSE [x EXCEPT !.r = s.r, !.m = Intern(@, s.v)]
ReadString(x, i) == StringIn(x, i, RString(x.r))
MessageIn(y) == IF y.r.bad THEN y ELSE With(y, [y.m EXCEPT !.messages = Append(@, y.got)])
ReadMessage(x, i) == MessageIn(Fields(x, <<"sleb", "id">>))
Is32(v) == v \in -(MaxU32 + 1) \div 2 .. MaxU32 \div 2
ExcIn(y) == IF y.r.bad THEN y
            ELSE IF Is32(y.got[1]) /\ Is32(y.got[3])
            THEN With(y, [y.m EXCEPT !.excs = Append(@, y.got)])
            ELSE Spoil(y)
ReadExc(x, i) == ExcIn(Fields(x, <<"sleb", "id", "sleb">>))

\* each type is new: else it is malformed or a duplicate
TypeIn(y, ok, t) ==
    IF y.r.bad THEN y
    ELSE IF ~ok \/ TypeFind(y.m, t) # 0 THEN Refuse(y)
    ELSE With(y, TypeAdded(y.m, t))
StructIn(y) == TypeIn(y, TRUE, StructType(y.got[2], y.rows, y.got[3], y.got[4]))
ArrayIn(y) ==
    IF y.got[2] > NTypes(y.m) THEN (IF y.r.bad THEN y ELSE Refuse(y))
    ELSE TypeIn(y, TRUE, ArrayType(y.m, y.got[2], y.got[3]))
FuncIn(y) == TypeIn(y, y.got[2] <= 1, FuncType(y.got[3], y.got[4], y.rows, y.got[2]))
TypeOf(y) ==
    CASE y.got[1] = STRUCT -> StructIn(Rows(MoreFields(y, <<"id", "num", "num">>), 2, <<"id", "num">>))
      [] y.got[1] = ARRAY -> ArrayIn(MoreFields(y, <<"id", "num">>))
      [] y.got[1] = FUNC -> FuncIn(Rows(MoreFields(y, <<"byte", "id", "byte">>), 2, <<"id", "byte">>))
      [] OTHER -> IF y.r.bad THEN y ELSE Refuse(y)
ReadType(x, i) == TypeOf(Fields(x, <<"byte">>))

FillIn(y, s, g) ==
    IF s.r.bad THEN Spoil(y)
    ELSE With([y EXCEPT !.r = s.r],
              GlobalAddFill(y.m, g, [offset |-> y.got[1], count |-> y.got[2], bytes |-> s.v]))
ReadFill(y, g) == FillIn(y, RString(y.r), g)
RelocIn(y, g) ==
    IF y.r.bad THEN y
    ELSE With(y, GlobalAddReloc(y.m, g, [offset |-> y.got[1], kind |-> y.got[2],
                                         id |-> y.got[3], addend |-> y.got[4]]))
DataIn(y, s, value, g) ==
    IF s.r.bad \/ value # 0 THEN Spoil(y)
    ELSE List(List(With([y EXCEPT !.r = s.r], GlobalSetData(y.m, g, s.v)),
                   3, LAMBDA z, k : ReadFill(Fields(z, <<"num", "num">>), g)),
              4, LAMBDA z, k : RelocIn(Fields(z, <<"num", "byte", "id", "sleb">>), g))
ValueIn(y, g) ==
    IF y.got[4] # InitData
    THEN With(y, [y.m EXCEPT !.globals[g].init = y.got[4], !.globals[g].value = y.got[5]])
    ELSE DataIn(y, RString(y.r), y.got[5], g)
GlobalIn(y, g) ==
    IF y.r.bad THEN y
    ELSE IF NameTaken(y.m, y.got[1]) THEN Refuse(y)
    ELSE ValueIn(With(y, GlobalAdd(y.m, y.got[1], y.got[2], y.got[3])), g)
ReadGlobal(x, i) == GlobalIn(Fields(x, <<"id", "id", "num", "byte", "sleb">>), i)

ExternIn(y) == IF y.r.bad THEN y
               ELSE IF NameTaken(y.m, y.got[1]) THEN Refuse(y)
               ELSE With(y, ExternAdd(y.m, y.got[1], y.got[2], y.got[3], y.got[4]))
ReadExtern(x, i) == ExternIn(Fields(x, <<"id", "id", "id", "opt">>))

(* -------------------------------- r_func -------------------------------- *)

SlotIn(y, f) == With(y, SlotAdd(y.m, f, y.got))
ReadSlot(x, f) == SlotIn(Fields(x, <<"num", "num", "opt">>), f)
ParamIn(y, f, b) == With(y, InstAdd(y.m, f, b, Inst("param", y.got[1], 0, 0, 0, <<>>)))
ReadParam(x, f, b) == ParamIn(Fields(x, <<"id">>), f, b)
InstOf(y, f, b) ==
    IF y.r.bad THEN y
    ELSE With(y, InstAdd(y.m, f, b, Inst(Ops[y.got[1]], y.got[2], y.got[3], y.got[4], y.got[5],
                                         FlattenSeq(y.rows))))
\* the count of the operands, the operation, then the operands
OpIn(y, n, f, b) ==
    IF n.r.bad THEN Spoil(y)
    ELSE IF y.got[1] \notin 2 .. Len(Ops) THEN Refuse(y)         \* 1: param
    ELSE InstOf(Rows(y, 1, <<"num">>), f, b)
CountedInst(y, f, b) == OpIn(y, RCount(y.r, 1), f, b)
ReadInst(x, f, b) == CountedInst(Fields(x, <<"id", "id", "byte", "sleb", "sleb">>), f, b)
HandlerIn(y, f, b) == With(y, [y.m EXCEPT !.funcs[f].blocks[b].handler = y.got[1]])
ReadBlock(x, f, b) ==
    List(List(HandlerIn(Fields(x, <<"num">>), f, b), 1, LAMBDA p, k : ReadParam(p, f, b)),
         6, LAMBDA p, k : ReadInst(p, f, b))
ReadBlocks(x, n, f) ==
    Times(Times(x, n, LAMBDA y, b : With(y, BlockAdd(y.m, f))), n,
          LAMBDA y, b : ReadBlock(y, f, b))
BodyIn(x, f) == ReadBlocks(x, RCount(x.r, 2), f)
NewFunc(y, f) ==
    IF y.r.bad THEN y
    ELSE IF NameTaken(y.m, y.got[1]) THEN Refuse(y)
    ELSE BodyIn(List(With(y, FuncAdd(y.m, y.got[1], y.got[2], y.got[3])), 3,
                     LAMBDA z, k : ReadSlot(z, f)), f)
ReadFunc(x, f) == NewFunc(Fields(x, <<"id", "id", "num">>), f)

(* ----------------------------- the whole file --------------------------- *)

PosIn(y) == With(y, [y.m EXCEPT !.pos = Append(@, y.got)])
ReadPos(x, k) == PosIn(Fields(x, <<"id", "num", "num">>))
LocIn(y, f) == With(y, [y.m EXCEPT !.funcs[f].locs = Append(@, y.got[1])])
LocsIn(y, f) ==
    IF y.got[1] > 1 THEN Spoil(y)
    ELSE IF y.got[1] = 0 \/ y.r.bad THEN y
    ELSE Times(With(y, [y.m EXCEPT !.funcs[f].has_locs = TRUE]),
               [v |-> Len(y.m.funcs[f].insts), r |-> y.r],
               LAMBDA z, k : LocIn(Fields(z, <<"num">>), f))
ReadLocs(x, f) == LocsIn(Fields(x, <<"byte">>), f)

HeadIn(y) == [y EXCEPT !.m = [PtrBits(@, y.got[2]) EXCEPT !.memory = y.got[1], !.name = y.got[3]]]
LanguageIn(y) == With(y, [y.m EXCEPT !.language = y.got[1]])
TargetIn(y) == With(y, [y.m EXCEPT !.target = y.got[1]])
ReadHead(x) == HeadIn(Fields(x, <<"num", "num", "opt">>))
ReadTexts(x) ==
    List(List(LanguageIn(Fields(List(x, 1, ReadString), <<"opt">>)), 2, ReadMessage), 3, ReadExc)
ReadSymbols(x) ==
    List(List(List(List(TargetIn(Fields(x, <<"opt">>)), 3, ReadType), 5, ReadGlobal),
              4, ReadExtern), 5, ReadFunc)
AllLocs(y) == Times(y, [v |-> Len(y.m.funcs), r |-> y.r], ReadLocs)
ReadPositions(x) == AllLocs(List(x, 3, ReadPos))

\* Mutant: what is left of the bytes is not looked at.
AcceptedLoose(x) == ~x.no /\ ~x.r.bad

Accepted(x) == ~x.no /\ ~x.r.bad /\ x.r.left = <<>>

ReadBody(bytes) == ReadPositions(ReadSymbols(ReadTexts(ReadHead(NewReader(bytes)))))
Result(x) == [ok |-> Accepted(x), m |-> IF Accepted(x) THEN x.m ELSE NewModule]
\* limba_read: whether the file is accepted, and its module
ReadModule(bytes) ==
    IF bytes = <<>> \/ Head(bytes) # Header THEN [ok |-> FALSE, m |-> NewModule]
    ELSE Result(ReadBody(Tail(bytes)))

=============================================================================
