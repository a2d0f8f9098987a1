------------------------------ MODULE Numbers ------------------------------
(***************************************************************************)
(* Calls of the number functions of src/common, each checked against what  *)
(* its header promises: bigint.c, decimal.c, fmt.c, leb128.c.              *)
(*                                                                         *)
(* A call is a function's name and its arguments as integers (a big by its *)
(* value, a rational by numerator and denominator, digits one by one); the *)
(* function's action makes the call, and the properties compare what it    *)
(* returned with arithmetic on TLA+'s own integers.  `wide` is the build,  *)
(* with or without the 128-bit integers of the compiler.                   *)
(***************************************************************************)
EXTENDS Decimal, Leb128

CONSTANTS
    Calls,      \* the families of calls, each a set of [fn : STRING, x : Seq(Int)]
    Formats,    \* the two binary formats, a double and a float
    None        \* no call has returned yet

VARIABLES call, wide, out
vars == <<call, wide, out>>

Int2(a) == (IF a.neg THEN -1 ELSE 1) * WordsVal(a.w)
RatOf(n, d) == LET g == Gcd128(Magnitude(n), d) IN Rat(SetI(CDiv(n, g)), SetU(d \div g))
From(n) == SubSeq(call.x, n, Len(call.x))
X == call.x
Fm == Formats[X[1]]

\* the functions with two ways to their result
UseWide == {"radd", "rsub", "rmul", "rdiv", "rpow", "literal", "round", "fmt", "read",
            "readint"}

Init == /\ \E i \in DOMAIN Calls : call \in Calls[i]
        /\ wide \in (IF call.fn \in UseWide THEN BOOLEAN ELSE {TRUE})
        /\ out = None

Return(fn, result) == /\ out = None
                      /\ call.fn = fn
                      /\ out' = result
                      /\ UNCHANGED <<call, wide>>

\* x = <<a, b, maxbits>>; what was in the result before is 0
Add == Return("add", AddLim(SetI(X[1]), SetI(X[2]), X[3]))
Sub == Return("sub", SubLim(SetI(X[1]), SetI(X[2]), X[3]))
Mul == Return("mul", MulLim(Zero, SetI(X[1]), SetI(X[2]), X[3]))
Lcm == Return("lcm", LcmLim(Zero, SetI(X[1]), SetI(X[2]), X[3]))
Shl == Return("shl", ShlLim(Zero, SetI(X[1]), X[2], X[3]))
Pow == Return("pow", PowLim(Zero, SetI(X[1]), X[2], X[3]))
Root == Return("root", RootLim(Zero, SetI(X[1]), X[2], X[3]))
PowMod == Return("powmod", PowModLim(Zero, SetI(X[1]), SetI(X[2]), SetI(X[3]), X[4]))
Parse == Return("parse", ParseLim(Zero, From(3), X[1], X[2]))
Divide == Return("divmod", DivMod(SetI(X[1]), SetI(X[2])))
CmpGcd == Return("cmpgcd", [c |-> Cmp(SetI(X[1]), SetI(X[2])),
                            g |-> Gcd(SetI(X[1]), SetI(X[2]))])
Convert == Return("convert", [u |-> ToU64(SetI(X[1])), i |-> ToI64(SetI(X[1])),
                              s |-> Str(SetI(X[1]))])

\* x = <<n1, d1, n2, d2, maxbits>>
R1 == RatOf(X[1], X[2])
R2 == RatOf(X[3], X[4])
RAdd == Return("radd", RatAddSub(R1, R1, R2, FALSE, wide, X[5]))
RSub == Return("rsub", RatAddSub(R1, R1, R2, TRUE, wide, X[5]))
RMul == Return("rmul", RatMul(R1, R1, R2, wide, X[5]))
RDiv == Return("rdiv", RatDiv(R1, R1, R2, wide, X[5]))
RCmp == Return("rcmp", [c |-> RatCmp(R1, R2, X[5])])
RPow == Return("rpow", RatPow(R1, R1, X[3], wide, X[4]))
\* x = <<digits after the point, exponent, maxbits, digits...>>
Literal == Return("literal", RatParse(Rat(Zero, SetU(1)),
                     [digits |-> From(4), frac |-> X[1], exp |-> X[2]], wide, X[3]))
\* x = <<format, n, d>>
Round == Return("round", RatRound(RatOf(X[2], X[3]), wide, Fm))

\* x = <<format, real, shift>>; x = <<format, k, digits...>>
Scale == Return("scaled", Scaled(X[2], X[3], Fm))
Fixed == Return("fixed", FmtFixed(X[2], X[3], Fm))
Shown == Return("fmt", Fmt(X[2], wide, Fm))
Read == Return("read", ReadDigits(From(3), X[2], wide, Fm))
ReadInt == Return("readint", DecRead(X[3], X[2], wide, Fm))

\* x = <<v>>: v written, then read with what follows it
Leb == Return("uleb", RUleb(Reader(PutUleb(X[1]) \o <<1>>)))
LebS == Return("sleb", RSleb(Reader(PutSleb(X[1]) \o <<1>>)))
\* x = <<bytes of each, bytes...>>
Count == Return("count", RCount(Reader(From(2)), X[1]))

Big == Add \/ Sub \/ Mul \/ Lcm \/ Shl \/ Pow \/ Root \/ PowMod \/ Parse \/ Divide
       \/ CmpGcd \/ Convert
Rationals == RAdd \/ RSub \/ RMul \/ RDiv \/ RCmp \/ RPow \/ Literal \/ Round
Text == Scale \/ Fixed \/ Shown \/ Read \/ ReadInt \/ Leb \/ LebS \/ Count
Next == Big \/ Rationals \/ Text

Spec == Init /\ [][Next]_vars

(* ------------------------- what is promised ----------------------------- *)

Returned(fns) == out # None /\ call.fn \in fns

\* the result in lowest words: no leading zero, no negative zero
Canonical(a) == IF a.w = <<>> THEN ~a.neg
                ELSE Last(a.w) # 0 /\ \A i \in DOMAIN a.w : a.w[i] \in 0 .. Base - 1
Lowest(r) == /\ Canonical(r.num) /\ Canonical(r.den)
             /\ ~r.den.neg /\ r.den.w # <<>>
             /\ Gcd128(WordsVal(r.num.w), WordsVal(r.den.w)) = 1

RECURSIVE DigitsIn(_, _)
DigitsIn(s, base) ==
    IF s = <<>> THEN 0
    ELSE IF Last(s) >= base THEN DigitsIn(Front(s), base)
    ELSE DigitsIn(Front(s), base) * base + Last(s)
Common(a, b) == {d \in 1 .. Magnitude(a) + Magnitude(b) : a % d = 0 /\ b % d = 0}

Power(b, e) == IF e = 0 THEN 1 ELSE b ^ e      \* 0^0 is 1 here

\* the number a function of bigs should return
Wanted ==
    CASE call.fn = "add" -> X[1] + X[2]
      [] call.fn = "sub" -> X[1] - X[2]
      [] call.fn = "mul" -> X[1] * X[2]
      [] call.fn = "lcm" -> IF X[1] * X[2] = 0 THEN 0
                            ELSE Magnitude(X[1] * X[2])
                                 \div (CHOOSE g \in Common(X[1], X[2]) :
                                         \A h \in Common(X[1], X[2]) : h <= g)
      [] call.fn = "shl" -> X[1] * 2 ^ X[2]
      [] call.fn = "pow" -> Power(X[1], X[2])
      [] call.fn = "powmod" -> Power(X[1], X[2]) % Magnitude(X[3])
      [] call.fn = "parse" -> DigitsIn(From(3), X[1])
Bounded == {"add", "sub", "mul", "lcm", "shl", "pow", "powmod", "parse"}
\* the last argument but for parse, whose digits come last
Limit == IF call.fn = "parse" THEN X[2] ELSE Last(X)

RootOf(r) == /\ r ^ X[2] <= Magnitude(X[1]) /\ Magnitude(X[1]) < (r + 1) ^ X[2]

\* the rational an operation should return, not reduced
WantedRat ==
    CASE call.fn = "radd" -> <<X[1] * X[4] + X[3] * X[2], X[2] * X[4]>>
      [] call.fn = "rsub" -> <<X[1] * X[4] - X[3] * X[2], X[2] * X[4]>>
      [] call.fn = "rmul" -> <<X[1] * X[3], X[2] * X[4]>>
      [] call.fn = "rdiv" -> <<X[1] * X[4], X[2] * X[3]>>
      [] call.fn = "rpow" -> IF X[3] >= 0 THEN <<Power(X[1], X[3]), Power(X[2], X[3])>>
                             ELSE <<X[2] ^ (-X[3]), X[1] ^ (-X[3])>>
      [] call.fn = "literal" ->
            IF X[2] >= X[1] THEN <<DigitsVal(From(4)) * 10 ^ (X[2] - X[1]), 1>>
            ELSE <<DigitsVal(From(4)), 10 ^ (X[1] - X[2])>>
RatFns == {"radd", "rsub", "rmul", "rdiv", "rpow", "literal"}
SameRat(r, q) == Int2(r.num) * q[2] = q[1] * Int2(r.den)

\* floor(u 10^q) of a real u, and its nearest integer, ties to even
Num(u, q) == IF q >= 0 THEN u * 10 ^ q ELSE u
Den(q) == 2 ^ (-Least(Fm)) * (IF q < 0 THEN 10 ^ (-q) ELSE 1)
EvenQuo(n, d) == IF 2 * (n % d) > d \/ (2 * (n % d) = d /\ (n \div d) % 2 = 1)
                 THEN n \div d + 1 ELSE n \div d
NearestDec(d, k) == IF k >= 0 THEN Nearest(d * 10 ^ k, 1, Fm) ELSE Nearest(d, 10 ^ (-k), Fm)

ReadsBack(d, k) == NearestDec(d, k) = X[2]
\* the exponent of the first digit of the real X[2]
Exponent == CHOOSE e \in -3 .. 3 : Num(X[2], -e) \div Den(-e) \in 1 .. 9

\* the words, the value and the sign of every result: bigs by schoolbook
\* product, algorithm D, Newton's root and square-and-multiply are the
\* integers they stand for (bigint.c), in the form the others rely on; a
\* rational is in lowest terms whichever way it was reduced; a number
\* written in bytes reads back, and no more than its bytes are read (leb128.c)
Exact ==
    /\ Returned(Bounded) /\ out.ok => Canonical(out.r) /\ Int2(out.r) = Wanted
    /\ Returned({"root"}) => out.ok /\ Canonical(out.r) /\ RootOf(Magnitude(Int2(out.r)))
                             /\ (Int2(out.r) # 0 => out.r.neg = (X[1] < 0))
    /\ Returned({"divmod"}) =>
         /\ Canonical(out.q) /\ Canonical(out.m)
         /\ Int2(out.q) * X[2] + Int2(out.m) = X[1]
         /\ Magnitude(Int2(out.m)) < Magnitude(X[2])
         /\ Int2(out.m) # 0 => out.m.neg = (X[1] < 0)
    /\ Returned({"cmpgcd"}) =>
         /\ out.c = SignOf(X[1], X[2])
         /\ LET g == Int2(out.g)
            IN  IF X[1] = 0 /\ X[2] = 0 THEN g = 0
                ELSE g \in Common(X[1], X[2]) /\ \A h \in Common(X[1], X[2]) : h <= g
    /\ Returned({"convert"}) =>
         /\ out.u.ok <=> X[1] \in 0 .. 2 ^ (2 * W) - 1
         /\ out.i.ok <=> X[1] \in -(2 ^ (2 * W - 1)) .. 2 ^ (2 * W - 1) - 1
         /\ (out.u.ok => out.u.r = X[1]) /\ (out.i.ok => out.i.r = X[1])
         /\ DigitsIn(out.s, Digit10) = Magnitude(X[1])
         /\ Len(out.s) > 1 => Head(out.s) # 0
    /\ Returned(RatFns) /\ out.ok => Lowest(out.r) /\ SameRat(out.r, WantedRat)
    /\ Returned({"rcmp"}) => out.c = SignOf(X[1] * X[4], X[3] * X[2])
    /\ Returned({"uleb", "sleb"}) => ~out.r.bad /\ out.v = X[1] /\ out.r.left = <<1>>
    /\ Returned({"count"}) /\ ~out.r.bad => 
         out.v * X[1] <= Len(out.r.left) /\ out.v < 2 ^ NumBits

\* a function refuses only what does not fit: false is never returned for a
\* result within the limit (bigint.h: "every operation that could grow a
\* number past LIMBA_BIG_MAXBITS fails"), and a failed operation on
\* rationals leaves its result as it was
Refused ==
    /\ Returned(Bounded \ {"powmod"}) =>
         (out.ok <=> BitLen(Magnitude(Wanted)) <= Limit)
    /\ Returned({"powmod"}) /\ ~out.ok => BitLen((Magnitude(X[3]) - 1) ^ 2) > Limit
    /\ Returned(RatFns \ {"literal", "rpow"}) /\ ~out.ok =>
         /\ out.r = R1
         /\ \/ BitLen(Magnitude(X[1]) * X[4]) > Limit
            \/ BitLen(Magnitude(X[3]) * X[2]) > Limit
            \/ \E i \in 1 .. 2 : BitLen(Magnitude(WantedRat[i])) > Limit
    /\ Returned({"rpow"}) /\ ~out.ok =>
         out.r = R1 /\ \E i \in 1 .. 2 : BitLen(Magnitude(WantedRat[i])) > Limit
    /\ Returned({"scaled"}) /\ ~out.ok => Num(X[2], X[3]) \div Den(X[3]) >= 2 ^ (2 * W)

\* whichever path is taken, 128 bits, one division of the machine or the
\* integers of bigint.c, a real is rounded once, to the nearest, ties to
\* even, subnormal and overflowing ones too (rat_round, limba_dec_read*);
\* the digits of a text are the fewest that, rounded from the exact value,
\* read back to the same real (fmt.c), and a fixed number of decimals is the exact value rounded
Rounded ==
    /\ Returned({"round"}) =>
         LET n == IF X[2] = 0 THEN 0 ELSE Nearest(Magnitude(X[2]), X[3], Fm)
         IN  IF n = Past(Fm) THEN ~out.ok
             ELSE out.ok /\ out.u = n /\ (n # 0 => out.neg = (X[2] < 0))
    /\ Returned({"scaled"}) /\ out.ok =>
         /\ out.fl = Num(X[2], X[3]) \div Den(X[3])
         /\ out.half = SignOf(2 * (Num(X[2], X[3]) % Den(X[3])), Den(X[3]))
    /\ Returned({"fixed"}) => DigitsVal(out) = EvenQuo(Num(X[2], X[3]), Den(0))
    /\ Returned({"read", "readint"}) =>
         LET n == NearestDec(DigitsVal(From(3)), X[2])
         IN  IF n = Past(Fm) THEN ~out.ok ELSE out.ok /\ out.v = n
    /\ Returned({"fmt"}) =>
         /\ ReadsBack(out.d, out.ex - (out.p - 1))
         /\ \E q \in {out.p - 1 - Exponent} :
               out.d * 10 ^ (out.ex - Exponent) = EvenQuo(Num(X[2], q), Den(q))
         /\ \A p \in 1 .. out.p - 1 :
               ~ReadsBack(EvenQuo(Num(X[2], p - 1 - Exponent), Den(p - 1 - Exponent)),
                          Exponent - (p - 1))

=============================================================================
