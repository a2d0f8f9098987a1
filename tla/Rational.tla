------------------------------ MODULE Rational ------------------------------
(***************************************************************************)
(* The rationals of src/common/bigint.c and their rounding to a binary     *)
(* format.  A rational is [num, den], two bigs, den > 0 and no common      *)
(* divisor.  `wide` says which build it is: with the 128-bit integers of   *)
(* the compiler (four words) the common cases are shortened, without them  *)
(* the long way must give the same numbers; `max` is LIMBA_BIG_MAXBITS,    *)
(* past which a part of a result is refused.                               *)
(*                                                                         *)
(* A format f is [mant, emin, emax] (53, -1022, 1023 for a double).  A     *)
(* value of it is written in units of its least subnormal, a Nat.          *)
(***************************************************************************)
EXTENDS BigInt

CONSTANTS
    FastDigits,   \* digits of a literal that rat_parse takes in 128 bits (19)
    FastUp,       \* its largest exponent (19)
    FastDown      \* minus its smallest (38)

ASSUME RationalAssumption == {FastDigits, FastUp, FastDown} \subseteq Nat

Rat(n, d) == [num |-> n, den |-> d]

RECURSIVE Gcd128(_, _)
Gcd128(a, b) == IF b = 0 THEN a ELSE Gcd128(b, a % b)

Divided(num, den, g) == Rat(Quo(num, g), Quo(den, g))
Reduced(num, den, wide) ==
    IF num.w = <<>> THEN Rat(Zero, SetU(1))
    ELSE IF wide /\ Len(num.w) <= 4 /\ Len(den.w) <= 4
    THEN LET g == Gcd128(WordsVal(num.w), WordsVal(den.w))
         IN  Rat(Signed(SetU(WordsVal(num.w) \div g), num.neg), SetU(WordsVal(den.w) \div g))
    ELSE Divided(num, den, Gcd(num, den))
Normalise(r, wide) ==
    Reduced(IF r.den.neg THEN Neg(r.num) ELSE r.num, Abs(r.den), wide)

\* the products are refused past the limit, and a refused one leaves the 0
\* it was to replace
RatCmp(a, b, max) == Cmp(MulLim(Zero, a.num, b.den, max).r,
                         MulLim(Zero, b.num, a.den, max).r)

\* n and d, when both could be made
BothParts(r0, n, d, wide) ==
    [ok |-> n.ok /\ d.ok, r |-> IF n.ok /\ d.ok THEN Normalise(Rat(n.r, d.r), wide) ELSE r0]

SumOf(x, y, sub, max) ==
    IF ~x.ok \/ ~y.ok THEN [ok |-> FALSE, r |-> Zero]
    ELSE AddSub(x.r, y.r, IF sub THEN y.r.w # <<>> /\ ~y.r.neg ELSE y.r.neg, max)
RatAddSub(r0, a, b, sub, wide, max) ==
    BothParts(r0, SumOf(MulLim(Zero, a.num, b.den, max), MulLim(Zero, b.num, a.den, max), sub, max),
         MulLim(SetU(1), a.den, b.den, max), wide)
RatMulDiv(r0, n1, n2, d1, d2, wide, max) ==
    BothParts(r0, MulLim(Zero, n1, n2, max), MulLim(SetU(1), d1, d2, max), wide)
RatMul(r0, a, b, wide, max) == RatMulDiv(r0, a.num, b.num, a.den, b.den, wide, max)
RatDiv(r0, a, b, wide, max) == RatMulDiv(r0, a.num, b.den, a.den, b.num, wide, max)
RatPower(r0, n, d, m, wide, max) ==
    BothParts(r0, PowLim(Zero, n, m, max), PowLim(SetU(1), d, m, max), wide)
RatPow(r0, a, e, wide, max) ==
    RatPower(r0, IF e < 0 THEN a.den ELSE a.num, IF e < 0 THEN a.num ELSE a.den,
             IF e < 0 THEN -e ELSE e, wide, max)

(* ------------------------- a literal of a real -------------------------- *)

RECURSIVE DigitsVal(_)
DigitsVal(s) == IF s = <<>> THEN 0 ELSE DigitsVal(Front(s)) * 10 + Last(s)
RECURSIVE Unled(_)
Unled(s) == IF s # <<>> /\ Head(s) = 0 THEN Unled(Tail(s)) ELSE s

\* v and k with the factors p taken out of v, at most k of them
RECURSIVE Without(_, _, _)
Without(v, p, k) == IF v # 0 /\ k > 0 /\ v % p = 0 THEN Without(v \div p, p, k - 1)
                    ELSE [v |-> v, k |-> k]
FastLiteral(v, exp) ==
    LET two  == Without(v, 2, -exp)
        five == Without(two.v, 5, -exp)
    IN  IF exp >= 0 THEN Rat(SetU(v * 10 ^ exp), SetU(1))
        ELSE Rat(SetU(five.v), SetU(IF v = 0 THEN 1 ELSE 5 ^ five.k * 2 ^ two.k))
One == [ok |-> TRUE, r |-> SetU(1)]
Product(x, y, max) == IF x.ok /\ y.ok THEN MulLim(x.r, x.r, y.r, max)
                      ELSE [ok |-> FALSE, r |-> x.r]
SlowLiteral(r0, n, p, exp, wide, max) ==
    BothParts(r0, IF exp < 0 THEN n ELSE Product(n, p, max), IF exp < 0 THEN p ELSE One, wide)
\* lit: its digits, how many of them are after the point, its exponent
RatParse(r0, lit, wide, max) ==
    LET exp == lit.exp - lit.frac
    IN  IF wide /\ Len(Unled(lit.digits)) <= FastDigits
                /\ -exp <= FastDown /\ exp <= FastUp
        THEN [ok |-> TRUE, r |-> FastLiteral(DigitsVal(Unled(lit.digits)), exp)]
        ELSE SlowLiteral(r0, ParseLim(Zero, lit.digits, 10, max),
                         PowLim(Zero, SetU(10), IF exp < 0 THEN -exp ELSE exp, max),
                         exp, wide, max)

(* ------------------------------- rounding ------------------------------- *)

Least(f) == f.emin - f.mant + 1           \* the exponent of the least subnormal
Units(m, s, f) == m * 2 ^ (s - Least(f))  \* ldexp(m, s)
Past(f) == Units(1, f.emax + 1, f)        \* 2^(emax + 1), not a finite value

\* IEEE 754's nearest value of the format, ties to even, of num / den > 0:
\* what one operation of the machine gives (Past for an overflow)
Values(f) == {m * 2 ^ s : m \in 0 .. 2 ^ f.mant - 1, s \in 0 .. f.emax - f.emin}
             \cup {Past(f)}
Dist(u, num, den) == IF u * den < num THEN num - u * den ELSE u * den - num
NearestIn(values, num, den) ==
    CHOOSE u \in values :
        \A v \in values \ {u} :
            \/ Dist(u, num, den) < Dist(v, num, den)
            \/ /\ Dist(u, num, den) = Dist(v, num, den)
               /\ (u \div (IF u < v THEN v - u ELSE u - v)) % 2 = 0
Nearest(num, den, f) == NearestIn(Values(f), num * 2 ^ (-Least(f)), den)

\* the quotient's bits one by one, r < 2 dd before each
RECURSIVE QuotientBits(_, _, _, _)
QuotientBits(q, r, dd, n) ==
    IF n = 0 THEN [q |-> q, r |-> r]
    ELSE IF r >= dd THEN QuotientBits(2 * q + 1, 2 * (r - dd), dd, n - 1)
    ELSE QuotientBits(2 * q, 2 * r, dd, n - 1)
FirstBits(r, dd, f) ==
    IF r < 2 ^ (2 * W) /\ dd < 2 ^ (2 * W)
    THEN [q |-> (r * 2 ^ (f.mant + 1)) \div dd, r |-> 2 * ((r * 2 ^ (f.mant + 1)) % dd)]
    ELSE QuotientBits(0, r, dd, f.mant + 2)
\* m the first mant bits, then a half and whether anything is left
Even128(b, k, f) ==
    LET m == b.q \div 4
        half == (b.q \div 2) % 2 = 1
        rest == b.q % 2 = 1 \/ b.r # 0
        up == IF half /\ (rest \/ m % 2 = 1) THEN m + 1 ELSE m
        over == up >= 2 ^ f.mant
        e == IF over THEN k + 1 ELSE k
    IN  IF e < f.emin \/ e > f.emax THEN [ok |-> FALSE, u |-> 0]
        ELSE [ok |-> TRUE, u |-> Units(IF over THEN up \div 2 ELSE up, e - (f.mant - 1), f)]
Scaled128(r, dd, k, f) ==
    IF r < dd THEN Even128(FirstBits(2 * r, dd, f), k - 1, f)
    ELSE Even128(FirstBits(r, dd, f), k, f)
Round128(n, d, f) ==
    LET k == BitLen(n) - BitLen(d)
    IN  IF n = 0 \/ d = 0 \/ BitLen(n) > 4 * W - 2 \/ BitLen(d) > 4 * W - 2
        THEN [ok |-> FALSE, u |-> 0]
        ELSE Scaled128(IF k >= 0 THEN n ELSE n * 2 ^ (-k),
                       IF k >= 0 THEN d * 2 ^ k ELSE d, k, f)

SmallMag(a, bits) == Len(a.w) <= 2 /\ WordsVal(a.w) < 2 ^ bits

\* round(num / den / 2^s) 2^s: of the quotient m, what is left against a half
LongUp(u, f) == [ok |-> u < Past(f), u |-> u]
LongEven(m, c, s, f) ==
    LongUp(Units(IF c > 0 \/ (c = 0 /\ m % 2 = 1) THEN m + 1 ELSE m, s, f), f)
LongRest(d, den, s, f) == LongEven(ToU64(d.q).r, MagCmp(ShlRaw(d.m, 1), den), s, f)
LongDivided(num, den, s, f) == LongRest(DivMod(num, den), den, s, f)
LongRound(num, den, s, f) ==
    LongDivided(IF s < 0 THEN ShlRaw(num, -s) ELSE num,
                IF s >= 0 THEN ShlRaw(den, s) ELSE den, s, f)
LongWay(num, den, e, f) ==
    LET p == IF e < f.emin THEN f.mant - (f.emin - e) ELSE f.mant
    IN  IF e > f.emax THEN [ok |-> FALSE, u |-> Past(f)]
        ELSE IF p < 0 THEN [ok |-> TRUE, u |-> 0]
        ELSE LongRound(num, den, e - p + 1, f)
\* floor(log2(num / den)), from e, their difference in bits
Log2(num, den, e) ==
    IF MagCmp(IF e >= 0 THEN num ELSE ShlRaw(num, -e),
              IF e >= 0 THEN ShlRaw(den, e) ELSE den) < 0 THEN e - 1 ELSE e

RoundSlow(num, den, f) ==
    IF SmallMag(num, f.mant) /\ SmallMag(den, f.mant)
    THEN [ok |-> TRUE, u |-> Nearest(WordsVal(num.w), WordsVal(den.w), f)]
    ELSE LongWay(num, den, Log2(num, den, Bits(num) - Bits(den)), f)
RoundMag(fast, num, den, f) == IF fast.ok THEN fast ELSE RoundSlow(num, den, f)
WithSign(m, neg) == [ok |-> m.ok, u |-> m.u, neg |-> neg]
RatRound(a, wide, f) ==
    IF a.num.w = <<>> THEN [ok |-> TRUE, u |-> 0, neg |-> FALSE]
    ELSE WithSign(RoundMag(IF wide /\ Len(a.num.w) <= 4 /\ Len(a.den.w) <= 4
                           THEN Round128(WordsVal(a.num.w), WordsVal(a.den.w), f)
                           ELSE [ok |-> FALSE, u |-> 0], Abs(a.num), a.den, f), a.num.neg)

=============================================================================
