------------------------------ MODULE Decimal ------------------------------
(***************************************************************************)
(* The exact steps between binary reals and decimal digits:                *)
(* src/common/decimal.c, and the text of a real: src/common/fmt.c.         *)
(*                                                                         *)
(* A real is a positive finite value of a format, in units of its least    *)
(* subnormal (Rational).  A format has beside its bits the limits the code *)
(* keeps for it: p10 the last power of ten it holds exactly (22; 10 for a  *)
(* float), extra the zeros a short number may take over from a longer      *)
(* exponent (15; 0), top and low the decimal exponents past which a text   *)
(* is too large or 0 (308, -325; 38, -46).                                 *)
(***************************************************************************)
EXTENDS Rational

CONSTANTS
    MaxBits,     \* LIMBA_BIG_MAXBITS
    Pow5Max,     \* the last power of 5 that fits 64 bits (27)
    Den5Max,     \* the last below 2^31 (13)
    Den2Max,     \* how far a remainder times a power of 5 can be shifted (96)
    QMax,        \* the largest decimal shift of limba_dec_scaled (800)
    SigDigits,   \* significant digits past which only "not zero" matters (800)
    ShortMax     \* digits that always read back (17)

ASSUME DecimalAssumption ==
    {MaxBits, Pow5Max, Den5Max, Den2Max, QMax, SigDigits, ShortMax} \subseteq Nat

NoReal == [ok |-> FALSE, v |-> 0]
SignOf(x, y) == IF x < y THEN -1 ELSE IF x > y THEN 1 ELSE 0
Magnitude(k) == IF k < 0 THEN -k ELSE k

\* the real u as m 2^e, m odd
RECURSIVE Odd(_, _)
Odd(m, e) == IF m % 2 = 1 THEN [m |-> m, e |-> e] ELSE Odd(m \div 2, e + 1)
Split(u, f) == Odd(u, Least(f))

(* ---- floor(a 10^q) and what is left of it against a half: fl, half ---- *)

\* in 128 bits, of num / (den5 2^den2); ok FALSE when they cannot tell
Fraction(quo, r, den5, den2) ==
    IF den2 = 0 THEN [ok |-> TRUE, half |-> SignOf(2 * r, den5)]
    ELSE IF den2 >= 4 * W THEN [ok |-> TRUE, half |-> -1]
    ELSE IF den5 = 1 THEN [ok |-> TRUE, half |-> SignOf(quo % 2 ^ den2, 2 ^ (den2 - 1))]
    ELSE IF den2 > Den2Max THEN [ok |-> FALSE, half |-> 0]
    ELSE [ok |-> TRUE, half |-> SignOf((quo % 2 ^ den2) * den5 + r, den5 * 2 ^ (den2 - 1))]
FastQuotient(num, den5, den2) ==
    LET quo == num \div den5
        fl == IF den2 >= 4 * W THEN 0 ELSE quo \div 2 ^ den2
        rest == Fraction(quo, num % den5, den5, den2)
    IN  [ok |-> fl < 2 ^ (2 * W) /\ rest.ok, fl |-> fl, half |-> rest.half]
NoScaled == [ok |-> FALSE, fl |-> 0, half |-> 0]
FastScaled(m, e, q) ==
    LET num == IF q >= 0 THEN m * 5 ^ q ELSE m
        t == e + q
    IN  IF q > Pow5Max \/ -q > Den5Max THEN NoScaled
        ELSE IF t > 0 /\ BitLen(num) + t > 4 * W - 1 THEN NoScaled
        ELSE FastQuotient(IF t > 0 THEN num * 2 ^ t ELSE num,
                          IF q < 0 THEN 5 ^ (-q) ELSE 1, IF t < 0 THEN -t ELSE 0)

\* by the integers of bigint.c: a 10^q as num / den, exactly
TimesTen(a, q) == MulLim(a, a, PowLim(Zero, SetU(10), q, MaxBits).r, MaxBits).r
BigNum(m, e, q) ==
    TimesTen(ShlLim(Zero, SetU(m), IF e >= 0 THEN e ELSE 0, MaxBits).r, IF q >= 0 THEN q ELSE 0)
BigDen(e, q) == BigNum(1, -e, -q)
BigHalf(d, den) == [q |-> d.q, half |-> Cmp(ShlLim(d.m, d.m, 1, MaxBits).r, den)]
BigDivided(num, den) == BigHalf(DivMod(num, den), den)
BigFloor(d) == [ok |-> ToU64(d.q).ok, fl |-> ToU64(d.q).r, half |-> d.half]
BigScaled(m, e, q) == BigFloor(BigDivided(BigNum(m, e, q), BigDen(e, q)))

FirstOf(fast, m, e, q) == IF fast.ok THEN fast ELSE BigScaled(m, e, q)
ScaledSplit(a, q) == FirstOf(FastScaled(a.m, a.e, q), a.m, a.e, q)
Scaled(u, q, f) == IF Magnitude(q) > QMax THEN NoScaled ELSE ScaledSplit(Split(u, f), q)

UpOf(s) == s.half > 0 \/ (s.half = 0 /\ s.fl % 2 = 1)
RoundedUp(s) ==
    IF ~s.ok \/ (UpOf(s) /\ s.fl = 2 ^ (2 * W) - 1) THEN NoReal
    ELSE [ok |-> TRUE, v |-> IF UpOf(s) THEN s.fl + 1 ELSE s.fl]
DecRound(u, q, f) == RoundedUp(Scaled(u, q, f))

\* past 64 bits: the digits of the integers
TextOf(d) == IF d.half > 0 \/ (d.half = 0 /\ At(d.q.w, 1) % 2 = 1)
             THEN AddLim(d.q, SetU(1), MaxBits).r ELSE d.q
RoundText(u, q, f) ==
    LET a == Split(u, f)
    IN  Str(TextOf(BigDivided(BigNum(a.m, a.e, q), BigDen(a.e, q))))

(* ---------------------------- reading digits ---------------------------- *)

\* one operation of the machine: d times or over a power of ten, itself the
\* nearest value of the format
Machine(d, k, f) ==
    LET p10 == Nearest(10 ^ Magnitude(k), 1, f)
    IN  IF k >= 0 THEN Nearest(d * p10, 2 ^ (-Least(f)), f)
        ELSE Nearest(d * 2 ^ (-Least(f)), p10, f)
FastRead(d, k, f) ==
    LET shift == k > f.p10 /\ k <= f.p10 + f.extra /\ d <= 2 ^ f.mant \div 10 ^ (k - f.p10)
        dd == IF shift THEN d * 10 ^ (k - f.p10) ELSE d
        kk == IF shift THEN f.p10 ELSE k
    IN  IF dd > 2 ^ f.mant \/ Magnitude(kk) > f.p10 THEN NoReal
        ELSE [ok |-> TRUE, v |-> IF dd = 0 THEN 0 ELSE Machine(dd, kk, f)]

BigValue(n, p, k) == IF k >= 0 THEN Rat(MulLim(n, n, p, MaxBits).r, SetU(1)) ELSE Rat(n, p)
RealOf(r) == [ok |-> r.ok, v |-> r.u]
BigRead(digits, k, wide, f) ==
    RealOf(RatRound(BigValue(ParseLim(Zero, digits, 10, MaxBits).r,
                             PowLim(Zero, SetU(10), Magnitude(k), MaxBits).r, k), wide, f))

\* Mutant: what is past them is forgotten.
CutOff(t) == SubSeq(t, 1, SigDigits) \o <<0>>

\* past SigDigits digits the rest only says whether it is zero
Cut(t) == SubSeq(t, 1, SigDigits)
          \o <<IF \E i \in SigDigits + 1 .. Len(t) : t[i] # 0 THEN 1 ELSE 0>>

ReadLong(fast, t, k, wide, f) ==
    IF fast.ok THEN fast
    ELSE BigRead(IF Len(t) > SigDigits THEN Cut(t) ELSE t,
                 IF Len(t) > SigDigits THEN k + Len(t) - (SigDigits + 1) ELSE k, wide, f)
ReadStripped(t, k, wide, f) ==
    IF t = <<>> THEN [ok |-> TRUE, v |-> 0]
    ELSE IF Len(t) + k - 1 > f.top THEN NoReal
    ELSE IF Len(t) + k < f.low THEN [ok |-> TRUE, v |-> 0]
    ELSE ReadLong(IF Len(t) <= FastDigits THEN FastRead(DigitsVal(t), k, f) ELSE NoReal,
                  t, k, wide, f)
RECURSIVE StripEnd(_, _)
StripEnd(t, k) == IF t # <<>> /\ Last(t) = 0 THEN StripEnd(Front(t), k + 1)
                  ELSE [t |-> t, k |-> k]
ReadFrom(s, wide, f) == ReadStripped(s.t, s.k, wide, f)
ReadDigits(t, k, wide, f) == ReadFrom(StripEnd(Unled(t), k), wide, f)
RECURSIVE DigitsOf(_)
DigitsOf(d) == IF d < 10 THEN <<d>> ELSE Append(DigitsOf(d \div 10), d % 10)
ReadSlow(fast, d, k, wide, f) ==
    IF fast.ok THEN fast ELSE ReadDigits(DigitsOf(d), k, wide, f)
DecRead(d, k, wide, f) == ReadSlow(FastRead(d, k, f), d, k, wide, f)

(* --------------------------- the text of a real ------------------------- *)

\* C's division of integers, which drops the fraction
CDiv(x, y) == IF x < 0 THEN -((-x) \div y) ELSE x \div y

\* the exponent of the first digit, from a guess by the binary exponent
RECURSIVE Settled(_, _, _, _), Guessed(_, _, _, _, _)
Guessed(s, u, g, tries, f) ==
    IF ~s.ok THEN 0                       \* ex is left at 0
    ELSE IF s.fl >= 10 THEN Settled(u, g + 1, tries - 1, f)
    ELSE IF s.fl = 0 THEN Settled(u, g - 1, tries - 1, f)
    ELSE g
Settled(u, g, tries, f) ==
    IF tries = 0 THEN 0 ELSE Guessed(Scaled(u, -g, f), u, g, tries, f)
FirstExponent(u, f) ==
    Settled(u, CDiv((BitLen(u) - 1 + Least(f)) * 78913, 262144), 3, f)

\* u rounded to p digits: the digits as a number, the exponent of the first,
\* and whether they read back as u
ReadsAs(back, d, ex, p, u) == [d |-> d, ex |-> ex, p |-> p, back |-> back.ok /\ back.v = u]
DigitsAs(d, ex, p, u, wide, f) ==
    ReadsAs(DecRead(d, ex - (p - 1), wide, f), d, ex, p, u)
Digits(r, u, ex, p, wide, f) ==
    IF ~r.ok THEN [d |-> 0, ex |-> ex, p |-> p, back |-> FALSE]
    ELSE DigitsAs(IF r.v = 10 ^ p THEN 10 ^ (p - 1) ELSE r.v,      \* 9.96 to 2 digits
                  IF r.v = 10 ^ p THEN ex + 1 ELSE ex, p, u, wide, f)
RoundTo(u, ex, p, wide, f) == Digits(DecRound(u, p - 1 - ex, f), u, ex, p, wide, f)
RECURSIVE Shortest(_, _, _, _, _), OneMore(_, _, _, _, _)
OneMore(t, u, ex, wide, f) ==
    IF t.back \/ t.p = ShortMax THEN t ELSE Shortest(u, ex, t.p + 1, wide, f)
Shortest(u, ex, p, wide, f) == OneMore(RoundTo(u, ex, p, wide, f), u, ex, wide, f)
Fmt(u, wide, f) == Shortest(u, FirstExponent(u, f), 1, wide, f)

\* the fixed form with d decimals: the digits, at least d + 1 of them
RECURSIVE Padded(_, _)
Padded(digits, n) == IF Len(digits) >= n THEN digits ELSE Padded(<<0>> \o digits, n)
FixedDigits(n, u, d, f) == Padded(IF n.ok THEN DigitsOf(n.v) ELSE RoundText(u, d, f), d + 1)
FmtFixed(u, d, f) ==
    FixedDigits(IF u = 0 THEN [ok |-> TRUE, v |-> 0] ELSE DecRound(u, d, f), u, d, f)

=============================================================================
