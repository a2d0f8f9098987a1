------------------------------- MODULE BigInt -------------------------------
(***************************************************************************)
(* Integers and rationals of any size: src/common/bigint.c.                *)
(*                                                                         *)
(* A limba_big is a sign and a magnitude in words, the least significant   *)
(* first, without a leading zero word; zero has no word and no sign.  The  *)
(* width of a word is the constant W (32 in the code), so that every path  *)
(* of the algorithms (a borrow, the estimate of a quotient's word that is  *)
(* too large, a carry out of the last word) is met by numbers of a few     *)
(* bits.  uint64_t is then two words and unsigned __int128 four.           *)
(*                                                                         *)
(* A function that can refuse (it returns false) yields [ok, r], where r   *)
(* is what it leaves in its result argument; r0 is what was there before.  *)
(***************************************************************************)
EXTENDS Integers, Sequences, SequencesExt

CONSTANTS
    W,          \* bits of a word
    Digit10,    \* the base limba_big_str writes in (ten)
    Group9      \* the digits of one of its groups (nine)

ASSUME BigIntAssumption == /\ W \in Nat \ {0}
                           /\ Digit10 \in Nat \ {0, 1}
                           /\ Group9 \in Nat \ {0}

Base == 2 ^ W
Zero == [w |-> <<>>, neg |-> FALSE]
At(w, i) == IF i \in DOMAIN w THEN w[i] ELSE 0     \* a word past the end is 0

\* limba_big_bits, of a magnitude given as a Nat and of a big
RECURSIVE BitLen(_)
BitLen(v) == IF v = 0 THEN 0 ELSE 1 + BitLen(v \div 2)
Bits(a) == IF a.w = <<>> THEN 0 ELSE (Len(a.w) - 1) * W + BitLen(Last(a.w))

RECURSIVE Trim(_)
Trim(a) == IF a.w = <<>> THEN Zero
           ELSE IF Last(a.w) # 0 THEN a
           ELSE Trim([a EXCEPT !.w = Front(@)])
Mag(w) == Trim([w |-> w, neg |-> FALSE])

\* the words of a number that fits n of them; limba_big_set_u64, set_u128
\* and set_i64 take the machine's integers apart the same way
RECURSIVE Words(_)
Words(v) == IF v = 0 THEN <<>> ELSE <<v % Base>> \o Words(v \div Base)
SetU(v) == [w |-> Words(v), neg |-> FALSE]
SetI(v) == IF v < 0 THEN [w |-> Words(-v), neg |-> TRUE] ELSE SetU(v)

Sign(a) == IF a.w = <<>> THEN 0 ELSE IF a.neg THEN -1 ELSE 1

(* -------------------------- sums and differences ----------------------- *)

\* the loops over the words of bigint.c: each word of d, with what the word
\* below carries (or borrows, when negative) into it; the last element is
\* what the last word carries out
RECURSIVE Carry(_, _)
Carry(d, c) == IF d = <<>> THEN <<c>>
               ELSE <<(Head(d) + c) % Base>> \o Carry(Tail(d), (Head(d) + c) \div Base)

RECURSIVE WordsCmp(_, _)
WordsCmp(v, w) == IF v = <<>> THEN 0
                  ELSE IF Last(v) # Last(w) THEN IF Last(v) < Last(w) THEN -1 ELSE 1
                  ELSE WordsCmp(Front(v), Front(w))
MagCmp(a, b) == IF Len(a.w) # Len(b.w) THEN IF Len(a.w) < Len(b.w) THEN -1 ELSE 1
                ELSE WordsCmp(a.w, b.w)
Cmp(a, b) == IF Sign(a) # Sign(b) THEN IF Sign(a) < Sign(b) THEN -1 ELSE 1
             ELSE IF Sign(a) < 0 THEN -MagCmp(a, b) ELSE MagCmp(a, b)

Longer(a, b) == IF Len(a.w) < Len(b.w) THEN Len(b.w) ELSE Len(a.w)
MagAdd(a, b) ==
    Mag(Carry([i \in 1 .. Longer(a, b) |-> At(a.w, i) + At(b.w, i)], 0))
MagSub(a, b) ==       \* |a| >= |b|
    Mag(Front(Carry([i \in DOMAIN a.w |-> a.w[i] - At(b.w, i)], 0)))

Fits(a, maxbits) == Bits(a) <= maxbits
Signed(a, neg) == Trim([a EXCEPT !.neg = neg])
Limited(t, maxbits) == [ok |-> Fits(t, maxbits), r |-> t]
AddSub(a, b, bneg, maxbits) ==
    Limited(IF a.neg = bneg THEN Signed(MagAdd(a, b), a.neg)
            ELSE IF MagCmp(a, b) >= 0 THEN Signed(MagSub(a, b), a.neg)
            ELSE Signed(MagSub(b, a), bneg), maxbits)
AddLim(a, b, maxbits) == AddSub(a, b, b.neg, maxbits)
SubLim(a, b, maxbits) == AddSub(a, b, b.w # <<>> /\ ~b.neg, maxbits)
Neg(a) == [a EXCEPT !.neg = a.w # <<>> /\ ~a.neg]
Abs(a) == [a EXCEPT !.neg = FALSE]

(* ------------------------- products and shifts ------------------------- *)

\* w with its words from j on replaced by ws
PutWords(w, j, ws) == SubSeq(w, 1, j - 1) \o ws \o SubSeq(w, j + Len(ws), Len(w))

\* one row of the schoolbook product: the words of t from i on, with a[i] b
MulRow(t, ai, b, i) ==
    PutWords(t, i, Carry([j \in DOMAIN b |-> ai * b[j] + t[i + j - 1]], 0))
RECURSIVE MulRows(_, _, _, _)
MulRows(t, a, b, i) ==
    IF i > Len(a) THEN t ELSE MulRows(MulRow(t, a[i], b, i), a, b, i + 1)

\* Mutant: as if a product always had the bits of both.
TooLongSoon(a, b, maxbits) == Bits(a) + Bits(b) > maxbits

\* a product has the bits of both, or one less
TooLong(a, b, maxbits) == Bits(a) + Bits(b) > maxbits + 1

MulLim(r0, a, b, maxbits) ==
    IF TooLong(a, b, maxbits) THEN [ok |-> FALSE, r |-> r0]
    ELSE Limited(Signed(Mag(MulRows([i \in 1 .. Len(a.w) + Len(b.w) |-> 0], a.w, b.w, 1)),
                        a.neg # b.neg), maxbits)

ShlRaw(a, bits) ==
    IF a.w = <<>> THEN Zero
    ELSE Signed(Mag([i \in 1 .. bits \div W |-> 0]
                    \o Carry([i \in DOMAIN a.w |-> a.w[i] * 2 ^ (bits % W)], 0)), a.neg)
ShlLim(r0, a, bits, maxbits) ==
    IF a.w # <<>> /\ Bits(a) + bits > maxbits THEN [ok |-> FALSE, r |-> r0]
    ELSE [ok |-> TRUE, r |-> ShlRaw(a, bits)]

(* ------------------------------ division ------------------------------- *)

\* the estimate of a word of the quotient, brought down while the next word
\* of the divisor (second) shows that it is too large
RECURSIVE Estimate(_, _, _, _, _)
Estimate(qhat, rhat, top, second, next) ==
    IF qhat >= Base \/ qhat * second > rhat * Base + next
    THEN IF rhat + top >= Base THEN qhat - 1
         ELSE Estimate(qhat - 1, rhat + top, top, second, next)
    ELSE qhat

\* Mutant: vn is not added back.
ReduceOnce(un, vn, j, qhat, diff) ==
    [q |-> qhat, un |-> PutWords(un, j, Front(diff))]

\* one word of the quotient: what is left of un at j after qhat vn is taken
\* from it, and vn added back when that was once too many
Reduce(un, vn, j, qhat, diff) ==
    IF Last(diff) >= 0 THEN [q |-> qhat, un |-> PutWords(un, j, Front(diff))]
    ELSE [q  |-> qhat - 1,
          un |-> PutWords(un, j,
                   Front(Carry([i \in 1 .. Len(diff) - 1 |-> diff[i] + At(vn, i)], 0)))]

DivStep(un, vn, j, num) ==
    LET n    == Len(vn)
        qhat == Estimate(num \div vn[n], num % vn[n], vn[n], vn[n - 1], un[j + n - 2])
    IN  Reduce(un, vn, j, qhat,
               Carry([i \in 1 .. n + 1 |-> un[j + i - 1] - qhat * At(vn, i)], 0))
RECURSIVE DivLoop(_, _, _), NextWord(_, _, _, _)
NextWord(step, vn, j, q) == DivLoop([q |-> <<step.q>> \o q, un |-> step.un], vn, j)
DivLoop(d, vn, j) ==
    IF j = 0 THEN d
    ELSE NextWord(DivStep(d.un, vn, j, d.un[j + Len(vn)] * Base + d.un[j + Len(vn) - 1]),
                  vn, j - 1, d.q)

\* algorithm D: |u| >= |v| of two words or more
Left(w, s) == Carry([i \in DOMAIN w |-> w[i] * 2 ^ s], 0)
Right(w, n, s) ==
    [i \in 1 .. n |-> w[i] \div 2 ^ s
                      + ((IF i < n THEN w[i + 1] * 2 ^ (W - s) ELSE 0) % Base)]
Undone(d, n, s) == [q |-> Mag(d.q), m |-> Mag(Right(d.un, n, s))]
MagDivMod(u, v) ==
    LET s == W - BitLen(Last(v.w))
    IN  Undone(DivLoop([q |-> <<>>, un |-> Left(u.w, s)], Front(Left(v.w, s)),
                       Len(u.w) - Len(v.w) + 1), Len(v.w), s)

\* a divisor of one word: a word of the quotient at a time
RECURSIVE ShortDiv(_, _, _, _)
ShortDiv(w, d, rem, q) ==
    IF w = <<>> THEN [q |-> Mag(q), m |-> SetU(rem)]
    ELSE ShortDiv(Front(w), d, (rem * Base + Last(w)) % d,
                  <<(rem * Base + Last(w)) \div d>> \o q)

SignedDiv(d, qneg, mneg) == [q |-> Signed(d.q, qneg), m |-> Signed(d.m, mneg)]
DivMod(a, b) ==
    SignedDiv(IF Len(b.w) = 1 THEN ShortDiv(a.w, b.w[1], 0, <<>>)
              ELSE IF MagCmp(a, b) < 0 THEN [q |-> Zero, m |-> Abs(a)]
              ELSE MagDivMod(a, b), a.neg # b.neg, a.neg)
Quo(a, b) == DivMod(a, b).q
Rem(a, b) == DivMod(a, b).m

(* ----------------- powers, common divisors, roots ---------------------- *)

RECURSIVE PowLoop(_, _, _, _), PowSquare(_, _, _, _), PowNext(_, _, _, _)
PowNext(m, base, e, maxbits) ==
    IF base.ok THEN PowLoop(m.r, base.r, e, maxbits) ELSE [ok |-> FALSE, r |-> m.r]
PowSquare(m, base, e, maxbits) ==
    IF ~m.ok \/ e = 0 THEN m ELSE PowNext(m, MulLim(base, base, base, maxbits), e, maxbits)
PowLoop(result, base, e, maxbits) ==
    PowSquare(IF e % 2 = 1 THEN MulLim(result, result, base, maxbits)
              ELSE [ok |-> TRUE, r |-> result], base, e \div 2, maxbits)
PowLim(r0, a, e, maxbits) ==
    IF Bits(a) > 1 /\ e > 0 /\ (e > maxbits \/ (Bits(a) - 1) * e > maxbits)
    THEN [ok |-> FALSE, r |-> r0]
    ELSE PowLoop(SetU(1), a, e, maxbits)

\* t, with the sign to give it, when it could be made; else r0 stays
KeptOr(r0, t, neg) ==
    [ok |-> t.ok, r |-> IF ~t.ok THEN r0 ELSE IF neg THEN Neg(t.r) ELSE t.r]

RECURSIVE GcdLoop(_, _)
GcdLoop(x, y) == IF y.w = <<>> THEN x ELSE GcdLoop(y, Rem(x, y))
Gcd(a, b) == GcdLoop(Abs(a), Abs(b))

LcmLim(r0, a, b, maxbits) ==
    IF a.w = <<>> \/ b.w = <<>> THEN [ok |-> TRUE, r |-> Zero]
    ELSE MulLim(r0, Quo(Abs(a), Gcd(a, b)), Abs(b), maxbits)

\* Newton from above: x comes down to the k-th root of m
RECURSIVE RootLoop(_, _, _, _), RootNext(_, _, _, _, _)
RootNext(next, x, m, k, maxbits) ==
    IF Cmp(next, x) >= 0 THEN [ok |-> TRUE, r |-> x] ELSE RootLoop(next, m, k, maxbits)
RootSum(y, q, maxbits) ==      \* the terms of a step summed, over k
    IF ~y.ok THEN y ELSE AddLim(y.r, q, maxbits)
RootStep(p, x, m, k, maxbits) ==
    IF ~p.ok THEN p
    ELSE RootSum(MulLim(Zero, x, SetU(k - 1), maxbits), Quo(m, p.r), maxbits)
RootTry(step, x, m, k, maxbits) ==
    IF ~step.ok THEN step ELSE RootNext(Quo(step.r, SetU(k)), x, m, k, maxbits)
RootLoop(x, m, k, maxbits) ==
    RootTry(RootStep(PowLim(Zero, x, k - 1, maxbits + Bits(m)), x, m, k, maxbits),
            x, m, k, maxbits)
RootFrom(first, a, k, maxbits) ==
    IF first.ok THEN RootLoop(first.r, Abs(a), k, maxbits) ELSE first
RootLim(r0, a, k, maxbits) ==
    IF k = 1 THEN [ok |-> TRUE, r |-> a]
    ELSE IF a.w = <<>> \/ k >= Bits(a) THEN [ok |-> TRUE, r |-> SetI(Sign(a))]
    ELSE KeptOr(r0, RootFrom(ShlLim(Zero, SetU(1), (Bits(a) + k - 1) \div k, maxbits),
                                 a, k, maxbits), a.neg)

BitOf(a, i) == (At(a.w, i \div W + 1) \div 2 ^ (i % W)) % 2
\* t reduced, when the product could be made
ModOf(t, m) == IF t.ok THEN [ok |-> TRUE, r |-> Rem(t.r, m)] ELSE t
Times(acc, base, m, maxbits) ==
    IF acc.ok THEN ModOf(MulLim(Zero, acc.r, base, maxbits), m) ELSE acc
RECURSIVE PowModLoop(_, _, _, _, _, _)
PowModLoop(acc, base, e, m, i, maxbits) ==
    IF i = 0 \/ ~acc.ok THEN acc
    ELSE PowModLoop(IF BitOf(e, i - 1) = 1
                    THEN Times(Times(acc, acc.r, m, maxbits), base, m, maxbits)
                    ELSE Times(acc, acc.r, m, maxbits), base, e, m, i - 1, maxbits)
PowModBase(base, m, maxbits) ==     \* in 0 .. m - 1
    IF base.neg THEN AddLim(base, m, maxbits) ELSE [ok |-> TRUE, r |-> base]
PowModFrom(base, e, m, maxbits) ==
    IF base.ok
    THEN PowModLoop([ok |-> TRUE, r |-> Rem(SetU(1), m)], base.r, e, m, Bits(e), maxbits)
    ELSE base
PowModLim(r0, b, e, m, maxbits) ==
    KeptOr(r0, PowModFrom(PowModBase(Rem(b, Abs(m)), Abs(m), maxbits), e, Abs(m), maxbits),
               FALSE)

(* --------------------- machine integers and digits --------------------- *)

RECURSIVE WordsVal(_)
WordsVal(w) == IF w = <<>> THEN 0 ELSE Head(w) + Base * WordsVal(Tail(w))

ToU64(a) == IF a.neg \/ Len(a.w) > 2 THEN [ok |-> FALSE, r |-> 0]
            ELSE [ok |-> TRUE, r |-> WordsVal(a.w)]
ToI64(a) ==
    LET m == ToU64(Abs(a))
        half == 2 ^ (2 * W - 1)
    IN  IF ~m.ok \/ (IF a.neg THEN m.r > half ELSE m.r > half - 1)
        THEN [ok |-> FALSE, r |-> 0]
        ELSE [ok |-> TRUE, r |-> IF a.neg THEN -m.r ELSE m.r]

\* digits is what the characters stand for: an underscore, or a digit of a
\* larger base, is some value not below base and is skipped
RECURSIVE ParseLoop(_, _, _, _), ParseGrown(_, _, _, _)
ParseGrown(c, digits, base, maxwords) ==
    IF Last(c) = 0 THEN ParseLoop(Front(c), digits, base, maxwords)
    ELSE IF Len(c) > maxwords THEN [ok |-> FALSE, r |-> Front(c)]
    ELSE ParseLoop(c, digits, base, maxwords)
ParseLoop(w, digits, base, maxwords) ==
    IF digits = <<>> THEN [ok |-> TRUE, r |-> w]
    ELSE IF Head(digits) >= base THEN ParseLoop(w, Tail(digits), base, maxwords)
    ELSE ParseGrown(Carry([i \in DOMAIN w |-> w[i] * base], Head(digits)),
                    Tail(digits), base, maxwords)
Parsed(r0, p, maxbits) == IF p.ok THEN Limited([w |-> p.r, neg |-> FALSE], maxbits)
                          ELSE [ok |-> FALSE, r |-> r0]
ParseLim(r0, digits, base, maxbits) ==
    Parsed(r0, ParseLoop(<<>>, digits, base, maxbits \div W + 2), maxbits)

\* the digits of one group, all of them unless it is the first
RECURSIVE GroupDigits(_, _)
GroupDigits(g, atleast) ==
    IF g < Digit10 /\ atleast <= 1 THEN <<g>>
    ELSE GroupDigits(g \div Digit10, atleast - 1) \o <<g % Digit10>>
RECURSIVE StrGroups(_), StrSplit(_)
StrSplit(d) ==
    IF d.q.w = <<>> THEN GroupDigits(ToU64(d.m).r, 1)
    ELSE StrGroups(d.q) \o GroupDigits(ToU64(d.m).r, Group9)
StrGroups(t) == StrSplit(DivMod(t, SetU(Digit10 ^ Group9)))
Str(a) == StrGroups(Abs(a))         \* the digits; limba_big_str puts '-' before

=============================================================================
