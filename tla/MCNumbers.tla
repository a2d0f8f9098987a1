----------------------------- MODULE MCNumbers -----------------------------
(* Instance of Numbers: words of 7 bits, so that 64-bit integers have 14,   *)
(* 128-bit ones 28, and the limits of decimal.c shrink in proportion.      *)
EXTENDS Numbers, TLC

\* numbers of up to n words, each word one that makes carries, borrows and
\* estimates go wrong when they can
EdgeWords == {0, 1, 64, 127}
RECURSIVE OfWords(_, _)
OfWords(n, words) == IF n = 0 THEN {0}
                      ELSE {m * 128 + w : m \in OfWords(n - 1, words), w \in words}
EdgeNumbers(n) == OfWords(n, EdgeWords)
Both(S) == S \cup {-s : s \in S}

CallSet(fn, xs) == {[fn |-> fn, x |-> x] : x \in xs}
Pairs(fn, S, T, limits) == CallSet(fn, {<<a, b, m>> : a \in S, b \in T, m \in limits})

Sums == Pairs("add", Both(EdgeNumbers(2)), Both(EdgeNumbers(2)), {14})
        \cup Pairs("sub", Both(EdgeNumbers(2)), Both(EdgeNumbers(2)), {14})
Products == Pairs("mul", Both({0, 1, 2, 63, 127, 128, 8191, 8192, 16383}),
                         EdgeNumbers(2), {13, 20, 21})
            \cup Pairs("lcm", {-12, -1, 0, 6, 129, 8192}, -9 .. 9, {8, 12})
            \cup Pairs("shl", {-129, -1, 0, 1, 127, 16383}, 0 .. 15, {15, 20})
            \cup Pairs("pow", -9 .. 9, 0 .. 8, {9, 12, 21})
            \cup Pairs("root", -40 .. 200, {1, 3, 5, 7}, {8})
            \cup Pairs("root", 0 .. 200, {2, 4, 8}, {8})
            \cup CallSet("powmod", {<<b, e, m, l>> : b \in -8 .. 8, e \in 0 .. 6,
                                                    m \in {-5, 1, 7, 12}, l \in {5, 20}})
            \cup CallSet("parse", {<<10, l>> \o s : l \in {7, 9},
                                   s \in [1 .. 4 -> {0, 1, 9, 99}]})
            \cup CallSet("parse", {<<16, l>> \o s : l \in {7, 14},
                                   s \in [1 .. 4 -> {0, 8, 15}]})
Divisions ==
    CallSet("divmod", {<<u, v>> : u \in OfWords(4, {0, 63, 126, 127}),
                                    v \in OfWords(3, {0, 64, 126, 127}) \ 0 .. 127})
    \cup CallSet("divmod", {<<u, v>> : u \in Both({0, 1, 127, 128, 16383}),
                                       v \in Both({1, 7, 127, 128, 8193})})
    \cup CallSet("cmpgcd", {<<u, v>> : u \in -6 .. 12, v \in -12 .. 12})
    \cup CallSet("cmpgcd", {<<a * 64, b * 96>> : a \in 1 .. 5, b \in 1 .. 5})
    \cup CallSet("convert", {<<v>> : v \in Both(EdgeNumbers(3))})

Fractions == {<<n, d>> : n \in {-6, -1, 0, 1, 2, 5, 64}, d \in {1, 2, 3, 5, 64}}
Operands(l) == {p \o q \o <<l>> : p \in Fractions, q \in Fractions}
Quotients == UNION {CallSet(fn, Operands(9)) : fn \in {"radd", "rsub", "rmul"}}
             \cup CallSet("rdiv", {x \in Operands(9) : x[3] # 0})
             \cup CallSet("rcmp", Operands(21))
             \cup CallSet("rpow", {p \o <<e, 9>> : p \in {q \in Fractions : q[1] # 0},
                                                  e \in -3 .. 3})
             \cup CallSet("literal", {<<f, e, 40>> \o s : f \in 0 .. 2, e \in {-2, 0, 3},
                                        s \in [1 .. 3 -> {0, 2, 5}] \cup {<<1, 2, 5, 0, 0>>}})

Double == [mant |-> 4, emin |-> -4, emax |-> 8, p10 |-> 1, extra |-> 1, top |-> 2, low |-> -3]
Float == [mant |-> 3, emin |-> -2, emax |-> 6, p10 |-> 1, extra |-> 0, top |-> 2, low |-> -1]
MCFormats == <<Double, Float>>
Reals(i) == Values(MCFormats[i]) \ {0, Past(MCFormats[i])}

Roundings ==
    CallSet("round", {<<1, n, d>> : n \in -20 .. 40, d \in 1 .. 40})
    \cup CallSet("round", {<<2, n, 64>> : n \in 0 .. 300})
    \cup CallSet("round", {<<2, n, 1>> : n \in 100 .. 140})
    \cup CallSet("round", {<<1, n, 1>> : n \in 470 .. 520})
    \cup CallSet("round", {<<2, 16383 + a, 16384 + b>> : a \in {0, 1, 8193}, b \in {0, 3}})
Decimals ==
    CallSet("scaled", {<<1, u, q>> : u \in Reals(1), q \in -4 .. 4})
    \cup CallSet("fixed", {<<1, u, d>> : u \in Reals(1) \cup {0}, d \in 0 .. 2})
    \cup UNION {CallSet("fmt", {<<i, u>> : u \in Reals(i)}) : i \in 1 .. 2}
    \cup CallSet("read", {<<2, -5 - Len(z)>> \o DigitsOf(k * 3125) \o z :
                            k \in 1 .. 30, z \in {<<>>, <<0>>, <<1>>}})
    \cup CallSet("read", {<<2, k>> \o s : k \in -4 .. 2, s \in [1 .. 2 -> {0, 1, 3, 9}]})
    \cup CallSet("readint", {<<1, k, d>> : k \in -3 .. 2, d \in 0 .. 60})
Bytes ==
    CallSet("uleb", {<<v>> : v \in 0 .. 1023})
    \cup CallSet("sleb", {<<v>> : v \in -512 .. 511})
    \cup CallSet("count", {<<m>> \o s : m \in 1 .. 2, s \in [1 .. 3 -> {0, 1, 2, 5, 9, 15}]})
    \cup CallSet("count", {<<0, 15, 15, 15, b, c>> : b \in 0 .. 15, c \in {0, 9}})

MCCalls == <<Sums, Products, Divisions, Quotients, Roundings, Decimals, Bytes>>
=============================================================================
